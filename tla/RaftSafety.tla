----------------------------- MODULE RaftSafety -----------------------------
(***************************************************************************)
(* Why the replicated log is safe, for any number of servers, terms and    *)
(* entries: a step of the kind RaftInv describes (Progress) keeps the      *)
(* invariant (Safe).  RaftSteps shows that every action is such a step.    *)
(* The last sections prepare that, and add what the kicker (Kicked) and    *)
(* the responses to AppendEntries (Answered) need.                         *)
(***************************************************************************)
EXTENDS RaftInv, TLAPS

\* Most leaves are facts about functions and sets without arithmetic.
USE Zenon

-----------------------------------------------------------------------------
(* Sequences.                                                              *)

\* The length of a sequence is a number.
LEMMA SeqLength ==
    ASSUME NEW S, NEW s \in Seq(S)
    PROVE  Len(s) \in Nat
  BY SMT

\* The elements of a sequence of a set are in the set.
LEMMA SeqElement ==
    ASSUME NEW S, NEW s \in Seq(S), NEW n \in 1..Len(s)
    PROVE  s[n] \in S
  BY SMT

\* A sequence that is not empty has a first element.
LEMMA SeqNonEmpty ==
    ASSUME NEW S, NEW s \in Seq(S), s # <<>>
    PROVE  Len(s) > 0 /\ 1 \in 1..Len(s) /\ Head(s) = s[1] /\ Head(s) \in S
  BY SMT

\* A sequence without its first element.
LEMMA SeqTail ==
    ASSUME NEW S, NEW s \in Seq(S), s # <<>>
    PROVE  /\ Tail(s) \in Seq(S) /\ Len(s) = Len(Tail(s)) + 1
           /\ \A n \in 1..Len(Tail(s)) : Tail(s)[n] = s[n + 1]
  BY SMT

\* The first elements of a sequence.
LEMMA SeqPrefix ==
    ASSUME NEW S, NEW s \in Seq(S), NEW n \in 0..Len(s)
    PROVE  /\ SubSeq(s, 1, n) \in Seq(S) /\ Len(SubSeq(s, 1, n)) = n
           /\ \A k \in 1..n : SubSeq(s, 1, n)[k] = s[k]
  BY SMT

\* Two sequences one after the other.
LEMMA SeqConcat ==
    ASSUME NEW S, NEW a \in Seq(S), NEW b \in Seq(S)
    PROVE  /\ a \o b \in Seq(S) /\ Len(a \o b) = Len(a) + Len(b)
           /\ \A k \in 1..(Len(a) + Len(b)) :
                 (a \o b)[k] = IF k <= Len(a) THEN a[k] ELSE b[k - Len(a)]
  BY SMT

\* What follows an element of a sequence is not its first one.
LEMMA SecondIsLater ==
    ASSUME NEW length \in Nat, NEW n \in 1..length
    PROVE  1 < n + 1
  BY SMT

\* Sequences with the same elements are equal.
LEMMA SeqSame ==
    ASSUME NEW S, NEW a \in Seq(S), NEW b \in Seq(S), Len(a) = Len(b),
           \A k \in 1..Len(a) : a[k] = b[k]
    PROVE  a = b
  BY SMT

-----------------------------------------------------------------------------
(* Logs.                                                                   *)

\* Agreement entry by entry.
LEMMA AgreeIs ==
    ASSUME NEW a \in Seq(Entry), NEW b \in Seq(Entry), NEW n \in Nat
    PROVE  Agree(a, b, n) <=>
              n <= Len(a) /\ n <= Len(b) /\ \A k \in 1..n : a[k] = b[k]
  <1>1. Len(a) \in Nat /\ Len(b) \in Nat
    BY SeqLength
  <1>2. ASSUME n <= Len(a), n <= Len(b)
        PROVE  SubSeq(a, 1, n) = SubSeq(b, 1, n) <=> \A k \in 1..n : a[k] = b[k]
    <2>1. ASSUME NEW c \in Seq(Entry), n <= Len(c)
          PROVE  /\ SubSeq(c, 1, n) \in Seq(Entry) /\ Len(SubSeq(c, 1, n)) = n
                 /\ \A k \in 1..n : SubSeq(c, 1, n)[k] = c[k]
      <3>1. n \in 0..Len(c)
        BY SMT, <2>1, SeqLength
      <3> QED BY <3>1, SeqPrefix
    <2>2. /\ SubSeq(a, 1, n) \in Seq(Entry) /\ Len(SubSeq(a, 1, n)) = n
          /\ \A k \in 1..n : SubSeq(a, 1, n)[k] = a[k]
      BY <1>2, <2>1
    <2>3. /\ SubSeq(b, 1, n) \in Seq(Entry) /\ Len(SubSeq(b, 1, n)) = n
          /\ \A k \in 1..n : SubSeq(b, 1, n)[k] = b[k]
      BY <1>2, <2>1
    <2>4. ASSUME \A k \in 1..n : a[k] = b[k] PROVE SubSeq(a, 1, n) = SubSeq(b, 1, n)
      BY <2>2, <2>3, <2>4, SeqSame
    <2> QED BY <2>2, <2>3, <2>4
  <1> QED BY <1>2 DEF Agree

\* Agreement is transitive, symmetric and closed under shorter prefixes.
LEMMA AgreeLess ==
    ASSUME NEW a \in Seq(Entry), NEW b \in Seq(Entry), NEW n \in Nat, NEW k \in Nat,
           Agree(a, b, n), k <= n
    PROVE  Agree(a, b, k)
  BY SMT, AgreeIs, SeqLength

\* Agreement of logs up to an index is symmetric, ...
LEMMA AgreeSym ==
    ASSUME NEW a, NEW b, NEW n, Agree(a, b, n)
    PROVE  Agree(b, a, n)
  BY DEF Agree

\* ... transitive ...
LEMMA AgreeTrans ==
    ASSUME NEW a, NEW b, NEW c, NEW n, Agree(a, b, n), Agree(b, c, n)
    PROVE  Agree(a, c, n)
  BY DEF Agree

\* ... and reflexive up to the length.
LEMMA AgreeRefl ==
    ASSUME NEW a, NEW n, n <= Len(a)
    PROVE  Agree(a, a, n)
  BY DEF Agree

\* Where two logs agree, the entries are the same.
LEMMA AgreeAt ==
    ASSUME NEW a \in Seq(Entry), NEW b \in Seq(Entry), NEW n \in Nat, NEW k \in 1..n,
           Agree(a, b, n)
    PROVE  a[k] = b[k] /\ k \in 1..Len(a) /\ k \in 1..Len(b) /\ n <= Len(a) /\ n <= Len(b)
  BY SMT, AgreeIs, SeqLength

\* Logs that agree have the same terms.
LEMMA AgreeTermAt ==
    ASSUME NEW a \in Seq(Entry), NEW b \in Seq(Entry), NEW n \in Nat, NEW k \in 1..n,
           Agree(a, b, n)
    PROVE  TermAt(a, k) = TermAt(b, k)
  <1>1. a[k] = b[k] /\ k \in 1..Len(a) /\ k \in 1..Len(b)
    BY AgreeAt
  <1> QED BY <1>1 DEF TermAt

\* An entry has a term.
LEMMA EntryTerm ==
    ASSUME NEW a \in Seq(Entry), NEW k \in 1..Len(a)
    PROVE  a[k] \in Entry /\ a[k].term \in Nat /\ k \in Nat /\ k > 0 /\ k <= Len(a)
  <1>1. a[k] \in Entry
    BY SeqElement
  <1>2. Len(a) \in Nat
    BY SeqLength
  <1>3. k \in Nat /\ k > 0 /\ k <= Len(a)
    BY SMT, <1>2
  <1>4. a[k].term \in Nat
    BY <1>1 DEF Entry
  <1> QED BY <1>1, <1>3, <1>4

\* A log cut to its first n entries.
LEMMA CutProperties ==
    ASSUME NEW a \in Seq(Entry), NEW n \in Nat, n <= Len(a)
    PROVE  SubSeq(a, 1, n) \in Seq(Entry) /\ Len(SubSeq(a, 1, n)) = n /\ Agree(SubSeq(a, 1, n), a, n)
  <1>1. n \in 0..Len(a)
    BY SMT, SeqLength
  <1>2. /\ SubSeq(a, 1, n) \in Seq(Entry) /\ Len(SubSeq(a, 1, n)) = n
        /\ \A k \in 1..n : SubSeq(a, 1, n)[k] = a[k]
    BY <1>1, SeqPrefix
  <1> DEFINE c == SubSeq(a, 1, n)
  <1> HIDE DEF c
  <1>3. c \in Seq(Entry) /\ Len(c) = n /\ \A k \in 1..n : c[k] = a[k]
    BY <1>2 DEF c
  <1>4. Agree(c, a, n)
    BY SMT, <1>3, AgreeIs
  <1> QED BY <1>3, <1>4 DEF c

\* A log with entries appended.
LEMMA AppendedProperties ==
    ASSUME NEW a \in Seq(Entry), NEW e \in Seq(Entry)
    PROVE  /\ a \o e \in Seq(Entry) /\ Len(a \o e) = Len(a) + Len(e)
           /\ Agree(a \o e, a, Len(a))
           /\ \A k \in 1..Len(e) : (a \o e)[Len(a) + k] = e[k]
  <1>1. /\ a \o e \in Seq(Entry) /\ Len(a \o e) = Len(a) + Len(e)
        /\ Len(a) \in Nat /\ Len(e) \in Nat
        /\ \A k \in 1..(Len(a) + Len(e)) :
              (a \o e)[k] = IF k <= Len(a) THEN a[k] ELSE e[k - Len(a)]
    BY SeqConcat, SeqLength
  <1>2. \A k \in 1..Len(a) : (a \o e)[k] = a[k]
    BY SMT, <1>1
  <1>3. \A k \in 1..Len(e) : (a \o e)[Len(a) + k] = e[k]
    <2> SUFFICES ASSUME NEW k \in 1..Len(e) PROVE (a \o e)[Len(a) + k] = e[k]
      OBVIOUS
    <2>1. Len(a) + k \in 1..(Len(a) + Len(e)) /\ ~(Len(a) + k <= Len(a)) /\ Len(a) + k - Len(a) = k
      BY SMT, <1>1
    <2>2. PICK x \in 1..(Len(a) + Len(e)) : x = Len(a) + k
      BY <2>1
    <2>3. (a \o e)[x] = IF x <= Len(a) THEN a[x] ELSE e[x - Len(a)]
      BY <1>1
    <2>4. ~(x <= Len(a)) /\ x - Len(a) = k
      BY SMT, <1>1, <2>2
    <2>5. (a \o e)[x] = e[k]
      BY <2>3, <2>4
    <2> QED BY <2>2, <2>5
  <1> DEFINE c == a \o e
  <1> HIDE DEF c
  <1>4. c \in Seq(Entry) /\ Len(a) <= Len(c) /\ Len(a) <= Len(a) /\ \A k \in 1..Len(a) : c[k] = a[k]
    <2>1. Len(a) <= Len(a) + Len(e) /\ Len(a) <= Len(a)
      BY SMT, <1>1
    <2> QED BY <1>1, <1>2, <2>1 DEF c
  <1>5. Agree(c, a, Len(a))
    BY <1>1, <1>4, AgreeIs
  <1> QED BY <1>1, <1>3, <1>5 DEF c

\* Two majorities share a server.
LEMMA QuorumsMeet ==
    ASSUME Quorums, NEW S \in SUBSET Server, NEW T \in SUBSET Server, Majority(S), Majority(T)
    PROVE  S \cap T # {}
  BY DEF Quorums

\* A set larger than a majority is one.
LEMMA LargerQuorum ==
    ASSUME Quorums, NEW S, NEW T, S \subseteq T, T \subseteq Server, Majority(S)
    PROVE  Majority(T)
  BY DEF Quorums

\* What was chosen is never blocked.
LEMMA ChosenIsNotBlocked ==
    ASSUME Quorums, NEW h, NEW a, NEW c, NEW n, NEW t, Chosen(n, t, h, a), Blocked(n, t, c, a)
    PROVE  FALSE
  <1> DEFINE V == {v \in Server : <<v, t, n>> \in a}
  <1>1. Majority(V) /\ V \in SUBSET Server
    BY DEF Chosen
  <1>2. PICK M \in SUBSET Server : Majority(M) /\ \A v \in M : <<v, t, n>> \notin a
    BY DEF Blocked
  <1>3. PICK v \in Server : v \in V /\ v \in M
    <2>1. V \cap M # {}
      BY <1>1, <1>2, QuorumsMeet
    <2> QED BY <2>1
  <1> QED BY <1>2, <1>3

\* What was chosen in a term, its leader and every later one have.
LEMMA ChosenIsHeld ==
    ASSUME Quorums, NEW h, NEW a, NEW c, IsHistory(h), LaterLeadersHold(h, c, a),
           NEW n \in Nat, NEW t, NEW u \in DOMAIN h, Chosen(n, t, h, a), t <= u
    PROVE  Agree(h[u], h[t], n)
  <1>1. t \in DOMAIN h /\ n \in 1..Len(h[t])
    BY DEF Chosen, Own
  <1>2. t \in Nat /\ u \in Nat /\ h[t] \in Seq(Entry)
    BY <1>1 DEF IsHistory
  <1>3. CASE t = u
    <2>1. n <= Len(h[t])
      BY <1>1, <1>2, EntryTerm
    <2> QED BY <1>3, <2>1, AgreeRefl
  <1>4. CASE t < u
    BY <1>1, <1>4, ChosenIsNotBlocked DEF LaterLeadersHold, Chosen
  <1> QED BY SMT, <1>2, <1>3, <1>4

\* Two linked logs with an entry of one term at one index agree up to it.
LEMMA LinkedLogsMatch ==
    ASSUME NEW h, NEW x, NEW y, Linked(x, h), Linked(y, h),
           NEW n, n \in 1..Len(x), n \in 1..Len(y), x[n].term = y[n].term
    PROVE  Agree(x, y, n)
  <1>1. Agree(x, h[x[n].term], n) /\ Agree(y, h[x[n].term], n)
    BY DEF Linked
  <1> QED BY <1>1 DEF Agree

\* A linked log is ascending.
LEMMA LinkedAscends ==
    ASSUME NEW h, IsHistory(h), LeaderLogs(h), NEW x \in Seq(Entry), Linked(x, h),
           NEW n \in 1..Len(x), NEW k \in 1..n
    PROVE  x[k].term <= x[n].term
  <1>1. n \in Nat /\ x[n].term \in DOMAIN h /\ Agree(x, h[x[n].term], n)
    BY EntryTerm DEF Linked
  <1>2. h[x[n].term] \in Seq(Entry) /\ Ascending(h[x[n].term], x[n].term)
    BY <1>1 DEF IsHistory, LeaderLogs
  <1>3. x[k] = h[x[n].term][k] /\ k \in 1..Len(h[x[n].term])
    BY <1>1, <1>2, AgreeAt
  <1> QED BY <1>2, <1>3 DEF Ascending

\* Growth keeps what a leader's log says at an index it has.
LEMMA GrownAt ==
    ASSUME NEW h, NEW hh, IsHistory(h), IsHistory(hh), Grown(h, hh),
           NEW t \in DOMAIN h, NEW n \in 1..Len(h[t])
    PROVE  t \in DOMAIN hh /\ n \in 1..Len(hh[t]) /\ hh[t][n] = h[t][n]
  <1>1. t \in DOMAIN hh /\ h[t] \in Seq(Entry) /\ hh[t] \in Seq(Entry)
        /\ Agree(hh[t], h[t], Len(h[t]))
    BY DEF Grown, IsHistory
  <1>2. Len(h[t]) \in Nat
    BY <1>1, SeqLength
  <1> QED BY <1>1, <1>2, AgreeAt

\* Growth keeps agreement with a leader's log.
LEMMA GrownAgree ==
    ASSUME NEW h, NEW hh, IsHistory(h), IsHistory(hh), Grown(h, hh),
           NEW t \in DOMAIN h, NEW x \in Seq(Entry), NEW n \in Nat, Agree(x, h[t], n)
    PROVE  Agree(x, hh[t], n)
  <1>1. t \in DOMAIN hh /\ h[t] \in Seq(Entry) /\ hh[t] \in Seq(Entry)
        /\ Agree(hh[t], h[t], Len(h[t]))
    BY DEF Grown, IsHistory
  <1>2. Len(h[t]) \in Nat /\ n <= Len(h[t])
    BY <1>1, SeqLength DEF Agree
  <1>3. Agree(hh[t], h[t], n)
    BY <1>1, <1>2, AgreeLess
  <1> QED BY <1>3 DEF Agree

\* Growth keeps logs linked.
LEMMA GrownLinked ==
    ASSUME NEW h, NEW hh, IsHistory(h), IsHistory(hh), Grown(h, hh),
           NEW x \in Seq(Entry), Linked(x, h)
    PROVE  Linked(x, hh)
  <1> SUFFICES ASSUME NEW n \in 1..Len(x)
               PROVE  x[n].term \in DOMAIN hh /\ Agree(x, hh[x[n].term], n)
    BY DEF Linked
  <1>1. n \in Nat /\ x[n].term \in DOMAIN h /\ Agree(x, h[x[n].term], n)
    BY EntryTerm DEF Linked
  <1> QED BY <1>1, GrownAgree DEF Grown

\* Growth keeps own entries, and what is chosen and settled.
LEMMA GrownOwn ==
    ASSUME NEW h, NEW hh, IsHistory(h), IsHistory(hh), Grown(h, hh), NEW n, NEW t,
           Own(n, t, h)
    PROVE  Own(n, t, hh)
  <1>1. t \in DOMAIN h /\ n \in 1..Len(h[t]) /\ h[t][n].term = t
    BY DEF Own
  <1>2. t \in DOMAIN hh /\ n \in 1..Len(hh[t]) /\ hh[t][n] = h[t][n]
    BY SMT, <1>1, GrownAt
  <1> QED BY <1>1, <1>2 DEF Own

\* What is chosen or settled stays so as the history grows.
LEMMA GrownSettled ==
    ASSUME Quorums, NEW h, NEW hh, NEW a, NEW aa, IsHistory(h), IsHistory(hh), Grown(h, hh),
           a \subseteq aa
    PROVE  /\ \A n, t : Chosen(n, t, h, a) => Chosen(n, t, hh, aa)
           /\ \A k, t : Settled(k, t, h, a) => Settled(k, t, hh, aa)
  <1>1. ASSUME NEW n, NEW t, Chosen(n, t, h, a) PROVE Chosen(n, t, hh, aa)
    <2> DEFINE V == {v \in Server : <<v, t, n>> \in a}
               W == {v \in Server : <<v, t, n>> \in aa}
    <2>1. Own(n, t, hh) /\ Majority(V)
      BY <1>1, GrownOwn DEF Chosen
    <2>2. V \subseteq W /\ W \subseteq Server
      OBVIOUS
    <2>3. Majority(W)
      BY <2>1, <2>2, LargerQuorum
    <2> QED BY <2>1, <2>3 DEF Chosen
  <1>2. ASSUME NEW k, NEW t, Settled(k, t, h, a) PROVE Settled(k, t, hh, aa)
    BY <1>1, <1>2 DEF Settled, Grown
  <1> QED BY <1>1, <1>2

-----------------------------------------------------------------------------
(* Every such step keeps the invariant.                                    *)

\* The types of a state.
LEMMA Types ==
    ASSUME TypeOK
    PROVE  /\ IsHistory(leader_log) /\ IsAcks(acked)
           /\ \A s \in Server : /\ current_term[s] \in Nat /\ commit_idx[s] \in Nat
                                /\ log_base[s] \in Nat /\ last_applied_idx[s] \in Nat
                                /\ log[s] \in Seq(Entry) /\ Len(log[s]) \in Nat
           /\ \A t \in DOMAIN leader_log :
                 t \in Nat /\ leader_log[t] \in Seq(Entry) /\ Len(leader_log[t]) \in Nat
  <1>1. IsHistory(leader_log) /\ IsAcks(acked)
    BY DEF TypeOK, HistoryTypes, IsHistory, IsAcks
  <1>2. \A s \in Server : /\ current_term[s] \in Nat /\ commit_idx[s] \in Nat
                          /\ log_base[s] \in Nat /\ last_applied_idx[s] \in Nat
                          /\ log[s] \in Seq(Entry)
    BY DEF TypeOK, ServerTypes
  <1>3. \A t \in DOMAIN leader_log : t \in Nat /\ leader_log[t] \in Seq(Entry)
    BY <1>1 DEF IsHistory
  <1> QED BY <1>1, <1>2, <1>3, SeqLength

\* The types of a step's two states.
LEMMA BothTypes ==
    ASSUME TypeOK, TypeOK'
    PROVE  /\ IsHistory(leader_log) /\ IsHistory(leader_log')
           /\ IsAcks(acked) /\ IsAcks(acked')
           /\ \A s \in Server :
                 /\ current_term[s] \in Nat /\ current_term'[s] \in Nat
                 /\ commit_idx[s] \in Nat /\ commit_idx'[s] \in Nat
                 /\ log[s] \in Seq(Entry) /\ log'[s] \in Seq(Entry)
                 /\ Len(log[s]) \in Nat /\ Len(log'[s]) \in Nat
  <1>1. /\ IsHistory(leader_log) /\ IsHistory(leader_log')
        /\ IsAcks(acked) /\ IsAcks(acked')
    BY DEF TypeOK, HistoryTypes, IsHistory, IsAcks
  <1>2. ASSUME NEW s \in Server
        PROVE  /\ current_term[s] \in Nat /\ current_term'[s] \in Nat
               /\ commit_idx[s] \in Nat /\ commit_idx'[s] \in Nat
               /\ log[s] \in Seq(Entry) /\ log'[s] \in Seq(Entry)
    BY DEF TypeOK, ServerTypes
  <1> QED BY <1>1, <1>2, SeqLength

\* What is blocked stays so.
LEMMA BlockedStays ==
    ASSUME TypeOK, TypeOK', VoteStep, AckStep, NEW n \in Nat, NEW t \in Nat,
           Blocked(n, t, current_term, acked)
    PROVE  Blocked(n, t, current_term', acked')
  <1>1. PICK M \in SUBSET Server :
           Majority(M) /\ \A v \in M : current_term[v] > t /\ <<v, t, n>> \notin acked
    BY DEF Blocked
  <1>2. ASSUME NEW v \in M PROVE current_term'[v] > t /\ <<v, t, n>> \notin acked'
    <2>1. /\ v \in Server /\ current_term[v] \in Nat /\ current_term'[v] \in Nat
          /\ current_term[v] <= current_term'[v]
      BY BothTypes DEF VoteStep
    <2>4. current_term[v] > t /\ <<v, t, n>> \notin acked
      BY <1>1
    <2>2. current_term'[v] > t /\ current_term'[v] # t
      BY SMT, <2>1, <2>4
    <2>3. <<v, t, n>> \notin acked' \/ <<v, t, n>> \in acked \/ t = current_term'[v]
      BY <2>1 DEF AckStep
    <2> QED BY <2>2, <2>3, <2>4
  <1> QED BY <1>1, <1>2 DEF Blocked

\* Elections are final.
LEMMA TermsElectedStep ==
    ASSUME TypeOK, TypeOK', VotesHold, VotesHold', VoteStep, StateStep, ReignStep, TermsElected
    PROVE  TermsElected'
  <1> SUFFICES ASSUME NEW t \in DOMAIN leader_log'
               PROVE  \E w \in Server : \E Q \in SUBSET Server : ElectedBy(t, w, Q)'
    BY DEF TermsElected
  <1>1. CASE t \in DOMAIN leader_log
    <2>1. PICK w \in Server : \E Q \in SUBSET Server : ElectedBy(t, w, Q)
      BY <1>1 DEF TermsElected
    <2>2. PICK Q \in SUBSET Server : ElectedBy(t, w, Q)
      BY <2>1
    <2>3. t \in Nat
      BY <1>1, BothTypes DEF IsHistory
    <2>4. ASSUME NEW s \in Server, t <= current_term[s]
          PROVE  t <= current_term'[s] /\ (t = current_term'[s] => t = current_term[s])
      <3>1. current_term[s] \in Nat /\ current_term'[s] \in Nat /\ current_term[s] <= current_term'[s]
        BY BothTypes DEF VoteStep
      <3> QED BY SMT, <2>3, <2>4, <3>1
    <2>5. t <= current_term'[w] /\ (t = current_term'[w] => state'[w] = Leader)
      BY <2>2, <2>4 DEF ElectedBy, StateStep
    <2>6. ASSUME NEW v \in Q
          PROVE  /\ t <= current_term'[v] /\ (t = current_term'[v] => voted_for'[v] = w)
                 /\ \A k \in Server : t \in VoteTerms(v, k)' => k = w
      <3>1. /\ v \in Server /\ t <= current_term[v] /\ (t = current_term[v] => voted_for[v] = w)
            /\ \A k \in Server : t \in VoteTerms(v, k) => k = w
        BY <2>2 DEF ElectedBy
      <3>2. t <= current_term'[v] /\ (t = current_term'[v] => t = current_term[v])
        BY <2>4, <3>1
      <3>3. w # Nil
        BY ServerAssumption
      <3>4. t = current_term'[v] => voted_for'[v] = w
        BY <3>1, <3>2, <3>3 DEF VoteStep
      <3>5. ASSUME NEW k \in Server, t \in VoteTerms(v, k)', t \notin VoteTerms(v, k) PROVE FALSE
        <4>1. t = current_term'[v] /\ (current_term[v] < t \/ voted_for[v] = Nil)
          BY <3>1, <3>5 DEF VoteStep
        <4>2. t = current_term[v] /\ current_term[v] < t
          BY <3>1, <3>2, <3>3, <4>1
        <4> QED BY SMT, <2>3, <4>2
      <3> QED BY <3>1, <3>2, <3>4, <3>5
    <2>7. ElectedBy(t, w, Q)'
      BY <2>2, <2>5, <2>6 DEF ElectedBy
    <2> QED BY <2>7
  <1>2. CASE t \notin DOMAIN leader_log
    <2>1. PICK i \in Server : state'[i] = Leader /\ t = current_term'[i]
      BY <1>2 DEF ReignStep
    <2>8. voted_for_me'[i] \cup {i} \in SUBSET Server
      BY DEF TypeOK, ServerTypes
    <2>9. PICK Q \in SUBSET Server : Q = voted_for_me'[i] \cup {i}
      BY <2>8
    <2>2. Majority(Q) /\ Q \in SUBSET Server
      BY <2>1, <2>9 DEF VoteStep
    <2>3. state'[i] # Follower
      BY <2>1 DEF Leader, Follower
    <2>4. ASSUME NEW v \in Q PROVE t \in VoteTerms(v, i)'
      BY <2>1, <2>3, <2>9 DEF VoteTerms
    <2>5. t <= current_term'[i]
      BY SMT, <2>1, BothTypes
    <2>6. ASSUME NEW v \in Q
          PROVE  /\ t <= current_term'[v] /\ (t = current_term'[v] => voted_for'[v] = i)
                 /\ \A k \in Server : t \in VoteTerms(v, k)' => k = i
      BY <2>2, <2>4 DEF VotesHold
    <2>7. ElectedBy(t, i, Q)'
      BY <2>1, <2>2, <2>5, <2>6 DEF ElectedBy
    <2> QED BY <2>2, <2>7
  <1> QED BY <1>1, <1>2

\* The leaders' logs stay linked and in order of terms.
LEMMA LeaderLogsStep ==
    ASSUME TypeOK, TypeOK', ReignStep, LeaderLogs(leader_log), LogsLinked
    PROVE  LeaderLogs(leader_log')
  <1> DEFINE h == leader_log
             hh == leader_log'
  <1>0. IsHistory(h) /\ IsHistory(hh) /\ Grown(h, hh)
    BY BothTypes DEF ReignStep
  <1> SUFFICES ASSUME NEW t \in DOMAIN hh PROVE Linked(hh[t], hh) /\ Ascending(hh[t], t)
    BY DEF LeaderLogs
  <1>t. t \in Nat /\ hh[t] \in Seq(Entry)
    BY <1>0 DEF IsHistory
  <1>1. CASE t \in DOMAIN h
    <2>1. h[t] \in Seq(Entry) /\ Linked(h[t], h) /\ Ascending(h[t], t) /\ Linked(h[t], hh)
      BY <1>0, <1>1, GrownLinked DEF LeaderLogs, IsHistory
    <2>2. Len(h[t]) \in Nat /\ Agree(hh[t], h[t], Len(h[t]))
      BY <1>0, <1>1, <2>1, SeqLength DEF Grown
    <2>3. ASSUME NEW n \in 1..Len(hh[t])
          PROVE  \/ n \in 1..Len(h[t]) /\ hh[t][n] = h[t][n]
                 \/ ~(n \in 1..Len(h[t])) /\ hh[t][n].term = t
      <3>1. n \in Nat /\ n > 0
        BY <1>t, EntryTerm
      <3>2. n \in 1..Len(h[t]) \/ n > Len(h[t])
        BY SMT, <2>2, <3>1
      <3>3. ASSUME n > Len(h[t]) PROVE ~(n \in 1..Len(h[t])) /\ hh[t][n].term = t
        <4>1. ~(n \in 1..Len(h[t]))
          BY SMT, <2>2, <3>1, <3>3
        <4> QED BY <1>0, <1>1, <3>3, <4>1 DEF Grown
      <3> QED BY <1>t, <2>1, <2>2, <3>2, <3>3, AgreeAt
    <2>4. ASSUME NEW n \in 1..Len(hh[t])
          PROVE  hh[t][n].term \in DOMAIN hh /\ Agree(hh[t], hh[hh[t][n].term], n)
      <3>1. n \in Nat /\ n <= Len(hh[t])
        BY <1>t, EntryTerm
      <3>2. CASE n \in 1..Len(h[t]) /\ hh[t][n] = h[t][n]
        <4>1. h[t][n].term \in DOMAIN hh /\ Agree(h[t], hh[h[t][n].term], n)
          BY <2>1, <3>2 DEF Linked
        <4>2. Agree(hh[t], h[t], n)
          BY <1>t, <2>1, <2>2, <3>1, <3>2, AgreeLess, EntryTerm
        <4>3. Agree(hh[t], hh[h[t][n].term], n)
          BY <4>1, <4>2 DEF Agree
        <4> QED BY <3>2, <4>1, <4>3
      <3>3. CASE hh[t][n].term = t
        BY <3>1, <3>3, AgreeRefl
      <3> QED BY <2>3, <3>2, <3>3
    <2>5. ASSUME NEW n \in 1..Len(hh[t]), NEW k \in 1..n
          PROVE  hh[t][n].term <= t /\ hh[t][k].term <= hh[t][n].term
      <3>1. n \in Nat /\ k \in 1..Len(hh[t]) /\ (n \in 1..Len(h[t]) => k \in 1..Len(h[t]))
        BY SMT, <1>t, <2>2, SeqLength
      <3>2. \A x \in 1..Len(h[t]) : h[t][x].term <= t
        BY <2>1 DEF Ascending
      <3>3. hh[t][k].term <= t
        BY SMT, <1>t, <2>3, <3>1, <3>2
      <3>4. CASE n \in 1..Len(h[t]) /\ hh[t][n] = h[t][n]
        <4>1. k \in 1..Len(h[t]) /\ hh[t][k] = h[t][k]
          BY <2>3, <3>1, <3>4
        <4> QED BY <2>1, <3>4, <4>1 DEF Ascending
      <3>5. CASE hh[t][n].term = t
        BY SMT, <1>t, <3>3, <3>5
      <3> QED BY <2>3, <3>4, <3>5
    <2>6. \A n \in 1..Len(hh[t]) : n \in 1..n
      BY SMT, <1>t, SeqLength
    <2>7. Ascending(hh[t], t)
      BY <2>5, <2>6 DEF Ascending
    <2>8. Linked(hh[t], hh)
      BY <2>4 DEF Linked
    <2> QED BY <2>7, <2>8
  <1>2. CASE t \notin DOMAIN h
    <2>1. PICK i \in Server : t = current_term[i] /\ hh[t] = log[i]
      BY <1>2 DEF ReignStep
    <2>2. log[i] \in Seq(Entry) /\ Linked(log[i], h) /\ \A n \in 1..Len(log[i]) : log[i][n].term <= t
      BY <2>1, BothTypes DEF LogsLinked
    <2>3. Linked(log[i], hh)
      BY <1>0, <2>2, GrownLinked
    <2>4. Ascending(log[i], t)
      BY <1>0, <2>2, LinkedAscends DEF Ascending
    <2> QED BY <2>1, <2>3, <2>4
  <1> QED BY <1>1, <1>2

\* So do the servers' logs.
LEMMA LogsLinkedStep ==
    ASSUME TypeOK, TypeOK', VoteStep, ReignStep, LogStep, LeaderLogs(leader_log),
           LeaderLogs(leader_log'), LeadersRecorded', LogsLinked
    PROVE  LogsLinked'
  <1> DEFINE h == leader_log
             hh == leader_log'
  <1>0. IsHistory(h) /\ IsHistory(hh) /\ Grown(h, hh)
    BY BothTypes DEF ReignStep
  <1> SUFFICES ASSUME NEW s \in Server
               PROVE  /\ Linked(log'[s], hh)
                      /\ \A n \in 1..Len(log'[s]) : log'[s][n].term <= current_term'[s]
    BY DEF LogsLinked
  <1>s. /\ log[s] \in Seq(Entry) /\ log'[s] \in Seq(Entry)
        /\ current_term[s] \in Nat /\ current_term'[s] \in Nat
        /\ current_term[s] <= current_term'[s]
        /\ Linked(log[s], h) /\ \A n \in 1..Len(log[s]) : log[s][n].term <= current_term[s]
    BY BothTypes DEF VoteStep, LogsLinked
  <1>m. ASSUME NEW n \in 1..Len(log[s]) PROVE log[s][n].term <= current_term'[s]
    <2>1. log[s][n].term \in Nat /\ log[s][n].term <= current_term[s]
      BY <1>s, EntryTerm
    <2> QED BY SMT, <1>s, <2>1
  <1>1. CASE log'[s] = log[s]
    BY <1>0, <1>1, <1>s, <1>m, GrownLinked
  <1>2. CASE state'[s] = Leader
    <2>1. current_term'[s] \in DOMAIN hh /\ log'[s] = hh[current_term'[s]]
      BY <1>2 DEF LeadersRecorded
    <2> QED BY <2>1 DEF LeaderLogs, Ascending
  <1>3. CASE Followed(s, current_term'[s])
    <2> DEFINE t == current_term'[s]
    <2>1. t \in DOMAIN h /\ h[t] \in Seq(Entry) /\ Linked(h[t], h) /\ Ascending(h[t], t)
      BY <1>0, <1>3 DEF Followed, IsHistory, LeaderLogs
    <2>2. ASSUME NEW n \in 1..Len(log'[s])
          PROVE  /\ log'[s][n].term \in DOMAIN h /\ Agree(log'[s], h[log'[s][n].term], n)
                 /\ log'[s][n].term <= t
      <3>1. n \in Nat /\ n \in 1..n
        BY SMT, <1>s, SeqLength
      <3>2. CASE n \in 1..Len(log[s]) /\ Agree(log'[s], log[s], n)
        <4>1. log'[s][n] = log[s][n]
          BY <1>s, <3>1, <3>2, AgreeAt
        <4>2. log[s][n].term \in DOMAIN h /\ Agree(log[s], h[log[s][n].term], n)
          BY <1>s, <3>2 DEF Linked
        <4>3. Agree(log'[s], h[log[s][n].term], n)
          BY <3>2, <4>2 DEF Agree
        <4> QED BY <1>m, <3>2, <4>1, <4>2, <4>3
      <3>3. CASE Agree(log'[s], h[t], n)
        <4>1. log'[s][n] = h[t][n] /\ n \in 1..Len(h[t])
          BY <1>s, <2>1, <3>1, <3>3, AgreeAt
        <4>2. h[t][n].term \in DOMAIN h /\ Agree(h[t], h[h[t][n].term], n)
          BY <2>1, <4>1 DEF Linked
        <4>3. Agree(log'[s], h[h[t][n].term], n)
          BY <3>3, <4>2 DEF Agree
        <4>4. h[t][n].term <= t
          BY <2>1, <4>1 DEF Ascending
        <4> QED BY <4>1, <4>2, <4>3, <4>4
      <3> QED BY <1>3, <3>2, <3>3 DEF Followed
    <2>3. Linked(log'[s], h)
      BY <2>2 DEF Linked
    <2> QED BY <1>0, <1>s, <2>2, <2>3, GrownLinked
  <1> QED BY <1>1, <1>2, <1>3 DEF LogStep

\* The leaders of later terms go on holding what may have been committed.
LEMMA LaterLeadersStep ==
    ASSUME TypeOK, TypeOK', VotesHold, VoteStep, ReignStep, AckStep, TermsElected', AckersHold,
           VotersHold, LogsLinked, LaterLeadersHold(leader_log, current_term, acked)
    PROVE  LaterLeadersHold(leader_log', current_term', acked')
  <1> DEFINE h == leader_log
             hh == leader_log'
  <1>0. IsHistory(h) /\ IsHistory(hh) /\ Grown(h, hh)
    BY BothTypes DEF ReignStep
  <1> SUFFICES ASSUME NEW t \in DOMAIN hh, NEW u \in DOMAIN hh, NEW n \in Nat, t < u, Own(n, t, hh)
               PROVE  Agree(hh[u], hh[t], n) \/ Blocked(n, t, current_term', acked')
    BY DEF LaterLeadersHold
  <1>1. t \in Nat /\ u \in Nat /\ hh[t] \in Seq(Entry) /\ hh[u] \in Seq(Entry)
        /\ n \in 1..Len(hh[t]) /\ hh[t][n].term = t
    BY <1>0 DEF IsHistory, Own
  <1>2. ASSUME NEW M \in SUBSET Server, Majority(M),
               \A v \in M : u <= current_term'[v] /\ <<v, t, n>> \notin acked
        PROVE  Blocked(n, t, current_term', acked')
    <2>1. ASSUME NEW v \in M PROVE current_term'[v] > t /\ <<v, t, n>> \notin acked'
      <3>1. v \in Server /\ u <= current_term'[v] /\ <<v, t, n>> \notin acked /\ current_term'[v] \in Nat
        BY <1>2, BothTypes
      <3>2. current_term'[v] > t /\ t # current_term'[v]
        BY SMT, <1>1, <3>1
      <3> QED BY <1>1, <3>1, <3>2 DEF AckStep
    <2> QED BY <1>2, <2>1 DEF Blocked
  <1>3. t \in DOMAIN h
    <2> SUFFICES ASSUME t \notin DOMAIN h PROVE FALSE
      OBVIOUS
    <2>1. PICK i \in Server : hh[t] = log[i]
      BY DEF ReignStep
    <2> QED BY <1>1, <2>1 DEF LogsLinked, Linked
  <1>4. h[t] \in Seq(Entry) /\ Len(h[t]) \in Nat
    BY <1>0, <1>3, SeqLength DEF IsHistory
  <1>5. CASE ~(n \in 1..Len(h[t]))
    <2>1. PICK w \in Server : \E Q \in SUBSET Server : ElectedBy(u, w, Q)'
      BY DEF TermsElected
    <2>2. PICK Q \in SUBSET Server : ElectedBy(u, w, Q)'
      BY <2>1
    <2>3. ~(n <= Len(h[t]))
      BY SMT, <1>1, <1>4, <1>5
    <2>4. ASSUME NEW v \in Q PROVE u <= current_term'[v] /\ <<v, t, n>> \notin acked
      BY <1>1, <2>2, <2>3 DEF ElectedBy, AckersHold
    <2> QED BY <1>2, <2>2, <2>4 DEF ElectedBy
  <1>6. CASE n \in 1..Len(h[t])
    <2>1. h[t][n] = hh[t][n]
      BY <1>0, <1>3, <1>6, GrownAt
    <2>2. Own(n, t, h)
      BY <1>1, <1>3, <1>6, <2>1 DEF Own
    <2>3. ASSUME NEW x \in Seq(Entry), Agree(x, h[t], n) PROVE Agree(x, hh[t], n)
      BY <1>0, <1>3, <2>3, GrownAgree
    <2>4. Blocked(n, t, current_term, acked) => Blocked(n, t, current_term', acked')
      BY <1>1, BlockedStays
    <2>5. CASE u \in DOMAIN h
      <3>1. Agree(h[u], h[t], n) \/ Blocked(n, t, current_term, acked)
        BY <1>3, <2>2, <2>5 DEF LaterLeadersHold
      <3>2. ASSUME Agree(h[u], h[t], n) PROVE Agree(hh[u], h[t], n)
        <4>1. h[u] \in Seq(Entry) /\ h[t] \in Seq(Entry) /\ Agree(h[t], h[u], n)
          BY <1>0, <1>3, <2>5, <3>2 DEF IsHistory, Agree
        <4>2. Agree(h[t], hh[u], n)
          BY <1>0, <2>5, <4>1, GrownAgree
        <4> QED BY <4>2 DEF Agree
      <3> QED BY <1>1, <2>3, <2>4, <3>1, <3>2
    <2>6. CASE u \notin DOMAIN h
      <3>1. PICK i \in Server : \E M \in SUBSET Server :
               /\ state[i] = Candidate /\ u = current_term[i] /\ hh[u] = log[i]
               /\ Majority(M) /\ \A v \in M : u \in VoteTerms(v, i)
        BY <2>6 DEF ReignStep
      <3>2. PICK M \in SUBSET Server : Majority(M) /\ \A v \in M : u \in VoteTerms(v, i)
        BY <3>1
      <3>3. CASE \E v \in M : <<v, t, n>> \in acked
        <4>1. PICK v \in M : <<v, t, n>> \in acked
          BY <3>3
        <4>2. Agree(log[i], h[t], n) \/ Blocked(n, t, current_term, acked)
          BY <1>1, <2>2, <3>1, <3>2, <4>1 DEF VotersHold
        <4> QED BY <1>1, <2>3, <2>4, <3>1, <4>2
      <3>4. CASE \A v \in M : <<v, t, n>> \notin acked
        <4>1. ASSUME NEW v \in M PROVE u <= current_term'[v]
          <5>1. v \in Server /\ u <= current_term[v] /\ current_term[v] <= current_term'[v]
                /\ current_term[v] \in Nat /\ current_term'[v] \in Nat
            BY <3>2, BothTypes DEF VotesHold, VoteStep
          <5> QED BY SMT, <1>1, <5>1
        <4> QED BY <1>2, <3>2, <3>4, <4>1
      <3> QED BY <3>3, <3>4
    <2> QED BY <2>5, <2>6
  <1> QED BY <1>5, <1>6

\* What a leader's log shows a follower of later terms is not lost there,
\* unless it cannot be committed.
LEMMA FollowedKeeps ==
    ASSUME TypeOK, TypeOK', VoteStep, LaterLeadersHold(leader_log, current_term, acked),
           NEW s \in Server, Followed(s, current_term'[s]),
           NEW n \in Nat, NEW t \in Nat, Own(n, t, leader_log), t <= current_term[s],
           NEW c \in 1..n, Agree(log[s], leader_log[t], c),
           (t = current_term[s] => \E k \in Nat : c <= k /\
                (<<s, t, k>> \in acked \/ k <= commit_idx[s]))
    PROVE  Agree(log'[s], log[s], c) \/ Blocked(n, t, current_term, acked)
  <1> DEFINE h == leader_log
             u == current_term'[s]
  <1>1. /\ u \in DOMAIN h /\ t \in DOMAIN h /\ h[u] \in Seq(Entry) /\ h[t] \in Seq(Entry)
        /\ log[s] \in Seq(Entry) /\ u \in Nat /\ n \in 1..Len(h[t]) /\ h[t][n].term = t
        /\ current_term[s] <= u /\ current_term[s] \in Nat /\ commit_idx[s] \in Nat
    BY BothTypes DEF Followed, Own, IsHistory, VoteStep
  <1>2. Agree(h[u], h[t], n) \/ Blocked(n, t, current_term, acked)
    <2>1. t < u \/ t = u
      BY SMT, <1>1
    <2>2. n <= Len(h[t])
      BY <1>1, EntryTerm
    <2> QED BY <1>1, <2>1, <2>2, AgreeRefl DEF LaterLeadersHold
  <1>3. ASSUME Agree(h[u], h[t], n) PROVE Agree(log'[s], log[s], c)
    <2>1. c \in Nat /\ c <= n /\ c > 0 /\ n \in 1..n
      BY SMT
    <2>2. c \in 1..Len(log[s])
      BY SMT, <1>1, <2>1, SeqLength DEF Agree
    <2>3. Agree(h[u], h[t], c)
      BY <1>1, <1>3, <2>1, AgreeLess
    <2>4. Agree(log[s], h[u], c)
      BY <2>3 DEF Agree
    <2>5. ASSUME NEW p \in Nat, p < c,
                 \A k \in 1..Len(h[u]) : k > p => h[u][k].term = u,
                 \A k \in Nat : <<s, u, k>> \in acked => k <= p,
                 u = current_term[s] => commit_idx[s] <= p
          PROVE  FALSE
      <3>1. n \in 1..Len(h[u]) /\ h[u][n] = h[t][n]
        BY ZenonT(30), <1>1, <1>3, <2>1, AgreeAt
      <3>2. n > p
        BY SMT, <2>1, <2>5
      <3>3. t = u
        BY <1>1, <2>5, <3>1, <3>2
      <3>4. t = current_term[s]
        BY SMT, <1>1, <3>3
      <3>5. PICK k \in Nat : c <= k /\ (<<s, t, k>> \in acked \/ k <= commit_idx[s])
        BY <3>4
      <3>6. k <= p \/ (commit_idx[s] <= p /\ k <= commit_idx[s])
        <4>1. CASE <<s, t, k>> \in acked
          BY <2>5, <3>3, <4>1
        <4>2. CASE k <= commit_idx[s]
          BY <2>5, <3>3, <3>4, <4>2
        <4> QED BY <3>5, <4>1, <4>2
      <3> QED BY SMT, <1>1, <2>1, <2>5, <3>5, <3>6
    <2>6. ~Beyond(s, u, c)
      BY <2>5 DEF Beyond
    <2> QED BY <2>2, <2>4, <2>6 DEF Followed
  <1> QED BY <1>2, <1>3

\* Servers keep what they acknowledged.
LEMMA AckersHoldStep ==
    ASSUME TypeOK, TypeOK', VoteStep, ReignStep, AckStep, LogStep, AckersHold,
           LaterLeadersHold(leader_log, current_term, acked)
    PROVE  AckersHold'
  <1> DEFINE h == leader_log
             hh == leader_log'
  <1>0. IsHistory(h) /\ IsHistory(hh) /\ Grown(h, hh)
    BY BothTypes DEF ReignStep
  <1> SUFFICES ASSUME NEW v \in Server, NEW t \in Nat, NEW n \in Nat, <<v, t, n>> \in acked'
               PROVE  /\ t \in DOMAIN hh /\ n <= Len(hh[t]) /\ t <= current_term'[v]
                      /\ t = current_term'[v] => Agree(log'[v], hh[t], n)
                      /\ Own(n, t, hh) =>
                            Agree(log'[v], hh[t], n) \/ Blocked(n, t, current_term', acked')
    BY DEF AckersHold
  <1>v. /\ log[v] \in Seq(Entry) /\ log'[v] \in Seq(Entry) /\ current_term[v] \in Nat
        /\ current_term'[v] \in Nat /\ current_term[v] <= current_term'[v]
        /\ Len(log[v]) \in Nat
    BY BothTypes DEF VoteStep
  <1>1. CASE <<v, t, n>> \notin acked
    <2>1. t = current_term'[v] /\ t \in DOMAIN hh /\ Agree(log'[v], hh[t], n)
      BY <1>1 DEF AckStep
    <2>2. t <= current_term'[v]
      BY SMT, <1>v, <2>1
    <2> QED BY <2>1, <2>2 DEF Agree
  <1>2. CASE <<v, t, n>> \in acked
    <2>1. /\ t \in DOMAIN h /\ n <= Len(h[t]) /\ t <= current_term[v]
          /\ t = current_term[v] => Agree(log[v], h[t], n)
          /\ Own(n, t, h) => Agree(log[v], h[t], n) \/ Blocked(n, t, current_term, acked)
      BY <1>2 DEF AckersHold
    <2>2. h[t] \in Seq(Entry) /\ hh[t] \in Seq(Entry) /\ t \in DOMAIN hh /\ Len(h[t]) \in Nat
      BY <1>0, <2>1, SeqLength DEF IsHistory, Grown
    <2>3. Agree(h[t], hh[t], n)
      <3>1. Agree(h[t], h[t], n)
        BY <2>1, AgreeRefl
      <3> QED BY <1>0, <2>1, <2>2, <3>1, GrownAgree
    <2>4. n <= Len(hh[t]) /\ t <= current_term'[v]
      <3>1. n <= Len(hh[t])
        BY <2>3 DEF Agree
      <3>2. t <= current_term'[v]
        BY SMT, <1>v, <2>1
      <3> QED BY <3>1, <3>2
    <2>5. ASSUME Agree(log[v], h[t], n), Own(n, t, h) \/ t = current_term'[v]
          PROVE  \/ Agree(log'[v], hh[t], n)
                 \/ Blocked(n, t, current_term, acked) /\ t # current_term'[v]
      <3>1. ASSUME Agree(log'[v], log[v], n) PROVE Agree(log'[v], hh[t], n)
        BY <2>3, <2>5, <3>1 DEF Agree
      <3>2. CASE log'[v] = log[v]
        BY <2>3, <2>5, <3>2 DEF Agree
      <3>3. CASE Agree(log'[v], log[v], Len(log[v]))
        <4>1. n <= Len(log[v])
          BY <2>5 DEF Agree
        <4> QED BY <1>v, <3>1, <3>3, <4>1, AgreeLess
      <3>4. CASE Followed(v, current_term'[v])
        <4>1. n = 0 \/ n \in 1..n
          BY SMT
        <4>2. CASE n = 0
          BY SMT, <1>v, <2>2, <4>2, AgreeIs, SeqLength
        <4>3. CASE t = current_term'[v] /\ n \in 1..n
          <5>1. n \in 1..Len(log[v])
            BY SMT, <1>v, <2>5, <4>3 DEF Agree
          <5>2. ~Beyond(v, t, n)
            <6> SUFFICES ASSUME NEW p \in Nat, p < n, \A k \in Nat : <<v, t, k>> \in acked => k <= p
                         PROVE  FALSE
              BY DEF Beyond
            <6>1. n <= p
              BY <1>2
            <6> QED BY SMT, <6>1
          <5>3. Agree(log'[v], log[v], n)
            BY <2>5, <3>4, <4>3, <5>1, <5>2 DEF Followed
          <5> QED BY <3>1, <5>3
        <4>4. CASE t # current_term'[v] /\ n \in 1..n
          <5>1. Own(n, t, h)
            BY <2>5, <4>4
          <5>2. n <= n
            BY SMT
          <5>3. Agree(log'[v], log[v], n) \/ Blocked(n, t, current_term, acked)
            BY <1>2, <2>1, <2>5, <3>4, <4>4, <5>1, <5>2, FollowedKeeps
          <5> QED BY <3>1, <4>4, <5>3
        <4> QED BY <4>1, <4>2, <4>3, <4>4
      <3> QED BY <3>2, <3>3, <3>4 DEF LogStep
    <2>6. ASSUME t = current_term'[v] PROVE Agree(log'[v], hh[t], n)
      <3>1. t = current_term[v]
        BY SMT, <1>v, <2>1, <2>6
      <3> QED BY <2>1, <2>5, <2>6, <3>1
    <2>7. ASSUME Own(n, t, hh)
          PROVE  Agree(log'[v], hh[t], n) \/ Blocked(n, t, current_term', acked')
      <3>1. n \in 1..Len(hh[t]) /\ hh[t][n].term = t
        BY <2>7 DEF Own
      <3>2. n \in 1..Len(h[t])
        BY SMT, <2>1, <2>2, <3>1, SeqLength
      <3>3. hh[t][n] = h[t][n]
        BY <1>0, <2>1, <3>2, GrownAt
      <3>4. Own(n, t, h)
        BY <2>1, <3>1, <3>2, <3>3 DEF Own
      <3>5. Agree(log'[v], hh[t], n) \/ Blocked(n, t, current_term, acked)
        BY <2>1, <2>5, <3>4
      <3> QED BY <3>5, BlockedStays
    <2> QED BY <2>2, <2>4, <2>6, <2>7
  <1> QED BY <1>1, <1>2

\* A log at least as up to date as one that holds an entry holds it too,
\* unless it cannot be committed: why __should_grant_vote compares logs.
LEMMA UpToDateHolds ==
    ASSUME NEW h, NEW c, NEW a, IsHistory(h), LeaderLogs(h), LaterLeadersHold(h, c, a),
           NEW x \in Seq(Entry), NEW y \in Seq(Entry), Linked(x, h), Linked(y, h),
           NEW n \in Nat, NEW t \in Nat, Own(n, t, h), Agree(x, h[t], n), UpToDate(x, y)
    PROVE  Agree(y, h[t], n) \/ Blocked(n, t, c, a)
  <1>1. t \in DOMAIN h /\ h[t] \in Seq(Entry) /\ n \in 1..Len(h[t]) /\ h[t][n].term = t
    BY DEF Own, IsHistory
  <1>2. /\ Len(x) \in Nat /\ Len(y) \in Nat /\ n \in 1..n /\ n > 0 /\ n \in 1..Len(x)
        /\ Len(x) \in 1..Len(x) /\ n \in 1..Len(x) /\ Len(x) > 0 /\ n <= Len(x)
    <2>1. n <= Len(x) /\ Len(x) \in Nat /\ Len(y) \in Nat /\ Len(h[t]) \in Nat
      BY <1>1, SeqLength DEF Agree
    <2> QED BY SMT, <1>1, <2>1
  <1>3. x[n].term = t
    BY ZenonT(30), <1>1, <1>2, AgreeAt
  <1> DEFINE u == x[Len(x)].term
             w == y[Len(y)].term
  <1>4. t <= u /\ u \in Nat
    <2>1. n \in 1..Len(x) /\ Len(x) \in 1..Len(x)
      BY <1>2
    <2>2. x[n].term <= x[Len(x)].term
      BY <2>1, LinkedAscends
    <2> QED BY <1>2, <1>3, <2>2, EntryTerm
  <1>5. Len(y) \in 1..Len(y) /\ w \in Nat /\ (u < w \/ (u = w /\ Len(x) <= Len(y)))
    <2>1. TermAt(x, Len(x)) = u
      BY <1>2 DEF TermAt
    <2>2. u < TermAt(y, Len(y)) \/ (u = TermAt(y, Len(y)) /\ Len(x) <= Len(y))
      <3>1. Len(x) # 0
        BY SMT, <1>2
      <3> QED BY <2>1, <3>1 DEF UpToDate
    <2>3. Len(y) # 0
      <3> SUFFICES ASSUME Len(y) = 0 PROVE FALSE
        OBVIOUS
      <3>1. Len(y) \notin 1..Len(y)
        BY SMT, <1>2
      <3>2. TermAt(y, Len(y)) = 0
        BY <3>1 DEF TermAt
      <3> QED BY SMT, <1>2, <1>4, <2>2, <3>2
    <2>4. Len(y) \in 1..Len(y)
      BY SMT, <1>2, <2>3
    <2>5. TermAt(y, Len(y)) = w
      BY <2>4 DEF TermAt
    <2> QED BY <2>2, <2>4, <2>5, EntryTerm
  <1>6. w \in DOMAIN h /\ Agree(y, h[w], Len(y)) /\ h[w] \in Seq(Entry)
    BY <1>5 DEF Linked, IsHistory
  <1>7. CASE w = t
    <2>1. n <= Len(y)
      BY SMT, <1>2, <1>4, <1>5, <1>7
    <2> QED BY <1>1, <1>2, <1>6, <1>7, <2>1, AgreeLess
  <1>8. CASE t < w
    <2>1. Agree(h[w], h[t], n) \/ Blocked(n, t, c, a)
      BY <1>1, <1>6, <1>8 DEF LaterLeadersHold
    <2>2. ASSUME Agree(h[w], h[t], n) PROVE Agree(y, h[t], n)
      <3>0. n \in Nat /\ n \in 1..n
        BY <1>2
      <3>1. h[w][n] = h[t][n] /\ n \in 1..Len(h[w])
        BY <1>1, <1>6, <2>2, <3>0, AgreeAt
      <3>2. h[w][Len(y)] = y[Len(y)]
        BY ZenonT(30), <1>2, <1>5, <1>6, AgreeAt
      <3>3. n <= Len(y)
        <4> SUFFICES ASSUME ~(n <= Len(y)) PROVE FALSE
          OBVIOUS
        <4>1. Len(y) \in 1..n
          BY SMT, <1>2, <1>5
        <4>2. h[w][Len(y)].term <= h[w][n].term
          BY <1>6, <3>1, <4>1 DEF LeaderLogs, Ascending
        <4>3. w <= t
          BY <1>1, <3>1, <3>2, <4>2
        <4> QED BY SMT, <1>5, <1>8, <4>3
      <3>4. Agree(y, h[w], n)
        BY <1>2, <1>6, <3>3, AgreeLess
      <3> QED BY <2>2, <3>4 DEF Agree
    <2> QED BY <2>1, <2>2
  <1>9. w = t \/ t < w
    BY SMT, <1>4, <1>5
  <1> QED BY <1>7, <1>8, <1>9

\* Candidates go on having what their voters acknowledged.
LEMMA VotersHoldStep ==
    ASSUME TypeOK, TypeOK', VotesHold', VoteStep, StateStep, ReignStep, AckStep, BallotStep,
           LeaderLogs(leader_log), LogsLinked, AckersHold, AckersHold', VotersHold, VotesAreAsked,
           LaterLeadersHold(leader_log, current_term, acked)
    PROVE  VotersHold'
  <1> DEFINE h == leader_log
             hh == leader_log'
  <1>0. IsHistory(h) /\ IsHistory(hh) /\ Grown(h, hh)
    BY BothTypes DEF ReignStep
  <1> SUFFICES ASSUME NEW v \in Server, NEW i \in Server, NEW t \in Nat, NEW n \in Nat,
                      state'[i] = Candidate, current_term'[i] \in VoteTerms(v, i)',
                      <<v, t, n>> \in acked', t < current_term'[i], Own(n, t, hh)
               PROVE  Agree(log'[i], hh[t], n) \/ Blocked(n, t, current_term', acked')
    BY DEF VotersHold
  <1>1. CASE v = i
    BY <1>1 DEF AckersHold
  <1>2. CASE v # i
    <2> DEFINE T == current_term'[i]
    <2>1. /\ log'[i] = log[i] /\ log[i] \in Seq(Entry) /\ log[v] \in Seq(Entry)
          /\ T \in Nat /\ current_term[i] \in Nat /\ current_term[i] <= T
          /\ current_term'[v] \in Nat /\ T <= current_term'[v]
      BY BothTypes DEF StateStep, VoteStep, VotesHold
    <2>2. <<v, t, n>> \in acked
      <3>1. t # current_term'[v]
        BY SMT, <2>1
      <3> QED BY <3>1 DEF AckStep
    <2>3. t \in DOMAIN h /\ n <= Len(h[t]) /\ h[t] \in Seq(Entry) /\ Len(h[t]) \in Nat
      BY <1>0, <2>2, SeqLength DEF AckersHold, IsHistory
    <2>4. Own(n, t, h)
      <3>1. n \in 1..Len(hh[t]) /\ hh[t][n].term = t /\ hh[t] \in Seq(Entry)
        BY <1>0 DEF Own, IsHistory
      <3>2. n \in 1..Len(h[t])
        BY SMT, <2>3, <3>1, SeqLength
      <3>3. hh[t][n] = h[t][n]
        BY <1>0, <2>3, <3>2, GrownAt
      <3> QED BY <2>3, <3>1, <3>2, <3>3 DEF Own
    <2>5. ASSUME Agree(log[i], h[t], n) \/ Blocked(n, t, current_term, acked)
          PROVE  Agree(log'[i], hh[t], n) \/ Blocked(n, t, current_term', acked')
      <3>1. Agree(log[i], h[t], n) => Agree(log[i], hh[t], n)
        BY <1>0, <2>1, <2>3, GrownAgree
      <3> QED BY <2>1, <2>5, <3>1, BlockedStays
    <2>6. T <= current_term[i]
      <3>1. CASE T \in VoteTerms(v, i)
        BY <3>1 DEF VotesAreAsked
      <3>2. CASE T \notin VoteTerms(v, i)
        BY <1>2, <3>2 DEF BallotStep
      <3> QED BY <3>1, <3>2
    <2>7. T = current_term[i] /\ t < current_term[i]
      BY SMT, <2>1, <2>6
    <2>8. state[i] = Candidate
      BY <2>7 DEF StateStep
    <2>9. CASE T \in VoteTerms(v, i)
      BY <2>2, <2>4, <2>5, <2>7, <2>8, <2>9 DEF VotersHold
    <2>10. CASE T \notin VoteTerms(v, i)
      <3>1. UpToDate(log[v], log[i])
        BY <1>2, <2>7, <2>8, <2>10 DEF BallotStep
      <3>2. Agree(log[v], h[t], n) \/ Blocked(n, t, current_term, acked)
        BY <2>2, <2>4 DEF AckersHold
      <3>3. Linked(log[v], h) /\ Linked(log[i], h)
        BY DEF LogsLinked
      <3>4. ASSUME Agree(log[v], h[t], n)
            PROVE  Agree(log[i], h[t], n) \/ Blocked(n, t, current_term, acked)
        BY <1>0, <2>1, <2>4, <3>1, <3>3, <3>4, UpToDateHolds
      <3> QED BY <2>5, <3>2, <3>4
    <2> QED BY <2>9, <2>10
  <1> QED BY <1>1, <1>2

\* A vote's term is a number.
LEMMA VoteTermsType ==
    ASSUME ServerTypes, NEW v \in Server, NEW i \in Server
    PROVE  VoteTerms(v, i) \subseteq Nat
  <1>1. chan[v][i] \in Seq(Message) /\ current_term[i] \in Nat
    BY DEF ServerTypes
  <1>2. \A n \in 1..Len(chan[v][i]) : chan[v][i][n] \in Message
    BY <1>1, SeqElement
  <1>3. \A m \in Message : m.type = "RVR" => m.term \in Nat
    BY DEF Message
  <1> QED BY <1>1, <1>2, <1>3 DEF VoteTerms

\* A vote stays for a term that its candidate has reached.
LEMMA VotesAreAskedStep ==
    ASSUME TypeOK, TypeOK', VoteStep, BallotStep, VotesAreAsked
    PROVE  VotesAreAsked'
  <1> SUFFICES ASSUME NEW v \in Server, NEW i \in Server, NEW t, t \in VoteTerms(v, i)'
               PROVE  t <= current_term'[i]
    BY DEF VotesAreAsked
  <1>1. /\ current_term[i] \in Nat /\ current_term'[i] \in Nat
        /\ current_term[i] <= current_term'[i]
    BY BothTypes DEF VoteStep
  <1>2. CASE t \in VoteTerms(v, i)
    <2>1. t \in Nat /\ t <= current_term[i]
      BY <1>2, VoteTermsType DEF VotesAreAsked, TypeOK
    <2> QED BY SMT, <1>1, <2>1
  <1>3. CASE t \notin VoteTerms(v, i)
    <2>1. CASE v = i
      <3>1. t = current_term'[i]
        BY <1>3, <2>1 DEF VoteStep
      <3> QED BY SMT, <1>1, <3>1
    <2>2. CASE v # i
      BY <1>3, <2>2 DEF BallotStep
    <2> QED BY <2>1, <2>2
  <1> QED BY <1>2, <1>3

\* No step changes what a server has committed.
LEMMA CommittedStays ==
    ASSUME Quorums, TypeOK, TypeOK', VoteStep, LogStep, CommitsSettled,
           LaterLeadersHold(leader_log, current_term, acked), NEW s \in Server
    PROVE  Agree(log'[s], log[s], commit_idx[s])
  <1> DEFINE h == leader_log
             c == commit_idx[s]
  <1>0. IsHistory(h) /\ c \in Nat /\ log[s] \in Seq(Entry) /\ log'[s] \in Seq(Entry)
        /\ Len(log[s]) \in Nat /\ Len(log'[s]) \in Nat
    BY BothTypes
  <1>1. CASE c = 0
    BY SMT, <1>0, <1>1, AgreeIs
  <1>2. CASE c > 0
    <2>1. PICK u \in DOMAIN h : \E n \in Nat :
             u <= current_term[s] /\ c <= n /\ Chosen(n, u, h, acked) /\ Agree(log[s], h[u], c)
      BY <1>2 DEF CommitsSettled, IsSettled
    <2>2. PICK n \in Nat :
             u <= current_term[s] /\ c <= n /\ Chosen(n, u, h, acked) /\ Agree(log[s], h[u], c)
      BY <2>1
    <2>3. u \in Nat /\ Own(n, u, h) /\ c <= Len(log[s])
      BY <1>0, <2>2 DEF IsHistory, Chosen, Agree
    <2>4. CASE log'[s] = log[s]
      BY <2>3, <2>4, AgreeRefl
    <2>5. CASE Agree(log'[s], log[s], Len(log[s]))
      BY <1>0, <2>3, <2>5, AgreeLess
    <2>6. CASE Followed(s, current_term'[s])
      <3>1. c \in 1..n /\ c <= c
        BY SMT, <1>0, <1>2, <2>2
      <3>2. u = current_term[s] => \E k \in Nat : c <= k /\
               (<<s, u, k>> \in acked \/ k <= commit_idx[s])
        BY <1>0, <3>1
      <3>3. Agree(log'[s], log[s], c) \/ Blocked(n, u, current_term, acked)
        BY <2>2, <2>3, <2>6, <3>1, <3>2, FollowedKeeps
      <3> QED BY <2>2, <3>3, ChosenIsNotBlocked
    <2> QED BY <2>4, <2>5, <2>6 DEF LogStep
  <1> QED BY SMT, <1>0, <1>1, <1>2

\* What is committed stays settled.
LEMMA CommitsSettledStep ==
    ASSUME Quorums, TypeOK, TypeOK', VoteStep, ReignStep, AckStep, LogStep, CommitStep, CommitsSettled,
           LaterLeadersHold(leader_log, current_term, acked)
    PROVE  CommitsSettled'
  <1> DEFINE h == leader_log
             hh == leader_log'
  <1>0. IsHistory(h) /\ IsHistory(hh) /\ Grown(h, hh) /\ acked \subseteq acked'
    BY BothTypes DEF ReignStep, AckStep
  <1> SUFFICES ASSUME NEW s \in Server, commit_idx'[s] > 0
               PROVE  IsSettled(log[s], commit_idx[s], current_term[s])'
    BY DEF CommitsSettled
  <1>1. CASE commit_idx'[s] = commit_idx[s]
    <2> DEFINE c == commit_idx[s]
    <2>1. PICK u \in DOMAIN h : \E n \in Nat :
             u <= current_term[s] /\ c <= n /\ Chosen(n, u, h, acked) /\ Agree(log[s], h[u], c)
      BY <1>1 DEF CommitsSettled, IsSettled
    <2>2. PICK n \in Nat :
             u <= current_term[s] /\ c <= n /\ Chosen(n, u, h, acked) /\ Agree(log[s], h[u], c)
      BY <2>1
    <2>3. /\ u \in Nat /\ c \in Nat /\ log'[s] \in Seq(Entry) /\ current_term[s] \in Nat
          /\ current_term'[s] \in Nat /\ current_term[s] <= current_term'[s]
      BY BothTypes DEF IsHistory, VoteStep
    <2>4. Agree(log'[s], h[u], c)
      BY <2>2, CommittedStays DEF Agree
    <2>5. u \in DOMAIN hh /\ Agree(log'[s], hh[u], c)
      BY <1>0, <2>3, <2>4, GrownAgree DEF Grown
    <2>6. Chosen(n, u, hh, acked')
      BY <1>0, <2>2, GrownSettled
    <2>7. u <= current_term'[s]
      BY SMT, <2>2, <2>3
    <2> QED BY <1>1, <2>2, <2>5, <2>6, <2>7 DEF IsSettled
  <1>2. CASE commit_idx'[s] # commit_idx[s]
    BY <1>2 DEF CommitStep
  <1> QED BY <1>1, <1>2

\* What an AppendEntries shows stays true of the history.
LEMMA GrownDescribes ==
    ASSUME Quorums, NEW h, NEW hh, NEW a, NEW aa, IsHistory(h), IsHistory(hh), Grown(h, hh),
           a \subseteq aa, NEW m, m.type = "AE", m \in Message, Describes(m, h, a)
    PROVE  Describes(m, hh, aa)
  <1> DEFINE t == m.term
             p == m.prev_log_idx
  <1>1. p \in Nat /\ t \in DOMAIN h /\ t \in DOMAIN hh
        /\ h[t] \in Seq(Entry) /\ hh[t] \in Seq(Entry)
    <2>1. p \in Nat
      BY DEF Message
    <2> QED BY <2>1 DEF Describes, IsHistory, Grown
  <1>2. Len(h[t]) \in Nat /\ Len(hh[t]) \in Nat
    BY <1>1, SeqLength
  <1>3. Len(h[t]) <= Len(hh[t]) /\ \A n \in 1..Len(h[t]) : n \in 1..Len(hh[t]) /\ hh[t][n] = h[t][n]
    <2>1. Agree(hh[t], h[t], Len(h[t]))
      BY <1>1 DEF Grown
    <2>2. Len(h[t]) <= Len(hh[t])
      BY <2>1 DEF Agree
    <2>3. ASSUME NEW n \in 1..Len(h[t]) PROVE n \in 1..Len(hh[t]) /\ hh[t][n] = h[t][n]
      BY SMT, <1>1, GrownAt
    <2> QED BY <2>2, <2>3
  <1>4. p <= Len(h[t]) /\ p <= Len(hh[t])
    <2>1. p <= Len(h[t])
      BY DEF Describes
    <2> QED BY SMT, <1>1, <1>2, <1>3, <2>1
  <1>5. TermAt(hh[t], p) = m.prev_log_term
    <2>1. TermAt(h[t], p) = m.prev_log_term
      BY DEF Describes
    <2>2. CASE p = 0
      <3>1. p \notin 1..Len(h[t]) /\ p \notin 1..Len(hh[t])
        BY SMT, <1>2, <2>2
      <3> QED BY <2>1, <3>1 DEF TermAt
    <2>3. CASE p # 0
      <3>1. p \in 1..Len(h[t])
        BY SMT, <1>1, <1>2, <1>4, <2>3
      <3> QED BY <1>3, <2>1, <3>1 DEF TermAt
    <2> QED BY <2>2, <2>3
  <1>6. ASSUME \A k \in 1..Len(h[t]) : k > p => h[t][k].term = t, NEW k \in 1..Len(hh[t]), k > p
        PROVE  hh[t][k].term = t
    <2>1. k \in 1..Len(h[t]) \/ k > Len(h[t])
      BY SMT, <1>2
    <2>2. CASE k \in 1..Len(h[t])
      BY <1>3, <1>6, <2>2
    <2>3. CASE k > Len(h[t])
      BY <1>1, <2>3 DEF Grown
    <2> QED BY <2>1, <2>2, <2>3
  <1>7. ASSUME p + 1 <= Len(h[t]) PROVE p + 1 <= Len(hh[t]) /\ h[t][p + 1] = hh[t][p + 1]
    <2>1. p + 1 <= Len(hh[t]) /\ p + 1 \in 1..Len(h[t])
      BY SMT, <1>1, <1>2, <1>3, <1>7
    <2>2. PICK q \in 1..Len(h[t]) : q = p + 1
      BY <2>1
    <2>3. hh[t][q] = h[t][q]
      BY <1>3
    <2> QED BY <2>1, <2>2, <2>3
  <1>8. \/ /\ m.entries = <<>> /\ m.leader_commit <= p
           /\ \A k \in 1..Len(hh[t]) : k > p => hh[t][k].term = t
        \/ /\ Len(m.entries) = 1 /\ p + 1 <= Len(hh[t])
           /\ m.entries[1] = hh[t][p + 1]
    <2>1. CASE /\ m.entries = <<>> /\ m.leader_commit <= p
               /\ \A k \in 1..Len(h[t]) : k > p => h[t][k].term = t
      BY <1>6, <2>1
    <2>2. CASE /\ Len(m.entries) = 1 /\ p + 1 <= Len(h[t])
               /\ m.entries[1] = h[t][p + 1]
      BY <1>7, <2>2
    <2> QED BY <2>1, <2>2 DEF Describes
  <1>9. m.leader_commit > 0 => Settled(m.leader_commit, t, hh, aa)
    BY GrownSettled DEF Describes
  <1> QED BY <1>1, <1>4, <1>5, <1>8, <1>9 DEF Describes

\* What an AppendEntries shows is within its leader's log.
LEMMA DescribesWithin ==
    ASSUME Quorums, NEW h, NEW a, NEW c, IsHistory(h), LaterLeadersHold(h, c, a),
           NEW m \in Message, m.type = "AE", Describes(m, h, a)
    PROVE  /\ m.prev_log_idx + Len(m.entries) <= Len(h[m.term])
           /\ m.leader_commit <= Len(h[m.term])
  <1>1. /\ m.prev_log_idx \in Nat /\ m.leader_commit \in Nat
        /\ m.term \in DOMAIN h /\ h[m.term] \in Seq(Entry) /\ Len(h[m.term]) \in Nat
    <2>1. m.prev_log_idx \in Nat /\ m.leader_commit \in Nat
      BY DEF Message
    <2> QED BY <2>1, SeqLength DEF Describes, IsHistory
  <1>2. m.prev_log_idx + Len(m.entries) <= Len(h[m.term])
    <2>1. Len(<<>>) = 0
      OBVIOUS
    <2>2. \/ m.prev_log_idx <= Len(h[m.term]) /\ Len(m.entries) = 0
          \/ m.prev_log_idx + 1 <= Len(h[m.term]) /\ Len(m.entries) = 1
      BY <2>1 DEF Describes
    <2>3. \A p, l \in Nat : (p <= l => p + 0 <= l) /\ (p + 1 <= l => p + 1 <= l)
      BY SMT
    <2> QED BY <1>1, <2>2, <2>3
  <1>3. CASE m.leader_commit > 0
    <2>1. PICK u \in DOMAIN h : \E n \in Nat :
             u <= m.term /\ m.leader_commit <= n /\ Chosen(n, u, h, a)
      BY <1>3 DEF Describes, Settled
    <2>2. PICK n \in Nat : u <= m.term /\ m.leader_commit <= n /\ Chosen(n, u, h, a)
      BY <2>1
    <2>3. Agree(h[m.term], h[u], n)
      BY <1>1, <2>2, ChosenIsHeld
    <2>4. n <= Len(h[m.term])
      BY <2>3 DEF Agree
    <2> QED BY SMT, <1>1, <1>2, <2>2, <2>4
  <1>4. CASE ~(m.leader_commit > 0)
    BY SMT, <1>1, <1>2, <1>4
  <1> QED BY <1>2, <1>3, <1>4

\* What is queued is a packet, and was queued before or is new.
LEMMA QueuedPackets ==
    ASSUME TypeOK, TypeOK', PacketStep, NEW a \in Server, NEW b \in Server
    PROVE  /\ \A m : Has(chan[a][b], m) => m \in Message
           /\ \A m : Has(chan'[a][b], m) =>
                 m \in Message /\ (Has(chan[a][b], m) \/ NewPacket(a, b, m))
  <1>1. chan[a][b] \in Seq(Message) /\ chan'[a][b] \in Seq(Message)
    BY DEF TypeOK, ServerTypes
  <1>2. ASSUME NEW q \in Seq(Message), NEW n \in 1..Len(q) PROVE q[n] \in Message
    BY SeqElement
  <1>3. ASSUME NEW n \in 1..Len(chan'[a][b])
        PROVE  Has(chan[a][b], chan'[a][b][n]) \/ NewPacket(a, b, chan'[a][b][n])
    BY DEF PacketStep, QueueMoves, Has
  <1> QED BY <1>1, <1>2, <1>3 DEF Has

\* What leaders send shows their log.
LEMMA NewAppendEntries ==
    ASSUME TypeOK, TypeOK', LeadersRecorded', CommitsSettled',
           NEW j \in Server, state'[j] = Leader,
           NEW k \in 1..(Len(log'[j]) + 1), NEW m, m = AppendEntriesFor(j, k)
    PROVE  /\ Describes(m, leader_log', acked') /\ m.term = current_term'[j]
           /\ m.entries = <<>> => m.prev_log_idx = Len(leader_log'[m.term])
  <1> DEFINE hh == leader_log'
             lg == log'[j]
             T == current_term'[j]
  <1>1. T \in DOMAIN hh /\ lg = hh[T]
    BY DEF LeadersRecorded
  <1>2. lg \in Seq(Entry) /\ Len(lg) \in Nat /\ commit_idx'[j] \in Nat
    BY BothTypes
  <1>3. /\ m.term = T /\ m.prev_log_idx = k - 1 /\ m.prev_log_term = TermAt(lg, k - 1)
        /\ m.entries = IF k > Len(lg) THEN <<>> ELSE <<lg[k]>>
        /\ m.leader_commit = commit_idx'[j]
    BY DEF AppendEntriesFor
  <1>4. k \in Nat /\ k - 1 \in Nat /\ k - 1 + 1 = k /\ k - 1 <= Len(lg)
        /\ (k > Len(lg) => k - 1 = Len(lg)) /\ (~(k > Len(lg)) => k <= Len(lg))
    BY SMT, <1>2
  <1>5. PICK p \in Nat : p = k - 1
    BY <1>4
  <1>6. commit_idx'[j] > 0 => commit_idx'[j] <= Len(lg) /\ Settled(commit_idx'[j], T, hh, acked')
    BY DEF CommitsSettled, IsSettled, Settled, Agree
  <1>7. commit_idx'[j] <= Len(lg)
    <2>1. commit_idx'[j] > 0 => commit_idx'[j] <= Len(lg)
      BY <1>6
    <2> QED BY SMT, <1>2, <2>1
  <1>8. CASE k > Len(lg)
    <2>1. m.entries = <<>> /\ p = Len(lg)
      BY <1>3, <1>4, <1>5, <1>8
    <2>2. \A n \in 1..Len(lg) : ~(n > Len(lg))
      BY SMT, <1>2
    <2> QED BY <1>1, <1>3, <1>4, <1>5, <1>6, <1>7, <2>1, <2>2 DEF Describes
  <1>9. CASE ~(k > Len(lg))
    <2>1. m.entries = <<lg[k]>> /\ k <= Len(lg) /\ p + 1 = k
      BY <1>3, <1>4, <1>5, <1>9
    <2>2. Len(<<lg[k]>>) = 1 /\ <<lg[k]>>[1] = lg[k] /\ <<lg[k]>> # <<>>
      OBVIOUS
    <2> QED BY <1>1, <1>3, <1>4, <1>5, <1>6, <2>1, <2>2 DEF Describes
  <1> QED BY <1>8, <1>9

\* Packets stay true.
LEMMA PacketsAreTrueStep ==
    ASSUME Quorums, TypeOK, TypeOK', VoteStep, StateStep, ReignStep, AckStep, PacketStep,
           LeadersRecorded', CommitsSettled', PacketsAreTrue
    PROVE  PacketsAreTrue'
  <1>0. /\ IsHistory(leader_log) /\ IsHistory(leader_log') /\ Grown(leader_log, leader_log')
        /\ acked \subseteq acked'
    BY BothTypes DEF ReignStep, AckStep
  <1> SUFFICES ASSUME NEW i \in Server, NEW j \in Server, NEW m, Has(chan'[j][i], m)
               PROVE  /\ m.type = "AE" => Describes(m, leader_log', acked')
                      /\ m.type = "RV" => AsksFor(m, j)'
                      /\ m.type = "AER" /\ m.success => <<j, m.term, m.current_idx>> \in acked'
    BY DEF PacketsAreTrue
  <1>1. m \in Message /\ (Has(chan[j][i], m) \/ NewPacket(j, i, m))
    BY QueuedPackets
  <1>2. ASSUME m.type = "AE" PROVE Describes(m, leader_log', acked')
    <2>1. CASE Has(chan[j][i], m)
      <3>1. Describes(m, leader_log, acked)
        BY <1>2, <2>1 DEF PacketsAreTrue
      <3> QED BY <1>0, <1>1, <1>2, <3>1, GrownDescribes
    <2>2. CASE NewPacket(j, i, m)
      <3>1. state'[j] = Leader /\ \E k \in 1..(Len(log'[j]) + 1) : m = AppendEntriesFor(j, k)
        BY <1>2, <2>2 DEF NewPacket
      <3>2. PICK k \in 1..(Len(log'[j]) + 1) : m = AppendEntriesFor(j, k)
        BY <3>1
      <3> QED BY <3>1, <3>2, NewAppendEntries
    <2> QED BY <1>1, <2>1, <2>2
  <1>3. ASSUME m.type = "RV" PROVE AsksFor(m, j)'
    <2>0. /\ current_term[j] \in Nat /\ current_term'[j] \in Nat /\ m.term \in Nat
          /\ current_term[j] <= current_term'[j]
      <3>1. m.term \in Nat
        BY <1>1 DEF Message
      <3> QED BY <3>1, BothTypes DEF VoteStep
    <2>1. CASE Has(chan[j][i], m)
      <3>1. AsksFor(m, j)
        BY <1>3, <2>1 DEF PacketsAreTrue
      <3>2. m.term <= current_term[j]
        BY <3>1 DEF AsksFor
      <3>3. m.term <= current_term'[j] /\ (m.term = current_term'[j] => current_term'[j] = current_term[j])
        BY SMT, <2>0, <3>2
      <3>4. ASSUME m.term = current_term'[j], state'[j] = Candidate
            PROVE  m.last_log_idx = Len(log'[j]) /\ m.last_log_term = TermAt(log'[j], Len(log'[j]))
        <4>1. log'[j] = log[j] /\ state[j] = Candidate /\ m.term = current_term[j]
          BY <3>3, <3>4 DEF StateStep
        <4> QED BY <3>1, <4>1 DEF AsksFor
      <3> QED BY <3>3, <3>4 DEF AsksFor
    <2>2. CASE NewPacket(j, i, m)
      <3>1. /\ m.term = current_term'[j] /\ m.last_log_idx = Len(log'[j])
            /\ m.last_log_term = TermAt(log'[j], Len(log'[j]))
        BY <1>3, <2>2 DEF NewPacket
      <3>2. m.term <= current_term'[j]
        BY SMT, <2>0, <3>1
      <3> QED BY <3>1, <3>2 DEF AsksFor
    <2> QED BY <1>1, <2>1, <2>2
  <1>4. ASSUME m.type = "AER", m.success PROVE <<j, m.term, m.current_idx>> \in acked'
    <2>1. CASE Has(chan[j][i], m)
      BY <1>0, <1>4, <2>1 DEF PacketsAreTrue
    <2>2. CASE NewPacket(j, i, m)
      BY <1>4, <2>2 DEF NewPacket
    <2> QED BY <1>1, <2>1, <2>2
  <1> QED BY <1>2, <1>3, <1>4

\* A term goes on having one sender.
LEMMA OneSenderStep ==
    ASSUME TypeOK, TypeOK', ElectionSafety', StateStep, PacketStep, PacketsAreTrue, OneSender
    PROVE  OneSender'
  <1>1. ASSUME NEW a \in Server, NEW b \in Server, NEW m, Has(chan'[a][b], m), m.type = "AE",
               ~Has(chan[a][b], m)
        PROVE  a # b /\ state'[a] = Leader /\ m.term = current_term'[a]
    <2>1. NewPacket(a, b, m)
      BY <1>1, QueuedPackets
    <2>2. a # b /\ state'[a] = Leader /\ \E k \in 1..(Len(log'[a]) + 1) : m = AppendEntriesFor(a, k)
      BY <1>1, <2>1 DEF NewPacket
    <2>3. PICK k \in 1..(Len(log'[a]) + 1) : m = AppendEntriesFor(a, k)
      BY <2>2
    <2>4. m.term = current_term'[a]
      BY <2>3 DEF AppendEntriesFor
    <2> QED BY <2>2, <2>4
  <1>2. ASSUME NEW i \in Server, NEW j \in Server, NEW m, Has(chan'[j][i], m), m.type = "AE",
               NEW k \in Server, state'[k] = Leader, current_term'[k] = m.term
        PROVE  k = j
    <2>1. CASE ~Has(chan[j][i], m)
      <3>1. state'[j] = Leader /\ m.term = current_term'[j]
        BY <1>1, <1>2, <2>1
      <3> QED BY <1>2, <3>1 DEF ElectionSafety
    <2>2. CASE Has(chan[j][i], m)
      <3>1. m.term \in DOMAIN leader_log
        BY <1>2, <2>2 DEF PacketsAreTrue, Describes
      <3>2. state[k] = Leader /\ current_term[k] = m.term
        BY <1>2, <3>1 DEF StateStep
      <3> QED BY <1>2, <2>2, <3>2 DEF OneSender
    <2> QED BY <2>1, <2>2
  <1> SUFFICES ASSUME NEW i \in Server, NEW j \in Server, NEW m, Has(chan'[j][i], m), m.type = "AE"
               PROVE  /\ j # i
                      /\ \A k \in Server : state'[k] = Leader /\ current_term'[k] = m.term => k = j
                      /\ \A k, l \in Server : \A x :
                            Has(chan'[k][l], x) /\ x.type = "AE" /\ x.term = m.term => k = j
    BY DEF OneSender
  <1>3. j # i
    BY <1>1 DEF OneSender
  <1>4. ASSUME NEW k \in Server, NEW l \in Server, NEW x,
               Has(chan'[k][l], x), x.type = "AE", x.term = m.term
        PROVE  k = j
    <2>1. CASE ~Has(chan[j][i], m)
      <3>1. state'[j] = Leader /\ x.term = current_term'[j]
        BY <1>1, <1>4, <2>1
      <3> QED BY <1>2, <1>4, <3>1
    <2>2. CASE ~Has(chan[k][l], x)
      <3>1. state'[k] = Leader /\ m.term = current_term'[k]
        BY <1>1, <1>4, <2>2
      <3> QED BY <1>2, <3>1
    <2>3. CASE Has(chan[j][i], m) /\ Has(chan[k][l], x)
      BY ZenonT(30), <1>4, <2>3 DEF OneSender
    <2> QED BY <2>1, <2>2, <2>3
  <1> QED BY <1>2, <1>3, <1>4

\* An empty AppendEntries that is sent shows the end of the leader's log.
LEMMA NewEmpty ==
    ASSUME TypeOK, TypeOK', LeadersRecorded', CommitsSettled',
           NEW j \in Server, NEW i \in Server, NEW m, NewPacket(j, i, m),
           m.type = "AE", m.entries = <<>>
    PROVE  m.prev_log_idx = Len(leader_log'[m.term])
  <1>1. state'[j] = Leader /\ \E k \in 1..(Len(log'[j]) + 1) : m = AppendEntriesFor(j, k)
    BY DEF NewPacket
  <1>2. PICK k \in 1..(Len(log'[j]) + 1) : m = AppendEntriesFor(j, k)
    BY <1>1
  <1> QED BY <1>1, <1>2, NewAppendEntries

\* What a server committed in an earlier term, or may commit in this one, is
\* no longer than what the empty AppendEntries of the term shows.
LEMMA SettledIsShown ==
    ASSUME Quorums, NEW h, NEW a, NEW c, IsHistory(h), LaterLeadersHold(h, c, a),
           NEW m \in Message, m.type = "AE", m.entries = <<>>, Describes(m, h, a),
           NEW u \in DOMAIN h, NEW n \in Nat, Chosen(n, u, h, a), NEW k \in Nat, k <= n,
           u < m.term \/ (u <= m.term /\ m.prev_log_idx = Len(h[m.term]))
    PROVE  k <= m.prev_log_idx
  <1>1. /\ m.prev_log_idx \in Nat /\ m.term \in DOMAIN h /\ h[m.term] \in Seq(Entry)
        /\ Len(h[m.term]) \in Nat /\ u \in Nat /\ m.term \in Nat /\ h[u] \in Seq(Entry)
    <2>1. m.prev_log_idx \in Nat
      BY DEF Message
    <2> QED BY <2>1, SeqLength DEF Describes, IsHistory
  <1>2. u <= m.term
    <2>1. u < m.term \/ u <= m.term
      OBVIOUS
    <2> QED BY SMT, <1>1, <2>1
  <1>3. Agree(h[m.term], h[u], n)
    BY <1>1, <1>2, ChosenIsHeld
  <1>4. CASE m.prev_log_idx = Len(h[m.term])
    <2>1. n <= Len(h[m.term])
      BY <1>3 DEF Agree
    <2> QED BY SMT, <1>1, <1>4, <2>1
  <1>5. CASE u < m.term
    <2>1. n \in 1..n /\ h[u][n].term = u
      <3>1. n \in 1..Len(h[u]) /\ h[u][n].term = u
        BY DEF Chosen, Own
      <3>2. n > 0
        BY <1>1, <3>1, EntryTerm
      <3>3. n \in 1..n
        BY SMT, <3>2
      <3> QED BY <3>1, <3>3
    <2>2. h[m.term][n].term = u /\ n \in 1..Len(h[m.term])
      BY ZenonT(30), <1>1, <1>3, <2>1, AgreeAt
    <2>3. u # m.term
      BY SMT, <1>1, <1>5
    <2>4. Len(m.entries) # 1
      <3>1. Len(<<>>) = 0 /\ 0 # 1
        BY SMT
      <3> QED BY <3>1
    <2>5. ~(n > m.prev_log_idx)
      BY <2>2, <2>3, <2>4 DEF Describes
    <2> QED BY SMT, <1>1, <2>5
  <1> QED BY <1>4, <1>5

\* Queues stay in order, and servers behind them.
LEMMA EmptiesLastStep ==
    ASSUME Quorums, TypeOK, TypeOK', VoteStep, ReignStep, AckStep, IngestStep, PacketStep,
           LeadersRecorded', CommitsSettled, CommitsSettled', AckersHold',
           LaterLeadersHold(leader_log, current_term, acked),
           LaterLeadersHold(leader_log', current_term', acked'),
           PacketsAreTrue, PacketsAreTrue', OneSender, OneSender', EmptiesLast
    PROVE  EmptiesLast'
  <1> DEFINE h == leader_log
             hh == leader_log'
  <1>0. IsHistory(h) /\ IsHistory(hh)
    BY BothTypes
  <1> SUFFICES ASSUME NEW i \in Server, NEW j \in Server
               PROVE  /\ InOrder(chan'[j][i])
                      /\ \A m : Has(chan'[j][i], m) /\ m.type = "AE" /\ m.entries = <<>> =>
                            /\ \A n \in Nat : <<i, m.term, n>> \in acked' => n <= m.prev_log_idx
                            /\ m.term = current_term'[i] => commit_idx'[i] <= m.prev_log_idx
    BY DEF EmptiesLast
  <1> DEFINE q == chan[j][i]
             qq == chan'[j][i]
  <1>1. InOrder(q) /\ Len(q) \in Nat /\ Len(qq) \in Nat
    <2>1. chan[j][i] \in Seq(Message) /\ chan'[j][i] \in Seq(Message)
      BY DEF TypeOK, ServerTypes
    <2>2. InOrder(q)
      BY DEF EmptiesLast
    <2> QED BY <2>1, <2>2, SeqLength
  <1>2. InOrder(qq)
    <2> SUFFICES ASSUME NEW n \in 1..Len(qq), NEW k \in 1..Len(qq), k < n,
                        qq[k].type = "AE", qq[n].type = "AE", qq[k].term = qq[n].term,
                        qq[n].entries = <<>>
                 PROVE  /\ qq[k].prev_log_idx + Len(qq[k].entries) <= qq[n].prev_log_idx
                        /\ qq[k].leader_commit <= qq[n].prev_log_idx
      BY DEF InOrder
    <2>1. PICK d \in {0, 1} : QueueMoves(j, i, d)
      BY DEF PacketStep
    <2>2. CASE NewPacket(j, i, qq[n])
      <3>1. qq[n].prev_log_idx = Len(hh[qq[n].term])
        BY <2>2, NewEmpty
      <3>2. qq[k] \in Message /\ Describes(qq[k], hh, acked')
        BY QueuedPackets DEF PacketsAreTrue, Has
      <3> QED BY <1>0, <3>1, <3>2, DescribesWithin
    <2>3. CASE \E x \in 1..Len(q) : x = n + d /\ qq[n] = q[x]
      <3>1. PICK x \in 1..Len(q) : x = n + d /\ qq[n] = q[x]
        BY <2>3
      <3>2. ~(k + d > Len(q))
        BY SMT, <1>1, <3>1
      <3>3. PICK y \in 1..Len(q) : y = k + d /\ qq[k] = q[y]
        BY <2>1, <3>2 DEF QueueMoves
      <3>4. y < x
        BY SMT, <1>1, <3>1, <3>3
      <3> QED BY <1>1, <3>1, <3>3, <3>4 DEF InOrder
    <2> QED BY <2>1, <2>2, <2>3 DEF QueueMoves
  <1>3. ASSUME NEW m, Has(qq, m), m.type = "AE", m.entries = <<>>
        PROVE  /\ \A n \in Nat : <<i, m.term, n>> \in acked' => n <= m.prev_log_idx
               /\ m.term = current_term'[i] => commit_idx'[i] <= m.prev_log_idx
    <2>1. /\ m \in Message /\ m.prev_log_idx \in Nat /\ m.term \in Nat
          /\ Describes(m, hh, acked') /\ m.term \in DOMAIN hh
          /\ commit_idx[i] \in Nat /\ commit_idx'[i] \in Nat
          /\ current_term[i] \in Nat /\ current_term'[i] \in Nat
          /\ current_term[i] <= current_term'[i]
      <3>1. m \in Message /\ Describes(m, hh, acked')
        BY <1>3, QueuedPackets DEF PacketsAreTrue
      <3>2. m.prev_log_idx \in Nat /\ m.term \in Nat
        BY <1>3, <3>1 DEF Message
      <3> QED BY <3>1, <3>2, BothTypes DEF VoteStep, Describes
    <2>2. CASE NewPacket(j, i, m)
      <3>1. m.prev_log_idx = Len(hh[m.term])
        BY <1>3, <2>2, NewEmpty
      <3>2. ASSUME m.term = current_term'[i] PROVE commit_idx'[i] <= m.prev_log_idx
        <4>1. CASE commit_idx'[i] > 0
          <5>1. PICK u \in DOMAIN hh : \E n \in Nat :
                   u <= m.term /\ commit_idx'[i] <= n /\ Chosen(n, u, hh, acked')
            BY <3>2, <4>1 DEF CommitsSettled, IsSettled
          <5>2. PICK n \in Nat : u <= m.term /\ commit_idx'[i] <= n /\ Chosen(n, u, hh, acked')
            BY <5>1
          <5> QED BY <1>0, <1>3, <2>1, <3>1, <5>2, SettledIsShown
        <4>2. CASE ~(commit_idx'[i] > 0)
          BY SMT, <2>1, <4>2
        <4> QED BY <4>1, <4>2
      <3> QED BY <2>1, <3>1, <3>2 DEF AckersHold
    <2>3. CASE Has(q, m) /\ ~NewPacket(j, i, m)
      <3>1. /\ \A n \in Nat : <<i, m.term, n>> \in acked => n <= m.prev_log_idx
            /\ m.term = current_term[i] => commit_idx[i] <= m.prev_log_idx
            /\ Describes(m, h, acked)
        BY <1>3, <2>3 DEF EmptiesLast, PacketsAreTrue
      <3>2. ASSUME m.term = current_term'[i] PROVE commit_idx[i] <= m.prev_log_idx
        <4>1. CASE m.term = current_term[i]
          BY <3>1, <4>1
        <4>2. CASE m.term # current_term[i]
          <5>1. CASE commit_idx[i] > 0
            <6>1. PICK u \in DOMAIN h : \E n \in Nat :
                     u <= current_term[i] /\ commit_idx[i] <= n /\ Chosen(n, u, h, acked)
              BY <5>1 DEF CommitsSettled, IsSettled
            <6>2. PICK n \in Nat :
                     u <= current_term[i] /\ commit_idx[i] <= n /\ Chosen(n, u, h, acked)
              BY <6>1
            <6>3. u \in Nat
              BY <1>0 DEF IsHistory
            <6>4. u < m.term
              BY SMT, <2>1, <3>2, <4>2, <6>2, <6>3
            <6> QED BY <1>0, <1>3, <2>1, <3>1, <6>2, <6>4, SettledIsShown
          <5>2. CASE ~(commit_idx[i] > 0)
            BY SMT, <2>1, <5>2
          <5> QED BY <5>1, <5>2
        <4> QED BY <4>1, <4>2
      <3>3. CASE /\ commit_idx'[i] = commit_idx[i]
                 /\ \A t, n \in Nat : <<i, t, n>> \in acked' => <<i, t, n>> \in acked
        BY <2>1, <3>1, <3>2, <3>3
      <3>4. CASE m.term # current_term'[i]
        <4>1. ASSUME NEW n \in Nat, <<i, m.term, n>> \in acked' PROVE n <= m.prev_log_idx
          <5>1. <<i, m.term, n>> \in acked \/ m.term = current_term'[i]
            BY <2>1, <4>1 DEF AckStep
          <5> QED BY <3>1, <3>4, <5>1
        <4> QED BY <3>4, <4>1
      <3>5. CASE state'[i] = Leader
        <4>1. m.term # current_term'[i]
          <5>1. /\ j # i
                /\ \A k \in Server : state'[k] = Leader /\ current_term'[k] = m.term => k = j
            BY <1>3 DEF OneSender
          <5> QED BY <3>5, <5>1
        <4> QED BY <3>4, <4>1
      <3>6. ASSUME m.term = current_term'[i],
                   NEW k \in Server, NEW x, NEW first \in 1..Len(chan[k][i]),
                   first = 1, x = chan[k][i][first], QueueMoves(k, i, 1),
                   x.type = "AE", x.term = current_term'[i],
                   commit_idx'[i] = commit_idx[i] \/ commit_idx'[i] <= x.leader_commit,
                   \A t, n \in Nat : <<i, t, n>> \in acked' =>
                       <<i, t, n>> \in acked \/ n <= x.prev_log_idx + Len(x.entries)
            PROVE  /\ \A n \in Nat : <<i, m.term, n>> \in acked' => n <= m.prev_log_idx
                   /\ commit_idx'[i] <= m.prev_log_idx
        <4>1. Has(chan[k][i], x)
          BY <3>6 DEF Has
        <4>2. k = j
          <5>1. \A e, l \in Server : \A z :
                   Has(chan[e][l], z) /\ z.type = "AE" /\ z.term = m.term => e = j
            BY ZenonT(30), <1>3, <2>3 DEF OneSender
          <5> QED BY <3>6, <4>1, <5>1, ZenonT(40)
        <4>3. PICK n \in 1..Len(qq) : qq[n] = m
          BY <1>3 DEF Has
        <4>4. PICK y \in 1..Len(q) : y = n + 1 /\ qq[n] = q[y]
          BY <2>3, <3>6, <4>2, <4>3 DEF QueueMoves
        <4>5. first < y
          BY <1>1, <3>6, <4>3, <4>4, SecondIsLater
        <4>6. x.prev_log_idx + Len(x.entries) <= m.prev_log_idx /\ x.leader_commit <= m.prev_log_idx
          BY <1>1, <1>3, <3>6, <4>2, <4>3, <4>4, <4>5 DEF InOrder
        <4>7. x \in Message
          BY <4>1, QueuedPackets
        <4>8. x.prev_log_idx \in Nat /\ x.leader_commit \in Nat /\ x.entries \in Seq(Entry)
          BY <3>6, <4>7 DEF Message
        <4>9. Len(x.entries) \in Nat
          BY <4>8, SeqLength
        <4>10. \A a, b, c, e \in Nat : a + b <= c /\ e <= a + b => e <= c
          BY SMT
        <4>11. ASSUME NEW e \in Nat, <<i, m.term, e>> \in acked' PROVE e <= m.prev_log_idx
          <5>1. <<i, m.term, e>> \in acked \/ e <= x.prev_log_idx + Len(x.entries)
            BY <2>1, <3>6, <4>11
          <5> QED BY <2>1, <3>1, <4>6, <4>8, <4>9, <4>10, <5>1
        <4>12. commit_idx'[i] <= m.prev_log_idx
          <5>1. \A a, b, c \in Nat : a <= b /\ b <= c => a <= c
            BY SMT
          <5> QED BY <2>1, <3>2, <3>6, <4>6, <4>8, <5>1
        <4> QED BY <4>11, <4>12
      <3> QED BY <3>3, <3>4, <3>5, <3>6 DEF IngestStep
    <2> QED BY <1>3, <2>2, <2>3, QueuedPackets
  <1> QED BY <1>2, <1>3

\* The argument as a whole.
LEMMA ProgressKeepsSafe ==
    ASSUME Quorums, TypeOK, TypeOK', VotesHold, VotesHold', ElectionSafety', VoteStep, Safe, Progress
    PROVE  Safe'
  <1> USE DEF Safe, Progress
  <1>1. TermsElected'
    BY TermsElectedStep
  <1>2. LeaderLogs(leader_log')
    BY LeaderLogsStep
  <1>3. LogsLinked'
    BY <1>2, LogsLinkedStep
  <1>4. LaterLeadersHold(leader_log', current_term', acked')
    BY <1>1, LaterLeadersStep
  <1>5. AckersHold'
    BY AckersHoldStep
  <1>6. VotersHold'
    BY <1>5, VotersHoldStep
  <1>7. VotesAreAsked'
    BY VotesAreAskedStep
  <1>8. CommitsSettled'
    BY CommitsSettledStep
  <1>9. PacketsAreTrue'
    BY <1>8, PacketsAreTrueStep
  <1>10. OneSender'
    BY OneSenderStep
  <1>11. EmptiesLast'
    BY <1>4, <1>5, <1>8, <1>9, <1>10, EmptiesLastStep
  <1> QED BY <1>1, <1>2, <1>3, <1>4, <1>5, <1>6, <1>7, <1>8, <1>9, <1>10, <1>11

-----------------------------------------------------------------------------
(* Queues.                                                                 *)

\* A queue no one touches, one whose head is taken, one with a packet sent.
LEMMA QueueStays ==
    ASSUME NEW a, NEW b, chan[a][b] \in Seq(Message), chan'[a][b] = chan[a][b]
    PROVE  QueueMoves(a, b, 0)
  <1> SUFFICES ASSUME NEW n \in 1..Len(chan'[a][b])
               PROVE  \E k \in 1..Len(chan[a][b]) : k = n + 0 /\ chan'[a][b][n] = chan[a][b][k]
    BY DEF QueueMoves
  <1>1. n = n + 0
    BY SMT, SeqLength
  <1> QED BY <1>1

\* Taking the first packet moves the queue by one.
LEMMA QueueIsTaken ==
    ASSUME NEW a, NEW b, chan[a][b] \in Seq(Message), chan[a][b] # <<>>,
           chan'[a][b] = Tail(chan[a][b])
    PROVE  QueueMoves(a, b, 1)
  <1> DEFINE q == chan[a][b]
  <1> SUFFICES ASSUME NEW n \in 1..Len(Tail(q))
               PROVE  \E k \in 1..Len(q) : k = n + 1 /\ Tail(q)[n] = q[k]
    BY DEF QueueMoves
  <1>1. /\ Len(q) = Len(Tail(q)) + 1 /\ Len(Tail(q)) \in Nat
        /\ \A k \in 1..Len(Tail(q)) : Tail(q)[k] = q[k + 1]
    BY SeqTail, SeqLength
  <1>2. n + 1 \in 1..Len(q) /\ Tail(q)[n] = q[n + 1]
    BY SMT, <1>1
  <1> QED BY <1>2

\* Sending puts the new packet behind the others, or drops it.
LEMMA QueueIsSent ==
    ASSUME NEW a, NEW b, chan[a][b] \in Seq(Message), NEW m, NewPacket(a, b, m),
           chan'[a][b] = Send(chan[a][b], m)
    PROVE  QueueMoves(a, b, 0)
  <1> DEFINE q == chan[a][b]
  <1>1. CASE chan'[a][b] = q
    BY <1>1, QueueStays
  <1>2. CASE chan'[a][b] = Append(q, m)
    <2> SUFFICES ASSUME NEW n \in 1..Len(Append(q, m))
                 PROVE  \/ \E k \in 1..Len(q) : k = n + 0 /\ Append(q, m)[n] = q[k]
                        \/ n + 0 > Len(q) /\ NewPacket(a, b, Append(q, m)[n])
      BY <1>2 DEF QueueMoves
    <2>1. /\ Len(q) \in Nat /\ Len(Append(q, m)) = Len(q) + 1
          /\ \A k \in 1..Len(q) : Append(q, m)[k] = q[k]
          /\ Append(q, m)[Len(q) + 1] = m
      BY SMT, SeqLength
    <2>2. n = n + 0 /\ (n \in 1..Len(q) \/ (n = Len(q) + 1 /\ n > Len(q)))
      BY SMT, <2>1
    <2>3. CASE n \in 1..Len(q)
      BY <2>1, <2>2, <2>3
    <2>4. CASE n = Len(q) + 1 /\ n > Len(q)
      <3>1. Append(q, m)[n] = m
        BY <2>1, <2>4
      <3> QED BY <2>2, <2>4, <3>1
    <2> QED BY <2>2, <2>3, <2>4
  <1> QED BY <1>1, <1>2 DEF Send

\* raft_send_appendentries from a leader to another server.
LEMMA QueueGetsEntries ==
    ASSUME NEW a \in Server, NEW b \in Server, a # b, chan[a][b] \in Seq(Message),
           log'[a] \in Seq(Entry), state'[a] = Leader,
           NEW next \in 1..(Len(log'[a]) + 1),
           chan'[a][b] = WithAppendEntries(a, next, chan[a][b])
    PROVE  /\ QueueMoves(a, b, 0)
           /\ Burst(a, next, chan[a][b]) \in Nat
           /\ next + Burst(a, next, chan[a][b]) <= Len(log'[a]) + 1
  <1> DEFINE q == chan[a][b]
             len == Len(log'[a])
             B == Burst(a, next, q)
  <1>0. len \in Nat /\ Len(q) \in Nat /\ next \in Nat /\ next <= len + 1 /\ next > 0
    <2>1. len \in Nat /\ Len(q) \in Nat
      BY SeqLength
    <2> QED BY SMT, <2>1
  <1>1. ASSUME NEW k \in 1..(len + 1) PROVE NewPacket(a, b, AppendEntriesFor(a, k))
    <2>1. AppendEntriesFor(a, k).type = "AE"
      BY DEF AppendEntriesFor
    <2> QED BY <2>1 DEF NewPacket
  <1>2. CASE next > len
    <2>1. WithAppendEntries(a, next, q) = Send(q, AppendEntriesFor(a, next)) /\ B = 0
      BY <1>2 DEF WithAppendEntries, Burst
    <2>2. QueueMoves(a, b, 0)
      BY <1>1, <2>1, QueueIsSent
    <2>3. 0 \in Nat /\ next + 0 <= len + 1
      BY SMT, <1>0
    <2> QED BY <2>1, <2>2, <2>3
  <1>3. CASE ~(next > len)
    <2>1. Room(q) \in Nat /\ PKT_BURST \in Nat
      <3>1. QueueSize \in Nat /\ PKT_BURST \in Nat
        BY BoundAssumption
      <3>2. \A z, l \in Nat : Larger(0, z - l) \in Nat
        BY SMT DEF Larger
      <3> QED BY <1>0, <3>1, <3>2 DEF Room
    <2>2. B = Smaller(len - next + 1, Smaller(PKT_BURST, Room(q)))
      BY <1>3 DEF Burst
    <2>3. B \in Nat /\ next + B <= len + 1
      <3>1. \A r, p \in Nat : LET s == Smaller(len - next + 1, Smaller(p, r))
                              IN  s \in Nat /\ next + s <= len + 1
        BY SMT, <1>0, <1>3 DEF Smaller
      <3> QED BY <2>1, <2>2, <3>1
    <2> DEFINE out == [k \in 1..B |-> AppendEntriesFor(a, next + k - 1)]
    <2>4. WithAppendEntries(a, next, q) = q \o out
      BY <1>3 DEF WithAppendEntries
    <2> HIDE DEF B
    <2>5. \A k \in 1..B : NewPacket(a, b, out[k])
      <3> SUFFICES ASSUME NEW k \in 1..B PROVE NewPacket(a, b, out[k])
        OBVIOUS
      <3>1. next + k - 1 \in 1..(len + 1)
        BY SMT, <1>0, <2>3
      <3>2. PICK x \in 1..(len + 1) : x = next + k - 1
        BY <3>1
      <3>3. out[k] = AppendEntriesFor(a, x)
        BY <3>2
      <3> QED BY <1>1, <3>3
    <2>6. /\ Len(q \o out) = Len(q) + B
          /\ \A k \in 1..(Len(q) + B) :
                (q \o out)[k] = IF k <= Len(q) THEN q[k] ELSE out[k - Len(q)]
      <3> DEFINE S == {AppendEntriesFor(a, next + k - 1) : k \in 1..B} \cup Message
      <3>0. \A k \in 1..B : AppendEntriesFor(a, next + k - 1) \in S
        OBVIOUS
      <3> HIDE DEF S
      <3>1. out \in [1..B -> S]
        BY <3>0
      <3> HIDE DEF out
      <3>2. out \in Seq(S) /\ Len(out) = B
        BY SMT, <2>3, <3>1
      <3>3. q \in Seq(S)
        <4>1. \A k \in 1..Len(q) : q[k] \in S
          <5>1. \A k \in 1..Len(q) : q[k] \in Message
            BY SeqElement
          <5> QED BY <5>1 DEF S
        <4> HIDE DEF q
        <4>2. q \in Seq(Message)
          BY DEF q
        <4> QED BY SMT, <1>0, <4>1, <4>2
      <3> HIDE DEF q
      <3> QED BY <3>2, <3>3, SeqConcat
    <2> HIDE DEF out
    <2>7. ASSUME NEW n \in 1..(Len(q) + B)
          PROVE  \/ \E k \in 1..Len(q) : k = n + 0 /\ (q \o out)[n] = q[k]
                 \/ n + 0 > Len(q) /\ NewPacket(a, b, (q \o out)[n])
      <3>1. n = n + 0 /\ n \in Nat
        BY SMT, <1>0, <2>3
      <3>2. CASE n <= Len(q)
        <4>1. n \in 1..Len(q)
          BY SMT, <1>0, <2>3, <3>2
        <4> QED BY <2>6, <3>1, <3>2, <4>1
      <3>3. CASE ~(n <= Len(q))
        <4>1. n > Len(q) /\ n - Len(q) \in 1..B
          BY SMT, <1>0, <2>3, <3>3
        <4>2. (q \o out)[n] = out[n - Len(q)]
          BY <2>6, <3>3
        <4>3. PICK x \in 1..B : x = n - Len(q)
          BY <4>1
        <4>4. (q \o out)[n] = out[x]
          BY <4>2, <4>3
        <4> QED BY <2>5, <3>1, <4>1, <4>4
      <3> QED BY <3>2, <3>3
    <2>8. QueueMoves(a, b, 0)
      BY <2>4, <2>6, <2>7 DEF QueueMoves
    <2> QED BY <2>3, <2>8 DEF B
  <1> QED BY <1>2, <1>3

\* The queues after a packet is taken.
LEMMA TakenQueues ==
    ASSUME TypeOK, NEW i \in Server, NEW j \in Server
    PROVE  /\ Taken(i, j)[j][i] = Tail(chan[j][i])
           /\ \A a, b \in Server : a # j \/ b # i => Taken(i, j)[a][b] = chan[a][b]
           /\ \A a, b \in Server : chan[a][b] \in Seq(Message)
           /\ DOMAIN Taken(i, j) = Server /\ \A a \in Server : DOMAIN Taken(i, j)[a] = Server
  <1>1. chan \in [Server -> [Server -> Seq(Message)]]
    BY DEF TypeOK, ServerTypes
  <1>2. Taken(i, j) = [chan EXCEPT ![j] = [chan[j] EXCEPT ![i] = Tail(chan[j][i])]]
    BY <1>1 DEF Taken
  <1> DEFINE net == Taken(i, j)
             row == [chan[j] EXCEPT ![i] = Tail(chan[j][i])]
  <1> HIDE DEF net
  <1>3. net[j] = row /\ (\A a \in Server : a # j => net[a] = chan[a]) /\ DOMAIN net = Server
    BY <1>1, <1>2 DEF net
  <1>4. row[i] = Tail(chan[j][i]) /\ (\A b \in Server : b # i => row[b] = chan[j][b])
        /\ DOMAIN row = Server
    BY <1>1
  <1>5. \A a \in Server : DOMAIN net[a] = Server
    BY <1>1, <1>3, <1>4
  <1>6. \A a, b \in Server : a # j \/ b # i => net[a][b] = chan[a][b]
    BY <1>3, <1>4
  <1> QED BY ZenonT(30), <1>1, <1>3, <1>4, <1>5, <1>6 DEF net

\* A handler that only takes its packet moves the queues.
LEMMA TakenMoves ==
    ASSUME TypeOK, NEW i \in Server, NEW j \in Server, chan[j][i] # <<>>, chan' = Taken(i, j)
    PROVE  PacketStep
  <1> SUFFICES ASSUME NEW a \in Server, NEW b \in Server
               PROVE  QueueMoves(a, b, 0) \/ QueueMoves(a, b, 1)
    BY DEF PacketStep
  <1>1. chan[a][b] \in Seq(Message)
    BY TakenQueues
  <1>2. CASE a = j /\ b = i
    BY <1>1, <1>2, TakenQueues, QueueIsTaken
  <1>3. CASE a # j \/ b # i
    <2>1. \A x, y \in Server : x # j \/ y # i => Taken(i, j)[x][y] = chan[x][y]
      BY TakenQueues
    <2>2. chan'[a][b] = chan[a][b]
      BY <1>3, <2>1
    <2> QED BY <1>1, <2>2, QueueStays
  <1> QED BY <1>2, <1>3

\* Queues left alone are as before.
LEMMA SameQueues ==
    ASSUME TypeOK, chan' = chan
    PROVE  PacketStep
  <1> SUFFICES ASSUME NEW a \in Server, NEW b \in Server PROVE QueueMoves(a, b, 0)
    BY DEF PacketStep
  <1>1. chan[a][b] \in Seq(Message)
    BY DEF TypeOK, ServerTypes
  <1> QED BY <1>1, QueueStays

\* A packet is taken and answered.
LEMMA AnswerMoves ==
    ASSUME TypeOK, NEW i \in Server, NEW j \in Server, i # j, chan[j][i] # <<>>,
           NEW m, NewPacket(i, j, m), chan' = [Taken(i, j) EXCEPT ![i][j] = Send(@, m)]
    PROVE  PacketStep /\ QueueMoves(j, i, 1)
  <1>1. \A a, b \in Server : chan[a][b] \in Seq(Message)
    BY TakenQueues
  <1> DEFINE net == Taken(i, j)
  <1>2. net[j][i] = Tail(chan[j][i]) /\ DOMAIN net = Server /\ \A a \in Server : DOMAIN net[a] = Server
    BY TakenQueues
  <1>3. \A a, b \in Server : a # j \/ b # i => net[a][b] = chan[a][b]
    BY TakenQueues
  <1> HIDE DEF net
  <1>4. chan' = [net EXCEPT ![i] = [net[i] EXCEPT ![j] = Send(net[i][j], m)]]
    BY <1>2 DEF net
  <1> DEFINE row == [net[i] EXCEPT ![j] = Send(net[i][j], m)]
  <1>5. row[j] = Send(net[i][j], m) /\ \A b \in Server : b # j => row[b] = net[i][b]
    BY <1>2
  <1>6. chan'[i] = row /\ \A a \in Server : a # i => chan'[a] = net[a]
    BY <1>2, <1>4
  <1>7. chan'[i][j] = Send(chan[i][j], m)
    BY <1>3, <1>5, <1>6
  <1>8. chan'[j][i] = Tail(chan[j][i])
    BY <1>2, <1>6
  <1>9. ASSUME NEW a \in Server, NEW b \in Server, a # j \/ b # i, a # i \/ b # j
        PROVE  chan'[a][b] = chan[a][b]
    <2>1. net[a][b] = chan[a][b]
      BY <1>3, <1>9
    <2>2. CASE a = i
      <3>1. row[b] = net[i][b]
        BY <1>5, <1>9, <2>2
      <3> QED BY <1>6, <2>1, <2>2, <3>1
    <2>3. CASE a # i
      BY <1>6, <2>1, <2>3
    <2> QED BY <2>2, <2>3
  <1>10. QueueMoves(j, i, 1)
    BY <1>1, <1>8, QueueIsTaken
  <1>11. QueueMoves(i, j, 0)
    BY <1>1, <1>7, QueueIsSent
  <1>12. ASSUME NEW a \in Server, NEW b \in Server
         PROVE  QueueMoves(a, b, 0) \/ QueueMoves(a, b, 1)
    BY <1>1, <1>9, <1>10, <1>11, QueueStays
  <1>13. PacketStep
    BY <1>12 DEF PacketStep
  <1> QED BY <1>10, <1>13

\* A leader sends to the nodes of K, from the queues net.
LEMMA SendMoves ==
    ASSUME TypeOK, TypeOK', NEW i \in Server, NEW K \in SUBSET Peers(i), NEW net, NEW next,
           net = chan \/ \E j \in Peers(i) : chan[j][i] # <<>> /\ net = Taken(i, j),
           state'[i] = Leader, \A k \in K : next[k] \in 1..(Len(log'[i]) + 1),
           raft_send_appendentries(i, K, next, net)
    PROVE  /\ PacketStep
           /\ \A k \in Peers(i) : next[k] <= Len(log'[i]) + 1 => next_idx'[i][k] <= Len(log'[i]) + 1
           /\ \A s \in Server : s # i => next_idx'[s] = next_idx[s]
  <1>1. \A a, b \in Server : chan[a][b] \in Seq(Message)
    BY TakenQueues
  <1>2. DOMAIN net = Server /\ \A k \in Server : net[i][k] = chan[i][k]
    <2>1. CASE net = chan
      BY <2>1 DEF TypeOK, ServerTypes
    <2>2. ASSUME NEW j \in Peers(i), net = Taken(i, j)
          PROVE  DOMAIN net = Server /\ \A k \in Server : net[i][k] = chan[i][k]
      <3>1. j \in Server /\ i # j
        BY DEF Peers
      <3>2. /\ DOMAIN Taken(i, j) = Server
            /\ \A x, y \in Server : x # j \/ y # i => Taken(i, j)[x][y] = chan[x][y]
        BY <3>1, TakenQueues
      <3> QED BY <2>2, <3>1, <3>2
    <2> QED BY <2>1, <2>2
  <1>3. ASSUME NEW a \in Server, NEW b \in Server
        PROVE  net[a][b] = chan[a][b] \/ (chan[a][b] # <<>> /\ net[a][b] = Tail(chan[a][b]))
    <2>1. CASE net = chan
      BY <2>1
    <2>2. ASSUME NEW j \in Peers(i), net = Taken(i, j), chan[j][i] # <<>>
          PROVE  net[a][b] = chan[a][b] \/ (chan[a][b] # <<>> /\ net[a][b] = Tail(chan[a][b]))
      <3>1. j \in Server
        BY DEF Peers
      <3>2. /\ Taken(i, j)[j][i] = Tail(chan[j][i])
            /\ \A x, y \in Server : x # j \/ y # i => Taken(i, j)[x][y] = chan[x][y]
        BY <3>1, TakenQueues
      <3>3. CASE a = j /\ b = i
        BY <2>2, <3>2, <3>3
      <3>4. CASE a # j \/ b # i
        BY <2>2, <3>2, <3>4
      <3> QED BY <3>3, <3>4
    <2> QED BY <2>1, <2>2
  <1> DEFINE row == [k \in Server |-> IF k \in K
                                      THEN WithAppendEntries(i, next[k], net[i][k])
                                      ELSE net[i][k]]
             nrow == [k \in Server |-> IF k \in K
                                       THEN next[k] + Burst(i, next[k], net[i][k])
                                       ELSE next[k]]
  <1>4. chan' = [net EXCEPT ![i] = row] /\ next_idx' = [next_idx EXCEPT ![i] = nrow]
    BY DEF raft_send_appendentries
  <1>5. chan'[i] = row /\ \A a \in Server : a # i => chan'[a] = net[a]
    BY <1>2, <1>4
  <1>6. next_idx'[i] = nrow /\ \A a \in Server : a # i => next_idx'[a] = next_idx[a]
    BY <1>4 DEF TypeOK, ServerTypes
  <1>7. ASSUME NEW k \in K
        PROVE  /\ k \in Server /\ k # i /\ chan'[i][k] = WithAppendEntries(i, next[k], chan[i][k])
               /\ nrow[k] = next[k] + Burst(i, next[k], chan[i][k])
    <2>1. k \in Server /\ k # i
      BY DEF Peers
    <2> QED BY <1>2, <1>5, <2>1
  <1>8. ASSUME NEW k \in K
        PROVE  QueueMoves(i, k, 0) /\ nrow[k] <= Len(log'[i]) + 1
    <2>1. log'[i] \in Seq(Entry)
      BY DEF TypeOK, ServerTypes
    <2>2. next[k] \in 1..(Len(log'[i]) + 1)
      OBVIOUS
    <2>3. PICK n \in 1..(Len(log'[i]) + 1) : n = next[k]
      BY <2>2
    <2>4. chan'[i][k] = WithAppendEntries(i, n, chan[i][k]) /\ k \in Server /\ i # k
      BY <1>7, <2>3
    <2>5. QueueMoves(i, k, 0) /\ n + Burst(i, n, chan[i][k]) <= Len(log'[i]) + 1
      BY <1>1, <2>1, <2>4, QueueGetsEntries
    <2> QED BY <1>7, <2>3, <2>5
  <1>9. ASSUME NEW a \in Server, NEW b \in Server
        PROVE  QueueMoves(a, b, 0) \/ QueueMoves(a, b, 1)
    <2>1. CASE a = i /\ b \in K
      BY <1>8, <2>1
    <2>2. CASE ~(a = i /\ b \in K)
      <3>1. chan'[a][b] = net[a][b]
        BY <1>5, <2>2
      <3> QED BY <1>1, <1>3, <3>1, QueueStays, QueueIsTaken
    <2> QED BY <2>1, <2>2
  <1>10. PacketStep
    BY <1>9 DEF PacketStep
  <1>11. ASSUME NEW k \in Peers(i), next[k] <= Len(log'[i]) + 1
         PROVE  next_idx'[i][k] <= Len(log'[i]) + 1
    <2>1. CASE k \in K
      BY <1>6, <1>8, <2>1
    <2>2. CASE k \notin K
      <3>1. nrow[k] = next[k]
        BY <2>2 DEF Peers
      <3> QED BY <1>6, <1>11, <3>1
    <2> QED BY <2>1, <2>2
  <1> QED BY <1>6, <1>10, <1>11

-----------------------------------------------------------------------------
(* What steps that leave a part of the state alone do not disturb.         *)

\* Servers keep their role, or step down; a leader does so in a newer term.
Yields ==
    \A s \in Server :
        \/ current_term'[s] = current_term[s] /\ state'[s] = state[s]
        \/ state'[s] = Follower /\ (state[s] = Leader => current_term'[s] # current_term[s])

\* A step in which servers only step down makes no leader.
LEMMA YieldingStates ==
    ASSUME Yields, \A s \in Server : state'[s] = Candidate => log'[s] = log[s]
    PROVE  /\ StateStep
           /\ \A s \in Server : state'[s] = Leader =>
                 state[s] = Leader /\ current_term'[s] = current_term[s]
  <1>1. Follower # Leader /\ Follower # Candidate
    BY DEF Follower, Leader, Candidate
  <1>2. ASSUME NEW s \in Server, state'[s] # Follower
        PROVE  current_term'[s] = current_term[s] /\ state'[s] = state[s]
    BY <1>2 DEF Yields
  <1>3. ASSUME NEW s \in Server, state[s] = Leader, current_term'[s] = current_term[s]
        PROVE  state'[s] = Leader
    BY <1>3 DEF Yields
  <1>4. ASSUME NEW s \in Server
        PROVE  /\ state'[s] = Candidate => current_term'[s] = current_term[s] /\ state[s] = Candidate
               /\ state'[s] = Leader => current_term'[s] = current_term[s] /\ state[s] = Leader
    BY <1>1, <1>2
  <1> QED BY <1>3, <1>4 DEF StateStep

\* The history, the logs and what is committed.
LEMMA SameReign ==
    ASSUME TypeOK, leader_log' = leader_log
    PROVE  ReignStep
  <1>1. ASSUME NEW t \in DOMAIN leader_log
        PROVE  /\ Agree(leader_log[t], leader_log[t], Len(leader_log[t]))
               /\ \A k \in 1..Len(leader_log[t]) : ~(k > Len(leader_log[t]))
    <2>1. leader_log[t] \in Seq(Entry)
      BY DEF TypeOK, HistoryTypes
    <2>2. Len(leader_log[t]) \in Nat
      BY <2>1, SeqLength
    <2>3. /\ Len(leader_log[t]) <= Len(leader_log[t])
          /\ \A k \in 1..Len(leader_log[t]) : ~(k > Len(leader_log[t]))
      BY SMT, <2>2
    <2> QED BY <2>3, AgreeRefl
  <1>2. Grown(leader_log, leader_log')
    BY <1>1 DEF Grown
  <1> QED BY <1>2 DEF ReignStep

\* A step that leaves logs, acknowledgements and commits alone.
LEMMA QuietHistory ==
    ASSUME TypeOK, UNCHANGED <<log, leader_log, acked, commit_idx>>
    PROVE  ReignStep /\ AckStep /\ LogStep /\ CommitStep /\ IngestStep
  <1>1. ReignStep
    BY SameReign
  <1>2. AckStep /\ LogStep /\ CommitStep /\ IngestStep
    BY DEF AckStep, LogStep, CommitStep, IngestStep
  <1> QED BY <1>1, <1>2

\* Leaders stay recorded when no log changes and none is made.
LEMMA QuietLeaders ==
    ASSUME LeadersRecorded, UNCHANGED <<log, leader_log>>,
           \A s \in Server : state'[s] = Leader =>
               state[s] = Leader /\ current_term'[s] = current_term[s]
    PROVE  LeadersRecorded'
  BY DEF LeadersRecorded

\* commit_idx only moves up.
CommitsMoveUp == \A s \in Server : commit_idx[s] <= commit_idx'[s]

\* log_base, last_applied_idx and commit_idx stay in order when nothing is applied ...
LEMMA QuietApply ==
    ASSUME TypeOK, TypeOK', ApplyInOrder, CommitsMoveUp, UNCHANGED applyVars
    PROVE  ApplyInOrder'
  <1> SUFFICES ASSUME NEW s \in Server
               PROVE  log_base[s] <= last_applied_idx[s] /\ last_applied_idx[s] <= commit_idx'[s]
    BY DEF ApplyInOrder, applyVars
  <1>1. /\ last_applied_idx[s] \in Nat /\ commit_idx[s] \in Nat /\ commit_idx'[s] \in Nat
        /\ log_base[s] <= last_applied_idx[s] /\ last_applied_idx[s] <= commit_idx[s]
        /\ commit_idx[s] <= commit_idx'[s]
    BY DEF TypeOK, ServerTypes, ApplyInOrder, CommitsMoveUp
  <1> QED BY SMT, <1>1

\* ... and when committed entries are.
LEMMA ApplyStep ==
    ASSUME TypeOK, TypeOK', ApplyInOrder, CommitsMoveUp, NEW i \in Server, ApplyCommitted(i)
    PROVE  ApplyInOrder'
  <1> DEFINE last == Larger(last_applied_idx[i], Smaller(commit_idx'[i], Len(log'[i])))
  <1>1. /\ \A s \in Server :
              /\ last_applied_idx[s] \in Nat /\ commit_idx[s] \in Nat /\ commit_idx'[s] \in Nat
              /\ log_base[s] \in Nat
              /\ log_base[s] <= last_applied_idx[s] /\ last_applied_idx[s] <= commit_idx[s]
              /\ commit_idx[s] <= commit_idx'[s]
        /\ Len(log'[i]) \in Nat
    <2>1. log'[i] \in Seq(Entry)
      BY DEF TypeOK, ServerTypes
    <2> QED BY <2>1, SeqLength DEF TypeOK, ServerTypes, ApplyInOrder, CommitsMoveUp
  <1>2. \A x, y, z \in Nat : LET l == Larger(x, Smaller(y, z))
                             IN  l \in Nat /\ x <= l /\ (x <= y => l <= y)
    BY SMT DEF Larger, Smaller
  <1>3. \A x, y, z \in Nat : x <= y /\ y <= z => x <= z
    BY SMT
  <1>4. last \in Nat /\ last_applied_idx[i] <= last /\ last <= commit_idx'[i]
    <2>1. last_applied_idx[i] <= commit_idx'[i]
      BY <1>1, <1>3
    <2> QED BY <1>1, <1>2, <2>1
  <1>5. /\ last_applied_idx' = [last_applied_idx EXCEPT ![i] = last]
        /\ \/ \E b \in log_base[i]..last : log_base' = [log_base EXCEPT ![i] = b]
           \/ log_base' = log_base
    BY DEF ApplyCommitted
  <1> HIDE DEF last
  <1>6. last_applied_idx'[i] = last /\ \A s \in Server : s # i => last_applied_idx'[s] = last_applied_idx[s]
    BY <1>5 DEF TypeOK, ServerTypes
  <1>7. log_base'[i] <= last /\ \A s \in Server : s # i => log_base'[s] = log_base[s]
    <2>1. CASE log_base' = log_base
      BY <1>1, <1>3, <1>4, <2>1
    <2>2. ASSUME NEW b \in log_base[i]..last, log_base' = [log_base EXCEPT ![i] = b]
          PROVE  log_base'[i] <= last /\ \A s \in Server : s # i => log_base'[s] = log_base[s]
      <3>1. b <= last
        BY SMT, <1>1, <1>4
      <3>2. log_base'[i] = b /\ \A s \in Server : s # i => log_base'[s] = log_base[s]
        BY <2>2 DEF TypeOK, ServerTypes
      <3> QED BY <3>1, <3>2
    <2> QED BY <1>5, <2>1, <2>2
  <1>8. ASSUME NEW s \in Server
        PROVE  log_base'[s] <= last_applied_idx'[s] /\ last_applied_idx'[s] <= commit_idx'[s]
    <2>1. CASE s = i
      BY <1>4, <1>6, <1>7, <2>1
    <2>2. CASE s # i
      BY <1>1, <1>3, <1>6, <1>7, <2>2
    <2> QED BY <2>1, <2>2
  <1> QED BY <1>8 DEF ApplyInOrder

\* What leaders know stays true while they lead, whatever they append.
LEMMA QuietPeers ==
    ASSUME TypeOK, TypeOK', PeersKnown, acked \subseteq acked', UNCHANGED peerVars,
           \A s \in Server : state'[s] = Leader =>
               state[s] = Leader /\ current_term'[s] = current_term[s] /\ log'[s] = log[s]
    PROVE  PeersKnown'
  BY DEF PeersKnown, peerVars

\* No vote is cast but for oneself.
LEMMA QuietBallots ==
    ASSUME TypeOK, VoteStep,
           \A s \in Server :
               \/ voted_for'[s] = voted_for[s] /\ current_term'[s] = current_term[s]
               \/ voted_for'[s] = Nil
               \/ voted_for'[s] = s
    PROVE  BallotStep
  <1> SUFFICES ASSUME NEW v \in Server, NEW i \in Server, NEW t, t \in VoteTerms(v, i)',
                      t \notin VoteTerms(v, i), v # i
               PROVE  FALSE
    BY DEF BallotStep
  <1>1. t = current_term'[v] /\ voted_for'[v] = i /\ (current_term[v] < t \/ voted_for[v] = Nil)
    BY DEF VoteStep
  <1>2. i # Nil
    BY ServerAssumption
  <1>3. voted_for[v] = i /\ current_term'[v] = current_term[v]
    BY <1>1, <1>2
  <1>4. current_term[v] < current_term[v] /\ current_term[v] \in Nat
    BY <1>1, <1>2, <1>3 DEF TypeOK, ServerTypes
  <1> QED BY SMT, <1>4
-----------------------------------------------------------------------------
(* The kicker.                                                             *)

\* The first entry of a term is the kicker.
KickersIn(lg) ==
    \A n \in 1..Len(lg) : TermAt(lg, n - 1) # lg[n].term => lg[n].cmd = Kicker

\* Leaders' logs are so, and a leader that published its term has logged an
\* entry of it.
Kicked ==
    /\ \A t \in DOMAIN leader_log : KickersIn(leader_log[t])
    /\ \A i \in Server :
          /\ snapshot[i] <= current_term[i]
          /\ state[i] # Follower => 0 < current_term[i]
          /\ state[i] = Candidate => snapshot[i] < current_term[i]
          /\ state[i] = Leader /\ snapshot[i] = current_term[i] =>
                Len(log[i]) > 0 /\ TermAt(log[i], Len(log[i])) = current_term[i]

\* All logs are so, since they are made of what leaders had.
LEMMA LogsKicked ==
    ASSUME TypeOK, Safe, Kicked, NEW s \in Server
    PROVE  KickersIn(log[s])
  <1> SUFFICES ASSUME NEW n \in 1..Len(log[s]), TermAt(log[s], n - 1) # log[s][n].term
               PROVE  log[s][n].cmd = Kicker
    BY DEF KickersIn
  <1>1. PICK t \in DOMAIN leader_log : t = log[s][n].term /\ Agree(log[s], leader_log[t], n)
    BY DEF Safe, LogsLinked, Linked
  <1>2. /\ log[s] \in Seq(Entry) /\ leader_log[t] \in Seq(Entry)
        /\ Len(log[s]) \in Nat /\ Len(leader_log[t]) \in Nat
    BY Types
  <1>3. n \in Nat /\ n \in 1..n /\ (n - 1 \in 1..n \/ n - 1 = 0)
    BY SMT, <1>2
  <1>4. log[s][n] = leader_log[t][n] /\ n \in 1..Len(leader_log[t])
    BY ZenonT(30), <1>1, <1>2, <1>3, AgreeAt
  <1>5. TermAt(leader_log[t], n - 1) = TermAt(log[s], n - 1)
    <2>1. CASE n - 1 \in 1..n
      BY <1>1, <1>2, <1>3, <2>1, AgreeTermAt
    <2>2. CASE n - 1 = 0
      <3>1. ~(0 \in 1..Len(log[s])) /\ ~(0 \in 1..Len(leader_log[t]))
        BY SMT, <1>2
      <3> QED BY <2>2, <3>1 DEF TermAt
    <2> QED BY <1>3, <2>1, <2>2
  <1> QED BY <1>4, <1>5 DEF Kicked, KickersIn

\* Entries of term t behind a log that ends in t, or after the kicker of t.
LEMMA KickersAppended ==
    ASSUME NEW a \in Seq(Entry), NEW e \in Seq(Entry), NEW t \in Nat, KickersIn(a),
           Len(e) > 0, \A k \in 1..Len(e) : e[k].term = t,
           e[1].cmd = Kicker \/ (Len(a) > 0 /\ TermAt(a, Len(a)) = t)
    PROVE  KickersIn(a \o e) /\ Len(a \o e) > 0 /\ TermAt(a \o e, Len(a \o e)) = t
  <1> DEFINE c == a \o e
             la == Len(a)
             le == Len(e)
  <1>1. /\ la \in Nat /\ le \in Nat /\ Len(c) = la + le
        /\ \A k \in 1..(la + le) : c[k] = IF k <= la THEN a[k] ELSE e[k - la]
    BY SeqConcat, SeqLength
  <1> HIDE DEF c, la, le
  <1>2. \A k \in 1..(la + le) : k <= la => c[k] = a[k] /\ k \in 1..la
    BY SMT, <1>1
  <1>3. \A k \in 1..(la + le) : k > la => k - la \in 1..le /\ c[k] = e[k - la]
    BY SMT, <1>1
  <1>4. \A k \in 1..(la + le) : k > la => c[k].term = t
    BY <1>3 DEF le
  <1>5. \A k \in 1..(la + le) : k = la + 1 => c[k] = e[1]
    <2>1. \A k \in 1..(la + le) : k = la + 1 => k > la /\ k - la = 1
      BY SMT, <1>1
    <2> QED BY <1>3, <2>1
  <1>6. Len(c) > 0 /\ la + le \in 1..(la + le) /\ la + le > la
    BY SMT, <1>1 DEF le
  <1>7. TermAt(c, Len(c)) = t
    BY <1>1, <1>4, <1>6 DEF TermAt
  <1>8. ASSUME NEW n \in 1..(la + le), TermAt(c, n - 1) # c[n].term PROVE c[n].cmd = Kicker
    <2>1. /\ n <= la \/ n = la + 1 \/ (n - 1 > la /\ n > la /\ n - 1 \in 1..(la + le))
          /\ n <= la => (n - 1 \in 1..la /\ n - 1 <= la /\ n - 1 \in 1..(la + le)) \/ n - 1 = 0
          /\ ~(0 \in 1..la) /\ ~(0 \in 1..(la + le)) /\ (la > 0 => la \in 1..la /\ la \in 1..(la + le))
          /\ n = la + 1 => n - 1 = la /\ n > la
          /\ la <= la
      BY SMT, <1>1
    <2>2. CASE n <= la
      <3>1. c[n] = a[n] /\ n \in 1..la
        BY <1>2, <2>2
      <3>2. TermAt(c, n - 1) = TermAt(a, n - 1)
        BY <1>1, <1>2, <2>1, <2>2 DEF TermAt, la
      <3> QED BY <1>8, <3>1, <3>2 DEF KickersIn, la
    <2>3. CASE n = la + 1
      <3>1. c[n] = e[1] /\ c[n].term = t /\ n - 1 = la
        BY <1>4, <1>5, <2>1, <2>3
      <3>2. ASSUME la > 0, TermAt(a, la) = t PROVE FALSE
        <4>1. TermAt(c, la) = TermAt(a, la)
          BY <1>1, <1>2, <2>1, <3>2 DEF TermAt, la
        <4> QED BY <1>8, <3>1, <3>2, <4>1
      <3> QED BY <3>1, <3>2 DEF la
    <2>4. CASE n - 1 > la /\ n > la /\ n - 1 \in 1..(la + le)
      <3>1. c[n].term = t /\ c[n - 1].term = t
        BY <1>4, <2>4
      <3> QED BY <1>1, <1>8, <2>4, <3>1 DEF TermAt
    <2> QED BY <2>1, <2>2, <2>3, <2>4
  <1>9. KickersIn(c)
    BY <1>1, <1>8 DEF KickersIn
  <1> QED BY <1>6, <1>7, <1>9 DEF c

\* A step logs entries of a leader's term, the kicker first or once the term is
\* published, or leaves both what is published and the leaders' logs alone.
Batch(i, new) ==
    /\ state[i] = Leader /\ state' = state /\ current_term' = current_term
    /\ Len(new) > 0 /\ \A k \in 1..Len(new) : new[k].term = current_term[i]
    /\ new[1].cmd = Kicker \/ snapshot[i] = current_term[i]
    /\ log' = [log EXCEPT ![i] = log[i] \o new]
    /\ \A t \in DOMAIN leader_log : t # current_term[i] => leader_log'[t] = leader_log[t]
    /\ snapshot' = [snapshot EXCEPT ![i] = current_term[i]]

KickStep ==
    \/ UNCHANGED snapshot /\ \A t \in DOMAIN leader_log : leader_log'[t] = leader_log[t]
    \/ \E i \in Server : \E new \in Seq(Entry) : Batch(i, new)

\* Every step keeps Kicked.
LEMMA KickedStep ==
    ASSUME TypeOK, TypeOK', Safe, Kicked, VoteStep, Progress, KickStep
    PROVE  Kicked'
  <1>1. /\ \A s \in Server : snapshot[s] \in Nat /\ current_term[s] \in Nat /\ current_term'[s] \in Nat
        /\ \A s \in Server : state[s] \in {Follower, Candidate, Leader}
        /\ \A s \in Server : current_term[s] <= current_term'[s]
        /\ snapshot \in [Server -> Nat]
    BY DEF TypeOK, ServerTypes, VoteStep
  <1>2. /\ \A a \in Nat : a <= a
        /\ \A a, b, c \in Nat : a <= b /\ b <= c => a <= c
        /\ \A a, b, c \in Nat : a <= b /\ b <= c /\ b # c => a < c /\ 0 < c
        /\ \A a \in Nat : ~(a < a)
    BY SMT
  <1>3. StateStep /\ ReignStep /\ LeadersRecorded' /\ LeadersRecorded
    BY DEF Progress, Safe
  <1>4. ASSUME NEW s \in Server, state'[s] # Follower PROVE 0 < current_term'[s]
    <2>1. state'[s] \in {Candidate, Leader}
      BY <1>4 DEF TypeOK, ServerTypes
    <2>2. current_term'[s] = current_term[s] => state[s] # Follower
      BY <1>3, <2>1 DEF StateStep, Follower, Candidate, Leader
    <2>3. CASE current_term'[s] = current_term[s]
      BY <2>2, <2>3 DEF Kicked
    <2>4. CASE current_term'[s] # current_term[s]
      <3>1. snapshot[s] <= current_term[s]
        BY DEF Kicked
      <3> QED BY <1>1, <1>2, <2>4, <3>1
    <2> QED BY <2>3, <2>4
  <1>5. ASSUME NEW t \in DOMAIN leader_log', t \notin DOMAIN leader_log PROVE KickersIn(leader_log'[t])
    <2>1. PICK i \in Server : leader_log'[t] = log[i]
      BY <1>3, <1>5 DEF ReignStep
    <2> QED BY <2>1, LogsKicked
  \* A step that logs nothing.
  <1>6. CASE UNCHANGED snapshot /\ \A t \in DOMAIN leader_log : leader_log'[t] = leader_log[t]
    <2>1. \A t \in DOMAIN leader_log' : KickersIn(leader_log'[t])
      BY <1>5, <1>6 DEF Kicked
    <2>2. ASSUME NEW s \in Server
          PROVE  /\ snapshot'[s] <= current_term'[s]
                 /\ state'[s] = Candidate => snapshot'[s] < current_term'[s]
                 /\ state'[s] = Leader /\ snapshot'[s] = current_term'[s] =>
                       Len(log'[s]) > 0 /\ TermAt(log'[s], Len(log'[s])) = current_term'[s]
      <3>1. snapshot'[s] = snapshot[s] /\ snapshot[s] <= current_term[s]
        BY <1>6 DEF Kicked
      <3>2. snapshot'[s] <= current_term'[s]
        BY <1>1, <1>2, <3>1
      <3>3. ASSUME state'[s] = Candidate PROVE snapshot'[s] < current_term'[s]
        <4>1. CASE current_term'[s] = current_term[s]
          BY <1>3, <3>1, <3>3, <4>1 DEF StateStep, Kicked
        <4>2. CASE current_term'[s] # current_term[s]
          BY <1>1, <1>2, <3>1, <4>2
        <4> QED BY <4>1, <4>2
      <3>4. ASSUME state'[s] = Leader, snapshot'[s] = current_term'[s]
            PROVE  Len(log'[s]) > 0 /\ TermAt(log'[s], Len(log'[s])) = current_term'[s]
        <4>1. current_term'[s] = current_term[s] /\ (state[s] = Leader \/ state[s] = Candidate)
          BY <1>3, <3>4 DEF StateStep
        <4>2. state[s] = Leader
          BY <1>1, <1>2, <3>1, <3>4, <4>1 DEF Kicked
        <4>3. /\ log[s] = leader_log[current_term[s]] /\ current_term[s] \in DOMAIN leader_log
              /\ log'[s] = leader_log'[current_term[s]]
          BY <1>3, <3>4, <4>1, <4>2 DEF LeadersRecorded
        <4>4. log'[s] = log[s]
          BY <1>6, <4>3
        <4> QED BY <3>1, <3>4, <4>1, <4>2, <4>4 DEF Kicked
      <3> QED BY <3>2, <3>3, <3>4
    <2> QED BY <1>4, <2>1, <2>2 DEF Kicked
  \* A batch of the leader i.
  <1>7. ASSUME NEW i \in Server, NEW new \in Seq(Entry), Batch(i, new) PROVE Kicked'
    <2>1. /\ KickersIn(log'[i]) /\ Len(log'[i]) > 0
          /\ TermAt(log'[i], Len(log'[i])) = current_term[i]
          /\ leader_log'[current_term[i]] = log'[i]
          /\ \A t \in DOMAIN leader_log : t # current_term[i] => leader_log'[t] = leader_log[t]
          /\ \A s \in Server : s # i => log'[s] = log[s]
          /\ current_term' = current_term /\ state' = state
      <3>1. log \in [Server -> Seq(Entry)] /\ log[i] \in Seq(Entry) /\ current_term[i] \in Nat
        BY DEF TypeOK, ServerTypes
      <3>2. log'[i] = log[i] \o new /\ \A s \in Server : s # i => log'[s] = log[s]
        BY <1>7, <3>1 DEF Batch
      <3>3. KickersIn(log[i])
        BY LogsKicked
      <3>4. /\ new[1].cmd = Kicker \/ (Len(log[i]) > 0 /\ TermAt(log[i], Len(log[i])) = current_term[i])
            /\ Len(new) > 0 /\ \A k \in 1..Len(new) : new[k].term = current_term[i]
        BY <1>7 DEF Batch, Kicked
      <3>5. PICK t \in Nat : t = current_term[i]
        BY <3>1
      <3>6. /\ KickersIn(log[i] \o new) /\ Len(log[i] \o new) > 0
            /\ TermAt(log[i] \o new, Len(log[i] \o new)) = t
        BY <3>1, <3>3, <3>4, <3>5, KickersAppended, ZenonT(30)
      <3>7. leader_log'[current_term[i]] = log'[i]
        BY <1>3, <1>7 DEF Batch, LeadersRecorded
      <3> QED BY <1>7, <3>2, <3>5, <3>6, <3>7 DEF Batch
    <2>2. \A t \in DOMAIN leader_log' : KickersIn(leader_log'[t])
      BY <1>5, <2>1 DEF Kicked
    <2>3. snapshot'[i] = current_term[i] /\ \A s \in Server : s # i => snapshot'[s] = snapshot[s]
      BY <1>1, <1>7 DEF Batch
    <2>4. state[i] # Candidate
      BY <1>7 DEF Batch, Candidate, Leader
    <2>5. ASSUME NEW s \in Server
          PROVE  /\ snapshot'[s] <= current_term'[s]
                 /\ state'[s] = Candidate => snapshot'[s] < current_term'[s]
                 /\ state'[s] = Leader /\ snapshot'[s] = current_term'[s] =>
                       Len(log'[s]) > 0 /\ TermAt(log'[s], Len(log'[s])) = current_term'[s]
      <3>1. CASE s = i
        BY <1>1, <1>2, <2>1, <2>3, <2>4, <3>1
      <3>2. CASE s # i
        BY <2>1, <2>3, <3>2 DEF Kicked
      <3> QED BY <3>1, <3>2
    <2> QED BY <1>4, <2>2, <2>5 DEF Kicked
  <1> QED BY <1>6, <1>7 DEF KickStep

-----------------------------------------------------------------------------
(* Responses.                                                              *)

IsAck(m) == m.type = "AER" /\ m.success
IsNack(m) == m.type = "AER" /\ ~m.success

\* What server i sent, and what was acknowledged to it, is of terms it has
\* reached, and is sent in the order of terms.
SentInOrder(i, j) ==
    /\ \A m : Has(chan[i][j], m) /\ m.type = "AE" => m.term <= current_term[i]
    /\ \A m : Has(chan[j][i], m) /\ IsAck(m) => m.term <= current_term[i]
    /\ \A n, k \in 1..Len(chan[i][j]) :
          k < n /\ chan[i][j][k].type = "AE" /\ chan[i][j][n].type = "AE"
              => chan[i][j][k].term <= chan[i][j][n].term

\* An AppendEntries still queued is of a term no older than any acknowledged.
AcksBehind(i, j) ==
    \A m : Has(chan[i][j], m) /\ m.type = "AE" =>
        /\ \A x : Has(chan[j][i], x) /\ IsAck(x) => x.term <= m.term
        /\ state[i] = Leader /\ match_idx[i][j] > 0 => current_term[i] <= m.term

\* The n-th packet from j to i, a refusal, comes before all that j acknowledges
\* to i in its term.
ComesFirst(i, j, n) ==
    /\ \A k \in 1..Len(chan[j][i]) : k < n /\ IsAck(chan[j][i][k])
          => chan[j][i][k].term # chan[j][i][n].term
    /\ state[i] = Leader /\ current_term[i] = chan[j][i][n].term => match_idx[i][j] = 0

\* A refusal shows a log shorter than the leader's, or comes first.
NacksFirst(i, j) ==
    \A n \in 1..Len(chan[j][i]) : IsNack(chan[j][i][n]) =>
        Short(chan[j][i][n], leader_log) \/ ComesFirst(i, j, n)

Answered ==
    \A i, j \in Server : i # j =>
        SentInOrder(i, j) /\ AcksBehind(i, j) /\ NacksFirst(i, j)

\* match_idx is 0 for a new leader, and moves on acknowledgements only.
MatchStep ==
    \A i, j \in Server : state'[i] = Leader /\ i # j =>
        \/ match_idx'[i][j] = 0
        \/ state[i] = Leader /\ match_idx'[i][j] = match_idx[i][j]
        \/ /\ state[i] = Leader /\ Arrived(i, j, "AER")
           /\ IsAck(Head(chan[j][i])) /\ Head(chan[j][i]).term = current_term[i]

\* The terms of AppendEntries and of responses.
LEMMA PacketTerms ==
    ASSUME NEW q \in Seq(Message), NEW n \in 1..Len(q), q[n].type = "AE" \/ q[n].type = "AER"
    PROVE  q[n].term \in Nat
  <1>1. q[n] \in Message
    BY SeqElement
  <1>2. PICK m \in Message : m = q[n]
    BY <1>1
  <1>3. m.term \in Nat
    BY DEF Message
  <1> QED BY <1>2, <1>3

\* An AppendEntries is of the sender's term.
LEMMA SentEntries ==
    ASSUME NEW i, NEW j, NEW m, NewPacket(i, j, m), m.type = "AE"
    PROVE  m.term = current_term'[i]
  <1>1. PICK k \in 1..(Len(log'[i]) + 1) : m = AppendEntriesFor(i, k)
    BY DEF NewPacket
  <1>2. AppendEntriesFor(i, k).term = current_term'[i]
    BY DEF AppendEntriesFor
  <1> QED BY <1>1, <1>2

\* A response in the queue from j to i after a step.
LEMMA SentResponse ==
    ASSUME NEW i, NEW j, NEW d, QueueMoves(j, i, d), NEW n \in 1..Len(chan'[j][i]),
           chan'[j][i][n].type = "AER"
    PROVE  \/ \E k \in 1..Len(chan[j][i]) : k = n + d /\ chan'[j][i][n] = chan[j][i][k]
           \/ n + d > Len(chan[j][i]) /\ Answers(j, i, chan'[j][i][n])
  BY DEF QueueMoves, NewPacket
\* Every step keeps Answered.
LEMMA AnsweredStep ==
    ASSUME TypeOK, TypeOK', VoteStep, StateStep, ReignStep, PacketStep, MatchStep, Answered
    PROVE  Answered'
  <1> SUFFICES ASSUME NEW i \in Server, NEW j \in Server, i # j
               PROVE  SentInOrder(i, j)' /\ AcksBehind(i, j)' /\ NacksFirst(i, j)'
    BY DEF Answered
  <1> DEFINE q == chan[i][j]
             r == chan[j][i]
             qq == chan'[i][j]
             rr == chan'[j][i]
  <1>1. /\ q \in Seq(Message) /\ r \in Seq(Message) /\ qq \in Seq(Message) /\ rr \in Seq(Message)
        /\ current_term[i] \in Nat /\ current_term'[i] \in Nat /\ current_term[i] <= current_term'[i]
        /\ match_idx[i][j] \in Nat /\ match_idx'[i][j] \in Nat
    <2>1. /\ chan \in [Server -> [Server -> Seq(Message)]] /\ chan' \in [Server -> [Server -> Seq(Message)]]
          /\ match_idx \in [Server -> [Server -> Nat]] /\ match_idx' \in [Server -> [Server -> Nat]]
          /\ current_term \in [Server -> Nat] /\ current_term' \in [Server -> Nat]
      BY DEF TypeOK, ServerTypes
    <2>2. /\ chan[i] \in [Server -> Seq(Message)] /\ chan'[i] \in [Server -> Seq(Message)]
          /\ chan[j] \in [Server -> Seq(Message)] /\ chan'[j] \in [Server -> Seq(Message)]
          /\ match_idx[i] \in [Server -> Nat] /\ match_idx'[i] \in [Server -> Nat]
      BY <2>1
    <2> QED BY <2>1, <2>2 DEF VoteStep
  <1>2. Len(q) \in Nat /\ Len(r) \in Nat /\ Len(qq) \in Nat /\ Len(rr) \in Nat
    BY <1>1, SeqLength
  <1>3. /\ \A n \in 1..Len(q) : q[n].type = "AE" => q[n].term \in Nat
        /\ \A n \in 1..Len(qq) : qq[n].type = "AE" => qq[n].term \in Nat
        /\ \A n \in 1..Len(r) : r[n].type = "AER" => r[n].term \in Nat
        /\ \A n \in 1..Len(rr) : rr[n].type = "AER" => rr[n].term \in Nat
    BY <1>1, PacketTerms
  <1>4. PICK d \in {0, 1} : QueueMoves(i, j, d)
    BY DEF PacketStep
  <1>5. PICK e \in {0, 1} : QueueMoves(j, i, e)
    BY DEF PacketStep
  <1>6. d \in Nat /\ e \in Nat
    BY SMT
  <1>7. SentInOrder(i, j) /\ AcksBehind(i, j) /\ NacksFirst(i, j)
    BY DEF Answered
  <1>8. /\ \A a \in Nat : a <= a /\ ~(a < a)
        /\ \A a, b, c \in Nat : a <= b /\ b <= c => a <= c
        /\ \A a, b, c \in Nat : a <= b /\ b < c => a # c /\ ~(c <= a)
        /\ \A a, b, k, n \in Nat : n + d = a /\ a <= b /\ k < n => ~(k + d > b) /\ k + d < a
        /\ \A a, b, k, n \in Nat : n + e = a /\ a <= b /\ k < n => ~(k + e > b) /\ k + e < a
        /\ \A a \in Nat : a > 0 \/ a = 0
        /\ \A a \in Nat : \A b \in 1..a : b <= a /\ b \in Nat /\ (1 < b \/ b = 1)
    BY SMT, <1>6
  \* The head of q, where j takes an AppendEntries.
  <1>9. ASSUME Arrived(j, i, "AE")
        PROVE  1 \in 1..Len(q) /\ Head(q) = q[1] /\ q[1].type = "AE" /\ Has(q, q[1]) /\ q[1].term \in Nat
    <2>1. q # <<>> /\ Head(q).type = "AE"
      BY <1>9 DEF Arrived
    <2>2. 1 \in 1..Len(q) /\ Head(q) = q[1]
      BY <1>1, <2>1, SeqNonEmpty
    <2> QED BY <1>3, <2>1, <2>2 DEF Has
  <1>10. /\ \A m : Has(q, m) /\ m.type = "AE" => m.term <= current_term[i] /\ m.term \in Nat
         /\ \A x : Has(r, x) /\ IsAck(x) => x.term <= current_term[i] /\ x.term \in Nat
    BY <1>3, <1>7 DEF SentInOrder, Has, IsAck
  \* Elements of the queues after the step.
  <1>11. ASSUME NEW n \in 1..Len(qq), qq[n].type = "AE"
         PROVE  \/ \E k \in 1..Len(q) : k = n + d /\ qq[n] = q[k]
                \/ n + d > Len(q) /\ qq[n].term = current_term'[i]
    <2>1. \/ \E k \in 1..Len(q) : k = n + d /\ qq[n] = q[k]
          \/ n + d > Len(q) /\ NewPacket(i, j, qq[n])
      BY <1>4 DEF QueueMoves
    <2>2. NewPacket(i, j, qq[n]) => qq[n].term = current_term'[i]
      BY <1>11, SentEntries
    <2> QED BY <2>1, <2>2
  <1>12. ASSUME NEW n \in 1..Len(rr), rr[n].type = "AER"
         PROVE  \/ \E k \in 1..Len(r) : k = n + e /\ rr[n] = r[k]
                \/ n + e > Len(r) /\ Answers(j, i, rr[n])
    BY <1>5, <1>12, SentResponse
  <1> HIDE DEF q, r, qq, rr
  <1>13. ASSUME NEW m, Has(qq, m), m.type = "AE"
         PROVE  Has(q, m) \/ m.term = current_term'[i]
    BY <1>11, <1>13 DEF Has
  <1>14. ASSUME NEW x, Has(rr, x), IsAck(x)
         PROVE  Has(r, x) \/ (Arrived(j, i, "AE") /\ x.term = q[1].term)
    <2>1. PICK n \in 1..Len(rr) : rr[n] = x /\ rr[n].type = "AER" /\ x.success
      BY <1>14 DEF Has, IsAck
    <2>2. CASE \E k \in 1..Len(r) : k = n + e /\ rr[n] = r[k]
      BY <2>1, <2>2 DEF Has
    <2>3. CASE Answers(j, i, rr[n])
      <3>1. Arrived(j, i, "AE") /\ x.term = Head(chan[i][j]).term
        BY <2>1, <2>3 DEF Answers
      <3> QED BY <1>9, <3>1 DEF q
    <2> QED BY <1>12, <2>1, <2>2, <2>3
  \* SentInOrder
  <1>15. ASSUME NEW m, Has(qq, m), m.type = "AE" PROVE m.term <= current_term'[i] /\ m.term \in Nat
    <2>1. m.term \in Nat
      BY <1>3, <1>15 DEF Has
    <2> QED BY ZenonT(30), <1>1, <1>8, <1>10, <1>13, <1>15, <2>1
  <1>16. ASSUME NEW x, Has(rr, x), IsAck(x) PROVE x.term <= current_term'[i] /\ x.term \in Nat
    <2>1. x.term \in Nat
      BY <1>3, <1>16 DEF Has, IsAck
    <2>2. CASE Has(r, x)
      BY <1>1, <1>8, <1>10, <1>16, <2>1, <2>2
    <2>3. CASE Arrived(j, i, "AE") /\ x.term = q[1].term
      <3>1. q[1].term <= current_term[i] /\ q[1].term \in Nat
        BY <1>9, <1>10, <2>3
      <3> QED BY ZenonT(30), <1>1, <1>8, <2>1, <2>3, <3>1
    <2> QED BY <1>14, <1>16, <2>2, <2>3
  <1>17. ASSUME NEW n \in 1..Len(qq), NEW k \in 1..Len(qq), k < n, qq[k].type = "AE", qq[n].type = "AE"
         PROVE  qq[k].term <= qq[n].term
    <2>1. n \in Nat /\ k \in Nat
      BY <1>2, <1>8
    <2>2. CASE n + d > Len(q) /\ qq[n].term = current_term'[i]
      BY <1>15, <1>17, <2>2 DEF Has
    <2>3. CASE \E a \in 1..Len(q) : a = n + d /\ qq[n] = q[a]
      <3>1. PICK a \in 1..Len(q) : a = n + d /\ qq[n] = q[a]
        BY <2>3
      <3>2. a \in Nat /\ a <= Len(q)
        BY <1>2, <1>8
      <3>3. ~(k + d > Len(q)) /\ k + d < a
        BY ZenonT(30), <1>2, <1>8, <1>17, <2>1, <3>1, <3>2
      <3>4. PICK b \in 1..Len(q) : b = k + d /\ qq[k] = q[b]
        BY <1>11, <1>17, <3>3
      <3> QED BY <1>7, <1>17, <3>1, <3>3, <3>4 DEF SentInOrder, q
    <2> QED BY <1>11, <1>17, <2>2, <2>3
  <1>18. SentInOrder(i, j)'
    BY <1>15, <1>16, <1>17 DEF SentInOrder, qq, rr, Has, IsAck
  \* AcksBehind
  <1>19. ASSUME NEW m, Has(qq, m), m.type = "AE", NEW x, Has(rr, x), IsAck(x) PROVE x.term <= m.term
    <2>1. x.term <= current_term'[i] /\ x.term \in Nat /\ m.term \in Nat
      BY <1>15, <1>16, <1>19
    <2>2. CASE m.term = current_term'[i]
      BY <2>1, <2>2
    <2>3. CASE Has(q, m)
      <3>1. CASE Has(r, x)
        BY <1>7, <1>19, <2>3, <3>1 DEF AcksBehind, q, r
      <3>2. CASE Arrived(j, i, "AE") /\ x.term = q[1].term
        <4>1. PICK n \in 1..Len(q) : q[n] = m
          BY <2>3 DEF Has
        <4>2. 1 < n \/ n = 1
          BY <1>2, <1>8
        <4>3. CASE n = 1
          BY <1>8, <2>1, <3>2, <4>1, <4>3
        <4>4. CASE 1 < n
          <5>1. 1 \in 1..Len(q) /\ q[1].type = "AE"
            BY <1>9, <3>2
          <5> QED BY <1>7, <1>19, <3>2, <4>1, <4>4, <5>1 DEF SentInOrder, q
        <4> QED BY <4>2, <4>3, <4>4
      <3> QED BY <1>14, <1>19, <3>1, <3>2
    <2> QED BY <1>13, <1>19, <2>2, <2>3
  \* What a leader knows of j moved on an acknowledgement, or is as it was.
  <1>20. ASSUME state'[i] = Leader, match_idx'[i][j] # 0
         PROVE  /\ current_term'[i] = current_term[i]
                /\ \/ state[i] = Leader /\ match_idx[i][j] > 0
                   \/ /\ 1 \in 1..Len(r) /\ Has(r, r[1]) /\ IsAck(r[1])
                      /\ r[1].term = current_term[i]
    <2>1. current_term'[i] = current_term[i]
      BY <1>20 DEF StateStep
    <2>2. CASE state[i] = Leader /\ match_idx'[i][j] = match_idx[i][j]
      BY <1>1, <1>8, <1>20, <2>1, <2>2
    <2>3. CASE Arrived(i, j, "AER") /\ IsAck(Head(chan[j][i])) /\ Head(chan[j][i]).term = current_term[i]
      <3>1. r # <<>>
        BY <2>3 DEF Arrived, r
      <3>2. 1 \in 1..Len(r) /\ Head(r) = r[1]
        BY <1>1, <3>1, SeqNonEmpty
      <3>3. IsAck(r[1]) /\ r[1].term = current_term[i]
        BY <2>3, <3>2 DEF r
      <3> QED BY <2>1, <3>2, <3>3 DEF Has
    <2> QED BY <1>20, <2>2, <2>3 DEF MatchStep
  <1>21. ASSUME NEW m, Has(qq, m), m.type = "AE", state'[i] = Leader, match_idx'[i][j] # 0
         PROVE  current_term'[i] <= m.term
    <2>1. CASE m.term = current_term'[i]
      BY <1>1, <1>8, <2>1
    <2>2. CASE Has(q, m)
      BY <1>7, <1>20, <1>21, <2>2 DEF AcksBehind, q, r
    <2> QED BY <1>13, <1>21, <2>1, <2>2
  <1>22. AcksBehind(i, j)'
    <2>1. match_idx'[i][j] > 0 => match_idx'[i][j] # 0
      BY SMT, <1>1
    <2> QED BY <1>19, <1>21, <2>1 DEF AcksBehind, qq, rr, Has, IsAck
  \* NacksFirst
  <1>23. ASSUME NEW n \in 1..Len(rr), IsNack(rr[n])
         PROVE  Short(rr[n], leader_log') \/ ComesFirst(i, j, n)'
    <2>1. n \in Nat /\ rr[n].type = "AER" /\ ~rr[n].success /\ rr[n].term \in Nat
      BY <1>2, <1>3, <1>8, <1>23 DEF IsNack
    <2> SUFFICES ASSUME ~Short(rr[n], leader_log')
                 PROVE  /\ \A k \in 1..Len(rr) : k < n /\ IsAck(rr[k]) => rr[k].term # rr[n].term
                        /\ state'[i] = Leader /\ current_term'[i] = rr[n].term => match_idx'[i][j] = 0
      BY DEF ComesFirst, rr, IsAck
    \* It was on its way before.
    <2>2. ASSUME NEW a \in 1..Len(r), a = n + e, rr[n] = r[a]
          PROVE  /\ \A k \in 1..Len(rr) : k < n /\ IsAck(rr[k]) => rr[k].term # rr[n].term
                 /\ state'[i] = Leader /\ current_term'[i] = rr[n].term => match_idx'[i][j] = 0
      <3>1. ~Short(r[a], leader_log)
        <4>1. ASSUME Short(r[a], leader_log) PROVE FALSE
          <5>1. PICK t \in DOMAIN leader_log : t = r[a].term /\ r[a].current_idx < Len(leader_log[t])
            BY <4>1 DEF Short
          <5>2. t \in DOMAIN leader_log' /\ Len(leader_log[t]) <= Len(leader_log'[t])
            BY DEF ReignStep, Grown, Agree
          <5>3. Len(leader_log[t]) \in Nat /\ Len(leader_log'[t]) \in Nat
            BY <5>2, BothTypes, SeqLength DEF IsHistory
          <5>4. r[a].current_idx \in Nat
            <6>1. PICK m \in Message : m = r[a] /\ m.type = "AER"
              BY <1>1, <2>1, <2>2, SeqElement
            <6>2. m.current_idx \in Nat
              BY <6>1 DEF Message
            <6> QED BY <6>1, <6>2
          <5>5. r[a].current_idx < Len(leader_log'[t])
            BY SMT, <5>1, <5>2, <5>3, <5>4
          <5> QED BY <2>2, <5>1, <5>2, <5>5 DEF Short
        <4> QED BY <4>1
      <3>2. ComesFirst(i, j, a)
        BY <1>7, <1>23, <2>2, <3>1 DEF NacksFirst, r
      <3>3. a \in Nat /\ a <= Len(r)
        BY <1>2, <1>8
      <3>4. ASSUME NEW k \in 1..Len(rr), k < n, IsAck(rr[k]) PROVE rr[k].term # rr[n].term
        <4>1. k \in Nat
          BY <1>2, <1>8
        <4>2. ~(k + e > Len(r)) /\ k + e < a
          BY ZenonT(30), <1>2, <1>8, <2>1, <2>2, <3>3, <3>4, <4>1
        <4>3. PICK b \in 1..Len(r) : b = k + e /\ rr[k] = r[b]
          BY <1>12, <3>4, <4>2 DEF IsAck
        <4> QED BY <2>2, <3>2, <3>4, <4>2, <4>3 DEF ComesFirst, r
      <3>5. ASSUME state'[i] = Leader, current_term'[i] = rr[n].term, match_idx'[i][j] # 0 PROVE FALSE
        <4>1. current_term[i] = r[a].term
          BY <1>20, <2>2, <3>5
        <4>2. CASE state[i] = Leader /\ match_idx[i][j] > 0
          <5>1. match_idx[i][j] = 0
            BY <3>2, <4>1, <4>2 DEF ComesFirst, r
          <5> QED BY SMT, <4>2, <5>1
        <4>3. CASE 1 \in 1..Len(r) /\ IsAck(r[1]) /\ r[1].term = current_term[i]
          <5>1. a # 1
            BY <1>23, <2>2, <4>3 DEF IsAck, IsNack
          <5>2. 1 < a
            BY <1>2, <1>8, <5>1
          <5> QED BY <3>2, <4>1, <4>3, <5>2 DEF ComesFirst, r
        <4> QED BY <1>20, <3>5, <4>2, <4>3
      <3> QED BY <3>4, <3>5
    \* j sends it now, on an AppendEntries of an older term.
    <2>3. ASSUME Answers(j, i, rr[n])
          PROVE  /\ \A k \in 1..Len(rr) : k < n /\ IsAck(rr[k]) => rr[k].term # rr[n].term
                 /\ state'[i] = Leader /\ current_term'[i] = rr[n].term => match_idx'[i][j] = 0
      <3>1. Arrived(j, i, "AE") /\ Head(chan[i][j]).term < rr[n].term
        BY <2>1, <2>3 DEF Answers
      <3>2. /\ Has(q, q[1]) /\ q[1].type = "AE" /\ q[1].term \in Nat /\ q[1].term < rr[n].term
        BY <1>9, <3>1 DEF q
      <3>3. \A x : Has(r, x) /\ IsAck(x) => x.term <= q[1].term /\ x.term \in Nat
        BY <1>7, <1>10, <3>2 DEF AcksBehind, q, r
      <3>4. ASSUME NEW k \in 1..Len(rr), IsAck(rr[k]) PROVE rr[k].term # rr[n].term
        <4>1. Has(rr, rr[k])
          BY DEF Has
        <4>2. Has(r, rr[k]) \/ rr[k].term = q[1].term
          BY <1>14, <3>4, <4>1
        <4>3. rr[k].term <= q[1].term /\ rr[k].term \in Nat
          BY <1>8, <3>2, <3>3, <3>4, <4>2
        <4> QED BY SMT, <2>1, <3>2, <4>3
      <3>5. ASSUME state'[i] = Leader, current_term'[i] = rr[n].term, match_idx'[i][j] # 0 PROVE FALSE
        <4>1. current_term[i] = rr[n].term
          BY <1>20, <3>5
        <4>2. CASE state[i] = Leader /\ match_idx[i][j] > 0
          <5>1. current_term[i] <= q[1].term
            BY <1>7, <3>2, <4>2 DEF AcksBehind, q
          <5> QED BY SMT, <2>1, <3>2, <4>1, <5>1
        <4>3. CASE Has(r, r[1]) /\ IsAck(r[1]) /\ r[1].term = current_term[i]
          <5>1. r[1].term <= q[1].term /\ r[1].term \in Nat
            BY <3>3, <4>3
          <5> QED BY SMT, <2>1, <3>2, <4>1, <4>3, <5>1
        <4> QED BY <1>20, <3>5, <4>2, <4>3
      <3> QED BY <3>4, <3>5
    <2> QED BY <1>12, <2>1, <2>2, <2>3
  <1>24. NacksFirst(i, j)'
    BY <1>23 DEF NacksFirst, rr, IsNack, Short
  <1> QED BY <1>18, <1>22, <1>24
=============================================================================
