------------------------------- MODULE MCRaft -------------------------------
(***************************************************************************)
(* Instances of Raft for TLC.                                              *)
(*                                                                         *)
(* Servers are interchangeable (ServerSymmetry).  Two views leave out the  *)
(* state that neither a later step nor the run's invariants read.          *)
(*                                                                         *)
(* VoteState, for the invariants on votes: without the votes of followers, *)
(* the indices of servers that are not leader, last_applied_idx (it only   *)
(* follows commit_idx), log_base (what it makes a server skip is checked   *)
(* to be irrelevant by SkippedEntriesAgree) and what a packet other than a *)
(* vote says that arrives too late to matter.                              *)
(*                                                                         *)
(* LiveState, for the invariants on logs and indices: without the votes of *)
(* leaders, whom a server voted for (only whether it did is tested) and    *)
(* the contents of late votes as well.                                     *)
(***************************************************************************)
EXTENDS RaftInv, TLC

ServerSymmetry == Permutations(Server)

\* Server i will do the same with m whatever m says.
Dead(m, i) ==
    \/ m.term < current_term[i]
    \/ /\ m.term = current_term[i]
       /\ \/ m.type = "RV" /\ voted_for[i] # Nil
          \/ m.type = "RVR" /\ ~(state[i] = Candidate /\ m.vote_granted)
          \/ m.type = "AER" /\ state[i] = Follower

LivePacket(m, i) == IF Dead(m, i) THEN m.type ELSE m

Indices(i) == IF state[i] = Leader THEN <<next_idx[i], match_idx[i], snapshot[i]>> ELSE <<>>

VoteState ==
    <<current_term, voted_for, state, log, commit_idx, lost,
      [i \in Server |-> IF state[i] # Follower THEN voted_for_me[i] ELSE {}],
      [i \in Server |-> Indices(i)],
      [j \in Server |-> [i \in Server |->
          [n \in DOMAIN chan[j][i] |->
              LET m == chan[j][i][n] IN IF m.type = "RVR" THEN m ELSE LivePacket(m, i)]]]>>

LiveState ==
    <<current_term, [i \in Server |-> voted_for[i] = Nil], state, log, commit_idx, lost,
      [i \in Server |-> IF state[i] = Candidate THEN voted_for_me[i] ELSE {}],
      [i \in Server |-> Indices(i)],
      [j \in Server |-> [i \in Server |->
          [n \in DOMAIN chan[j][i] |-> LivePacket(chan[j][i][n], i)]]]>>

(***************************************************************************)
(* A later starting point: one server has won the first election with the  *)
(* votes of all, everybody knows, and nothing is under way.                *)
(***************************************************************************)
CONSTANT FirstLeader

InitLed ==
    /\ current_term = [i \in Server |-> 1]
    /\ voted_for = [i \in Server |-> FirstLeader]
    /\ state = [i \in Server |-> IF i = FirstLeader THEN Leader ELSE Follower]
    /\ voted_for_me = [i \in Server |-> IF i = FirstLeader THEN Peers(i) ELSE {}]
    /\ log = [i \in Server |-> <<>>]
    /\ commit_idx = [i \in Server |-> 0]
    /\ last_applied_idx = [i \in Server |-> 0]
    /\ log_base = [i \in Server |-> 0]
    /\ next_idx = [i \in Server |-> [k \in Server |-> 1]]
    /\ match_idx = [i \in Server |-> [k \in Server |-> 0]]
    /\ snapshot = [i \in Server |-> 0]
    /\ chan = [i \in Server |-> [k \in Server |-> <<>>]]
    /\ lost = 0
    /\ leader_log = [t \in {1} |-> <<>>]
    /\ acked = {<<FirstLeader, 1, 0>>}

SpecLed == InitLed /\ [][Next]_vars
FairSpecLed == SpecLed /\ Fairness
PeerSymmetry == Permutations(Peers(FirstLeader))
=============================================================================
