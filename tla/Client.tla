------------------------------- MODULE Client -------------------------------
(***************************************************************************)
(* The blocking client of core/dispatch_client.cpp: make_rpc, add_node and *)
(* delete_node send a request to the server they believe to lead, and send *)
(* it again under a new channel_seq whenever no answer comes in time;      *)
(* update_server asks one server after the other whether it leads.  The    *)
(* servers are what the client can see of them: the checks of accept       *)
(* (core/cyclone_context.hpp), the entries made of requests, and the       *)
(* replies of the executors (core/dispatcher.cpp).  The network loses and  *)
(* reorders packets.  Calls are updates or changes of membership, which go *)
(* through the log; read-only ones are left out.                           *)
(*                                                                         *)
(* A channel_seq is only ever compared with the last one given out, so a   *)
(* packet, an entry or an answer carries whether it is "last": that of the *)
(* last packet the client sent.                                            *)
(***************************************************************************)
EXTENDS Integers, FiniteSets

CONSTANTS
    replicas,       \* number of servers
    MaxCalls,       \* bound: calls the application makes
    MaxTerm,        \* bound: terms
    MaxLost,        \* bound: packets lost
    MaxEarly        \* bound: timeouts that beat an answer still on its way

Server == 0..(replicas - 1)

VARIABLES
    server, terms,        \* fields of rpc_client_t
    client,               \* where the client's thread is
    call, returned,       \* calls made so far; calls that have returned
    sent, answers,        \* packets on their way to the servers, to the client
    current_term, leads,  \* per server: its term, the leader bit of its snapshot
    log,                  \* entries that are neither committed nor popped
    executed,             \* the calls that were executed, by one attempt or more
    lost, early

clientVars == <<server, terms, client, call, returned>>
serverVars == <<current_term, leads, executed>>
vars == <<clientVars, sent, answers, serverVars, log, lost, early>>

\* cyclone_client_init goes straight into update_server.
Init ==
    /\ server = 0 /\ terms = 0 /\ client = "find" /\ call = 0 /\ returned = {}
    /\ sent = {} /\ answers = {} /\ log = {} /\ executed = {}
    /\ current_term = [s \in Server |-> 1]
    /\ leads = [s \in Server |-> s = 0]
    /\ lost = 0 /\ early = 0

-----------------------------------------------------------------------------
(* The client.                                                             *)

Outdated(S) == {[m EXCEPT !.last = FALSE] : m \in S}

\* A packet under the next channel_seq.
send_to_server(s, kind) ==
    /\ sent' = Outdated(sent) \cup {[to |-> s, kind |-> kind, quorum_term |-> terms,
                                     call |-> call, last |-> TRUE]}
    /\ answers' = Outdated(answers)
    /\ log' = Outdated(log)

\* Slip: the same server is asked again and again.
UpdateServerSame ==
    /\ client = "find"
    /\ send_to_server(server, "stable")
    /\ client' = "found?"
    /\ UNCHANGED <<server, terms, call, returned, serverVars, lost, early>>

\* An iteration of update_server: set_server asks the next server.
UpdateServer ==
    /\ client = "find"
    /\ server' = (server + 1) % replicas
    /\ send_to_server(server', "stable")
    /\ client' = "found?"
    /\ UNCHANGED <<terms, call, returned, serverVars, lost, early>>

Call ==
    /\ client = "idle" /\ call < MaxCalls
    /\ call' = call + 1
    /\ client' = "send"
    /\ UNCHANGED <<server, terms, returned, sent, answers, serverVars, log, lost, early>>

\* An iteration of make_rpc, add_node or delete_node.
Send ==
    /\ client = "send"
    /\ send_to_server(server, "rpc")
    /\ client' = "answer?"
    /\ UNCHANGED <<server, terms, call, returned, serverVars, lost, early>>

\* Slip: any answer is taken for the one to the last packet.
AnyAnswer(m) == TRUE

\* packet_in->channel_seq == channel_seq - 1
Matches(m) == m.last

\* common_receive_loop drops what is not the answer to the last packet.
Drop(m) ==
    /\ client \in {"found?", "answer?"} /\ m \in answers /\ ~Matches(m)
    /\ answers' = answers \ {m}
    /\ UNCHANGED <<clientVars, sent, serverVars, log, lost, early>>

\* set_server has its answer; the leader bit of the snapshot is shifted out.
SetServer(m) ==
    /\ client = "found?" /\ m \in answers /\ Matches(m)
    /\ answers' = answers \ {m}
    /\ terms' = m.snapshot \div 2
    /\ client' = IF call \in returned \cup {0} THEN "idle" ELSE "send"
    /\ UNCHANGED <<server, call, returned, sent, serverVars, log, lost, early>>

\* The call has its answer.  No server sends RPC_REP_FAIL.
Return(m) ==
    /\ client = "answer?" /\ m \in answers /\ Matches(m)
    /\ answers' = answers \ {m}
    /\ client' = "idle"
    /\ returned' = returned \cup {call}
    /\ UNCHANGED <<server, terms, call, sent, serverVars, log, lost, early>>

\* The last packet, its entry or its answer is still under way.
UnderWay == \E m \in sent \cup answers \cup log : m.last

\* cyclone_rx_timeout gives up: the answer will not come, or comes late.
Timeout ==
    /\ client \in {"found?", "answer?"}
    /\ UnderWay => early < MaxEarly
    /\ early' = IF UnderWay THEN early + 1 ELSE early
    /\ client' = "find"
    /\ UNCHANGED <<server, terms, call, returned, sent, answers, serverVars, log, lost>>

-----------------------------------------------------------------------------
(* The servers and the network.                                            *)

Newest == CHOOSE t \in {current_term[s] : s \in Server} : \A s \in Server : current_term[s] <= t

\* accept: a stable request is answered by a server that believes it leads,
\* with its snapshot (current_term << 1) + 1.
AcceptStable(m) ==
    /\ m \in sent /\ m.kind = "stable"
    /\ sent' = sent \ {m}
    /\ answers' = IF leads[m.to]
                  THEN answers \cup {[snapshot |-> 2 * current_term[m.to] + 1, last |-> m.last]}
                  ELSE answers
    /\ UNCHANGED <<clientVars, serverVars, log, lost, early>>

\* accept: the term the client knows must be the server's, and
\* raft_recv_entry_batch refuses where the server does not lead.  "held": the
\* leader of the newest term has the entry.
AcceptRpc(m) ==
    /\ m \in sent /\ m.kind = "rpc"
    /\ sent' = sent \ {m}
    /\ log' = IF m.quorum_term = current_term[m.to] /\ leads[m.to]
              THEN log \cup {[at |-> m.to, call |-> m.call, last |-> m.last,
                              held |-> m.quorum_term = Newest]}
              ELSE log
    /\ UNCHANGED <<clientVars, answers, serverVars, lost, early>>

\* An entry is committed and executed.  The server that accepted the request
\* replies if it leads.
Commit(e) ==
    /\ e \in log /\ e.held
    /\ log' = log \ {e}
    /\ executed' = executed \cup {e.call}
    /\ answers' = IF leads[e.at] /\ current_term[e.at] = Newest
                  THEN answers \cup {[snapshot |-> 0, last |-> e.last]} ELSE answers
    /\ UNCHANGED <<clientVars, sent, current_term, leads, lost, early>>

Pop(e) ==
    /\ e \in log /\ ~e.held
    /\ log' = log \ {e}
    /\ UNCHANGED <<clientVars, sent, answers, serverVars, lost, early>>

\* Server s becomes the leader of a new term; it may have any entry that is not
\* committed.  The others do not know yet.
Elect(s) ==
    /\ Newest < MaxTerm
    /\ current_term' = [current_term EXCEPT ![s] = Newest + 1]
    /\ leads' = [leads EXCEPT ![s] = TRUE]
    /\ \E H \in SUBSET log : log' = {[e EXCEPT !.held = e \in H] : e \in log}
    /\ UNCHANGED <<clientVars, sent, answers, executed, lost, early>>

Learn(s) ==
    /\ current_term[s] < Newest
    /\ current_term' = [current_term EXCEPT ![s] = Newest]
    /\ leads' = [leads EXCEPT ![s] = FALSE]
    /\ UNCHANGED <<clientVars, sent, answers, executed, log, lost, early>>

Lose(m) ==
    /\ lost < MaxLost
    /\ lost' = lost + 1
    /\ m \in sent \cup answers
    /\ sent' = sent \ {m} /\ answers' = answers \ {m}
    /\ UNCHANGED <<clientVars, serverVars, log, early>>

-----------------------------------------------------------------------------
Thread ==
    \/ UpdateServer \/ Send \/ Timeout
    \/ \E m \in answers : Drop(m) \/ SetServer(m) \/ Return(m)

Accept == \E m \in sent : AcceptStable(m) \/ AcceptRpc(m)
Resolve == \E e \in log : Commit(e) \/ Pop(e)
LearnTerm == \E s \in Server : Learn(s)

Next ==
    \/ Thread \/ Call \/ Accept \/ Resolve \/ LearnTerm
    \/ \E s \in Server : Elect(s)
    \/ \E m \in sent \cup answers : Lose(m)

Spec == Init /\ [][Next]_vars

\* The client's thread runs, packets that are not lost arrive, entries are
\* committed or popped, and servers hear of a newer term.
Fairness ==
    /\ WF_vars(Thread) /\ WF_vars(Accept) /\ WF_vars(Resolve) /\ WF_vars(LearnTerm)

FairSpec == Spec /\ Fairness

-----------------------------------------------------------------------------
\* A call returns only after it was executed: a late answer to an earlier
\* attempt, to an earlier call or to set_server is never taken for its own
\* (common_receive_loop).
ReturnedWasExecuted == returned \subseteq executed

\* Every call returns, although leaders change without notice, answers are lost
\* and the client may know an old term (make_rpc, update_server).
CallsReturn == []<>(client = "idle")
=============================================================================
