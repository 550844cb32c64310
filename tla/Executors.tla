----------------------------- MODULE Executors ------------------------------
(***************************************************************************)
(* The executor threads of core/dispatcher.cpp and the rendezvous of       *)
(* core/cyclone.hpp at which they meet for a request that names several    *)
(* cores, in a build without __COMMUTE.  The monitor thread numbers the    *)
(* requests as it puts them on the rings to_cores, so a request's number   *)
(* stands for its wal_entry, its packet and its nonce, and a ring is the   *)
(* requests for its core that the core has not come to.  There is one      *)
(* quorum (num_quorums); core_status is read and written one access at a   *)
(* time, in the order of the code.                                         *)
(***************************************************************************)
EXTENDS Integers, Sequences, FiniteSets

CONSTANTS
    executor_threads,
    Requests,          \* what clients ask for: pairs of a kind and a core mask
    MaxRequests,       \* bound: requests ever handed out
    MaxOther,          \* bound: those among them that are not updates on several cores
    MaxTerm            \* bound: terms

Core == 0..(executor_threads - 1)

\* Requests are of the kinds there are, and a core mask names cores of the
\* server, one at least.
ASSUME RequestsFormed ==
    /\ executor_threads \in Nat
    /\ \A r \in Requests : /\ r[1] \in {"rw", "ro", "stable", "node", "kicker"}
                           /\ r[2] \subseteq Core /\ r[2] # {}

VARIABLES
    requests,      \* per request: kind, mask, term of the entry, wal->leader
    rep,           \* per request: wal->rep
    term, leads,   \* the server's snapshot: current term, leader bit
    core_status,
    thread,        \* per core: where its thread is, its request and its locals
    ran, skipped,  \* pairs of a request and a core: rpc_callback ran; it was given up
    replies,       \* the requests that were answered
    inflight       \* client_inflight, of the one client

serverVars == <<requests, rep, term, leads>>
outVars == <<ran, skipped, replies, inflight>>
vars == <<serverVars, core_status, thread, outVars>>

Request == 1..Len(requests)
IsMulticore(mask) == Cardinality(mask) > 1
First(mask) == CHOOSE c \in mask : \A d \in mask : c <= d
IsGang(kind, mask) == kind = "rw" /\ IsMulticore(mask)
Gang(o) == IsGang(requests[o].kind, requests[o].mask)
Logged(o) == requests[o].kind \in {"rw", "node", "kicker"}

\* The cores whose ring gets the request: accept puts a request that is not
\* logged on the ring of the first core only.
RingsOf(o) == IF Logged(o) THEN requests[o].mask ELSE {First(requests[o].mask)}

Init ==
    /\ requests = <<>> /\ rep = <<>> /\ term = 1 /\ leads = TRUE
    /\ core_status = [c \in Core |-> [exec_term |-> 0, checkpoint_idx |-> -1, stable |-> 0,
                                      nonce |-> 0, success |-> 0, barrier |-> <<{}, {}>>]]
    /\ thread = [c \in Core |-> [pc |-> "idle", request |-> 0, stable |-> 0,
                                 failed_mask |-> {}, success |-> 0]]
    /\ ran = {} /\ skipped = {} /\ replies = {} /\ inflight = 0

-----------------------------------------------------------------------------
(* The monitor thread.                                                     *)

\* A request is handed to its cores: accept for one that is not logged, the
\* offer of its entry for one that is.  The snapshot of terms in the request
\* is the current term, or accept has dropped it; wal->leader is set for
\* entries only, and is whatever the packet held for the others.
Issue(kind, mask, leader) ==
    /\ Len(requests) < MaxRequests
    /\ <<kind, mask>> \in Requests
    /\ ~IsGang(kind, mask) => Cardinality({o \in Request : ~Gang(o)}) < MaxOther
    /\ kind \in {"ro", "stable"} => leads
    /\ kind \in {"rw", "node", "kicker"} => leader = leads
    /\ requests' = Append(requests, [kind |-> kind, mask |-> mask, term |-> term,
                                     leader |-> leader])
    /\ rep' = Append(rep, IF kind \in {"ro", "stable"} THEN "none" ELSE "unknown")
    /\ inflight' = inflight + 1
    /\ UNCHANGED <<term, leads, core_status, thread, ran, skipped, replies>>

\* __applylog: the oldest entry left is committed.
Applylog ==
    /\ \E o \in Request :
         /\ rep[o] = "unknown" /\ \A p \in 1..(o - 1) : rep[p] # "unknown"
         /\ rep' = [rep EXCEPT ![o] = "success"]
    /\ UNCHANGED <<requests, term, leads, core_status, thread, outVars>>

\* A new term and publish_snapshot.  Entries from request o on that are not
\* committed are popped if another server's log replaces them.
NewTerm(o) ==
    /\ term < MaxTerm
    /\ term' = term + 1
    /\ leads' \in BOOLEAN
    /\ o \in 1..(Len(requests) + 1)
    /\ o <= Len(requests) => ~leads'
    /\ rep' = [p \in Request |-> IF p >= o /\ rep[p] = "unknown" THEN "failed" ELSE rep[p]]
    /\ UNCHANGED <<requests, core_status, thread, outVars>>

-----------------------------------------------------------------------------
(* An executor thread: operator() and exec.                                *)

At(c, pc) == thread[c].pc = pc
Goto(c, pc) == thread' = [thread EXCEPT ![c].pc = pc]
Mine(c) == requests[thread[c].request]
CoreLeader(c) == First(Mine(c).mask)
Leader(c) == core_status[CoreLeader(c)]

\* remove_inflight: for a request of several cores, by the first one only.
Retire(c) ==
    /\ thread' = [thread EXCEPT ![c] = [pc |-> "idle", request |-> @.request, stable |-> 0,
                                        failed_mask |-> {}, success |-> 0]]
    /\ inflight' = IF c = CoreLeader(c) THEN inflight - 1 ELSE inflight

\* Slip: whichever core has run the request answers.
ReplyAnyCore(c) ==
    replies' = IF Mine(c).leader /\ leads THEN replies \cup {thread[c].request} ELSE replies

\* client_reply, by the response core of a server that still leads.
Reply(c) ==
    replies' = IF CoreLeader(c) = c /\ Mine(c).leader /\ leads
               THEN replies \cup {thread[c].request} ELSE replies

GiveUp(c) ==
    /\ skipped' = skipped \cup {<<thread[c].request, c>>}
    /\ Retire(c)
    /\ UNCHANGED <<serverVars, core_status, ran, replies>>

\* do_multicore_redezvous, or straight to the callback.
Rendezvous(c, mask) ==
    IF ~IsMulticore(mask) THEN "run" ELSE IF c = First(mask) THEN "lead" ELSE "follow"

\* The next request of the ring is dequeued.
Dequeue(c) ==
    /\ At(c, "idle")
    /\ \E o \in Request :
         /\ o > thread[c].request /\ c \in RingsOf(o)
         /\ \A p \in (thread[c].request + 1)..(o - 1) : c \notin RingsOf(p)
         /\ thread' = [thread EXCEPT ![c].request = o,
                ![c].pc = CASE requests[o].kind = "ro" -> Rendezvous(c, requests[o].mask)
                            [] requests[o].kind = "stable" -> "stable"
                            [] OTHER -> "await"]
    /\ UNCHANGED <<serverVars, core_status, outVars>>

\* The answer to RPC_REQ_STABLE checks neither wal->leader nor the snapshot.
Stable(c) ==
    /\ At(c, "stable")
    /\ replies' = replies \cup {thread[c].request}
    /\ Retire(c)
    /\ UNCHANGED <<serverVars, core_status, ran, skipped>>

\* The spin on wal->rep ends with a failed entry.
AwaitFailed(c) ==
    /\ At(c, "await") /\ rep[thread[c].request] = "failed"
    /\ GiveUp(c)

Catchup(c) ==
    core_status' = [core_status EXCEPT ![c].exec_term =
                        IF @ < Mine(c).term THEN Mine(c).term ELSE @]

\* It ends with a committed one: the core takes over its term.
AwaitSuccess(c) ==
    /\ At(c, "await") /\ rep[thread[c].request] = "success"
    /\ Catchup(c)
    /\ \/ /\ Mine(c).kind = "rw"
          /\ Goto(c, Rendezvous(c, Mine(c).mask))
          /\ UNCHANGED <<replies, inflight>>
       \/ /\ Mine(c).kind = "node" /\ Reply(c) /\ Retire(c)
       \/ /\ Mine(c).kind = "kicker" /\ Retire(c) /\ UNCHANGED replies
    /\ UNCHANGED <<serverVars, ran, skipped>>

\* exec_rpc_internal and exec_rpc_internal_ro after the rendezvous.
Run(c) ==
    /\ At(c, "run")
    /\ ran' = ran \cup {<<thread[c].request, c>>}
    /\ core_status' = IF Logged(thread[c].request)
                      THEN [core_status EXCEPT ![c].checkpoint_idx = thread[c].request]
                      ELSE core_status
    /\ Goto(c, "reply")
    /\ UNCHANGED <<serverVars, skipped, replies, inflight>>

Answer(c) ==
    /\ At(c, "reply")
    /\ Reply(c) /\ Retire(c)
    /\ UNCHANGED <<serverVars, core_status, ran, skipped>>

-----------------------------------------------------------------------------
(* wait_barrier_leader, on the first core of the mask.                     *)

Write(c, status) == core_status' = [core_status EXCEPT ![c] = status]

\* __sync_fetch_and_or of the barrier word i in the status of core l.
Or(l, i, cores) == core_status' = [core_status EXCEPT ![l].barrier[i] = @ \cup cores]

LeadOpen(c) ==
    /\ At(c, "lead")
    /\ Write(c, [core_status[c] EXCEPT !.stable = @ + 1])
    /\ Goto(c, "nonce")
    /\ UNCHANGED <<serverVars, outVars>>

LeadNonce(c) ==
    /\ At(c, "nonce")
    /\ Write(c, [core_status[c] EXCEPT !.nonce = thread[c].request])
    /\ Goto(c, "reset")
    /\ UNCHANGED <<serverVars, outVars>>

\* Slip: the words of the barrier keep what the last rendezvous left there.
LeadResetHalf(c) ==
    /\ At(c, "reset")
    /\ Write(c, [core_status[c] EXCEPT !.success = 1])
    /\ Goto(c, "close")
    /\ UNCHANGED <<serverVars, outVars>>

\* The plain stores: no follower looks at them while stable is odd.
LeadReset(c) ==
    /\ At(c, "reset")
    /\ Write(c, [core_status[c] EXCEPT !.success = 1, !.barrier = <<{}, {}>>])
    /\ Goto(c, "close")
    /\ UNCHANGED <<serverVars, outVars>>

LeadClose(c) ==
    /\ At(c, "close")
    /\ Write(c, [core_status[c] EXCEPT !.stable = @ + 1])
    /\ thread' = [thread EXCEPT ![c].pc = "enter", ![c].failed_mask = {}]
    /\ UNCHANGED <<serverVars, outVars>>

LeadEnter(c) ==
    /\ At(c, "enter")
    /\ Or(c, 1, {c})
    /\ Goto(c, "gather")
    /\ UNCHANGED <<serverVars, outVars>>

LeadGather(c) ==
    /\ At(c, "gather")
    /\ Goto(c, IF core_status[c].barrier[1] = Mine(c).mask THEN "leave" ELSE "check")
    /\ UNCHANGED <<serverVars, core_status, outVars>>

\* The cores of the mask that have executed an entry of a later term than the
\* snapshot in the request.  The request's entry is of that term, as accept
\* compares the snapshot with the term under which the entry is appended.
check_terms(c) == {d \in Mine(c).mask : Mine(c).term < core_status[d].exec_term}

LeadCheck(c) ==
    /\ At(c, "check")
    /\ thread' = [thread EXCEPT ![c].failed_mask = check_terms(c),
                                ![c].pc = IF check_terms(c) = {} THEN "gather" ELSE "fail"]
    /\ UNCHANGED <<serverVars, core_status, outVars>>

LeadFail(c) ==
    /\ At(c, "fail")
    /\ Write(c, [core_status[c] EXCEPT !.success = 0])
    /\ Goto(c, "excuse")
    /\ UNCHANGED <<serverVars, outVars>>

LeadExcuse(c) ==
    /\ At(c, "excuse")
    /\ Or(c, 1, thread[c].failed_mask)
    /\ Goto(c, "gather")
    /\ UNCHANGED <<serverVars, outVars>>

LeadLeave(c) ==
    /\ At(c, "leave")
    /\ Or(c, 2, {c})
    /\ Goto(c, "release")
    /\ UNCHANGED <<serverVars, outVars>>

LeadRelease(c) ==
    /\ At(c, "release")
    /\ Or(c, 2, thread[c].failed_mask)
    /\ Goto(c, "part")
    /\ UNCHANGED <<serverVars, outVars>>

\* Slip: the leader core does not wait for the others to leave the barrier.
LeadPartEarly(c) ==
    /\ At(c, "part")
    /\ \/ thread[c].failed_mask # {} /\ GiveUp(c)
       \/ /\ thread[c].failed_mask = {} /\ Goto(c, "run")
          /\ UNCHANGED <<serverVars, core_status, outVars>>

LeadPart(c) ==
    /\ At(c, "part") /\ core_status[c].barrier[2] = Mine(c).mask
    /\ \/ thread[c].failed_mask # {} /\ GiveUp(c)
       \/ /\ thread[c].failed_mask = {} /\ Goto(c, "run")
          /\ UNCHANGED <<serverVars, core_status, outVars>>

-----------------------------------------------------------------------------
(* wait_barrier_follower, on the other cores.                              *)

FollowTerm(c) ==
    /\ At(c, "follow")
    /\ \/ Leader(c).exec_term > Mine(c).term /\ GiveUp(c)
       \/ /\ Leader(c).exec_term <= Mine(c).term /\ Goto(c, "stable?")
          /\ UNCHANGED <<serverVars, core_status, outVars>>

FollowStable(c) ==
    /\ At(c, "stable?")
    /\ thread' = [thread EXCEPT ![c].stable = Leader(c).stable,
                                ![c].pc = IF Leader(c).stable % 2 = 1 THEN "follow" ELSE "nonce?"]
    /\ UNCHANGED <<serverVars, core_status, outVars>>

FollowNonce(c) ==
    /\ At(c, "nonce?")
    /\ Goto(c, IF Leader(c).nonce # thread[c].request THEN "follow" ELSE "again?")
    /\ UNCHANGED <<serverVars, core_status, outVars>>

FollowAgain(c) ==
    /\ At(c, "again?")
    /\ Goto(c, IF Leader(c).stable # thread[c].stable THEN "follow" ELSE "join")
    /\ UNCHANGED <<serverVars, core_status, outVars>>

FollowJoin(c) ==
    /\ At(c, "join")
    /\ Or(CoreLeader(c), 1, {c})
    /\ Goto(c, "meet")
    /\ UNCHANGED <<serverVars, outVars>>

FollowMeet(c) ==
    /\ At(c, "meet") /\ Leader(c).barrier[1] = Mine(c).mask
    /\ Goto(c, "verdict")
    /\ UNCHANGED <<serverVars, core_status, outVars>>

FollowVerdict(c) ==
    /\ At(c, "verdict")
    /\ thread' = [thread EXCEPT ![c].success = Leader(c).success, ![c].pc = "away"]
    /\ UNCHANGED <<serverVars, core_status, outVars>>

FollowAway(c) ==
    /\ At(c, "away")
    /\ Or(CoreLeader(c), 2, {c})
    /\ IF thread[c].success = 0
       THEN /\ skipped' = skipped \cup {<<thread[c].request, c>>}
            /\ Retire(c)
       ELSE Goto(c, "run") /\ UNCHANGED <<skipped, inflight>>
    /\ UNCHANGED <<serverVars, ran, replies>>

-----------------------------------------------------------------------------
Lead(c) ==
    \/ LeadOpen(c) \/ LeadNonce(c) \/ LeadReset(c) \/ LeadClose(c) \/ LeadEnter(c)
    \/ LeadGather(c) \/ LeadCheck(c) \/ LeadFail(c) \/ LeadExcuse(c)
    \/ LeadLeave(c) \/ LeadRelease(c) \/ LeadPart(c)

Follow(c) ==
    \/ FollowTerm(c) \/ FollowStable(c) \/ FollowNonce(c) \/ FollowAgain(c)
    \/ FollowJoin(c) \/ FollowMeet(c) \/ FollowVerdict(c) \/ FollowAway(c)

Execute(c) ==
    \/ Dequeue(c) \/ Stable(c) \/ AwaitFailed(c) \/ AwaitSuccess(c) \/ Run(c) \/ Answer(c)
    \/ Lead(c) \/ Follow(c)

Monitor ==
    \/ \E r \in Requests, leader \in BOOLEAN : Issue(r[1], r[2], leader)
    \/ Applylog
    \/ \E o \in 1..(MaxRequests + 1) : NewTerm(o)

Next == Monitor \/ \E c \in Core : Execute(c)

Spec == Init /\ [][Next]_vars

\* Every core runs its own thread; the entries are committed in the end.
Fairness == WF_vars(Applylog) /\ \A c \in Core : WF_vars(Execute(c))

FairSpec == Spec /\ Fairness

-----------------------------------------------------------------------------
\* A request of several cores that is answered is given up on none of them: the
\* leader core answers, and it runs the request only if it has told no other
\* core to give it up (wait_barrier_leader, wait_barrier_follower).
AnsweredRunsOnAll ==
    \A o \in Request : Gang(o) /\ o \in replies =>
        \A c \in requests[o].mask : <<o, c>> \notin skipped

\* No core runs a request of several cores before all of them have come to it,
\* although the barrier's words are used over and over; and they all run it or
\* all give it up, unless one of them has gone on to a later term while the
\* leader core was still between its test of the barrier and check_terms.
AgreeUnlessOvertaken ==
    \A o \in Request : Gang(o) =>
        /\ \A c, d \in requests[o].mask : <<o, c>> \in ran => thread[d].request >= o
        /\ \/ \A c \in requests[o].mask : <<o, c>> \notin ran
           \/ \A c \in requests[o].mask : <<o, c>> \notin skipped
           \/ \E c \in requests[o].mask : core_status[c].exec_term > requests[o].term

\* Every thread comes to the end of its ring, no thread waits in a rendezvous
\* for ever, and the client's admission counter returns to zero.
Drained ==
    /\ inflight = 0
    /\ \A c \in Core : At(c, "idle") /\ \A o \in Request : c \in RingsOf(o) => o <= thread[c].request
=============================================================================
