---------------------------- MODULE AsyncClient -----------------------------
(***************************************************************************)
(* The asynchronous client of core/dispatch_client.cpp.  One thread sends  *)
(* with make_rpc_async, up to max_inflight calls at a time; another, the   *)
(* listener, learns of the calls through the ring to_lstnr, takes answers  *)
(* and runs the callbacks, with REP_TIMEDOUT for calls that wait too long. *)
(* A call is named by its channel_seq.                                     *)
(***************************************************************************)
EXTENDS Integers, Sequences, FiniteSets

CONSTANTS
    max_inflight,
    PKT_BURST,      \* answers taken at a time
    MaxCalls,       \* bound: calls
    MaxLost,        \* bound: packets lost
    MaxJunk         \* bound: packets that are no answers

\* What the code takes for granted of the window.
WindowFormed == max_inflight \in Nat \ {0} /\ MaxCalls \in Nat

VARIABLES
    channel_aseq,      \* the next channel_seq
    sender,            \* where the sending thread is in make_rpc_async
    msg_inflight,
    to_lstnr,          \* the ring: calls the listener does not know of
    pendresponse_map,  \* the calls the listener waits for
    listener,          \* where the listener is in its loop
    pkt_array,         \* the answers of the burst at hand
    sent, answers,     \* packets on their way
    gangs,             \* the calls for several cores
    executed,          \* the calls a server has executed
    callbacks,         \* per call: the results its callback was run with
    lost, junk

callVars == <<channel_aseq, gangs>>
netVars == <<sent, executed, lost, junk>>
vars == <<callVars, sender, msg_inflight, to_lstnr, pendresponse_map, listener, pkt_array,
          answers, callbacks, netVars>>

Made == 0..(channel_aseq - 1)   \* the calls made so far

Init ==
    /\ channel_aseq = 0 /\ sender = "idle" /\ msg_inflight = 0 /\ to_lstnr = {}
    /\ pendresponse_map = {} /\ listener = "drain" /\ pkt_array = {}
    /\ sent = {} /\ answers = {} /\ gangs = {} /\ executed = {} /\ lost = 0 /\ junk = 0
    /\ callbacks = [n \in 0..(MaxCalls - 1) |-> <<>>]

-----------------------------------------------------------------------------
(* make_rpc_async.                                                         *)

\* Slip: admission lets one more call through.
AdmitOneMore == 0 <= msg_inflight /\ msg_inflight <= max_inflight

\* get_inflight() >= max_inflight compares as unsigned: below zero is full.
Admit == 0 <= msg_inflight /\ msg_inflight < max_inflight

\* The context of the call goes to the listener before the packet leaves.
Enqueue ==
    /\ sender = "idle" /\ channel_aseq < MaxCalls
    /\ Admit
    /\ channel_aseq' = channel_aseq + 1
    /\ to_lstnr' = to_lstnr \cup {channel_aseq}
    /\ sender' = "tx"
    /\ UNCHANGED <<gangs, msg_inflight, pendresponse_map, listener, pkt_array, answers,
                   callbacks, netVars>>

\* For several cores nothing is sent, and the caller is told that all is well.
EnqueueGang ==
    /\ sender = "idle" /\ channel_aseq < MaxCalls
    /\ Admit
    /\ channel_aseq' = channel_aseq + 1
    /\ gangs' = gangs \cup {channel_aseq}
    /\ UNCHANGED <<sender, msg_inflight, to_lstnr, pendresponse_map, listener, pkt_array,
                   answers, callbacks, netVars>>

Tx ==
    /\ sender = "tx"
    /\ sent' = sent \cup {channel_aseq - 1}
    /\ sender' = "count"
    /\ UNCHANGED <<callVars, msg_inflight, to_lstnr, pendresponse_map, listener, pkt_array,
                   answers, callbacks, executed, lost, junk>>

\* add_inflight, when the answer may have been taken already.
Count ==
    /\ sender = "count"
    /\ msg_inflight' = msg_inflight + 1
    /\ sender' = "idle"
    /\ UNCHANGED <<callVars, to_lstnr, pendresponse_map, listener, pkt_array, answers,
                   callbacks, netVars>>

-----------------------------------------------------------------------------
(* The listener: exec of async_lstener_t.                                  *)

\* The order of the ring does not show: the map is ordered by channel_seq.
DrainOne(n) ==
    /\ listener = "drain" /\ n \in to_lstnr
    /\ pendresponse_map' = pendresponse_map \cup {n}
    /\ to_lstnr' = to_lstnr \ {n}
    /\ UNCHANGED <<callVars, sender, msg_inflight, listener, pkt_array, answers, callbacks,
                   netVars>>

DrainEnd ==
    /\ listener = "drain" /\ to_lstnr = {}
    /\ listener' = "rx"
    /\ UNCHANGED <<callVars, sender, msg_inflight, to_lstnr, pendresponse_map, pkt_array,
                   answers, callbacks, netVars>>

Rx ==
    /\ listener = "rx"
    /\ \E B \in SUBSET answers :
         /\ Cardinality(B) <= PKT_BURST /\ (B # answers => Cardinality(B) = PKT_BURST)
         /\ pkt_array' = B /\ answers' = answers \ B
    /\ listener' = "handle"
    /\ UNCHANGED <<callVars, sender, msg_inflight, to_lstnr, pendresponse_map, callbacks,
                   netVars>>

\* The callback of call n, which leaves the map and the window.
Complete(n, result) ==
    /\ callbacks' = [callbacks EXCEPT ![n] = Append(@, result)]
    /\ pendresponse_map' = pendresponse_map \ {n}
    /\ msg_inflight' = msg_inflight - 1

Found(n) ==
    /\ listener = "handle" /\ n \in pkt_array /\ n \in pendresponse_map
    /\ pkt_array' = pkt_array \ {n}
    /\ Complete(n, "success")
    /\ UNCHANGED <<callVars, sender, to_lstnr, listener, answers, netVars>>

\* The answer is dropped: its call has timed out, or is still on the ring.
NotFound(n) ==
    /\ listener = "handle" /\ n \in pkt_array /\ n \notin pendresponse_map
    /\ pkt_array' = pkt_array \ {n}
    /\ UNCHANGED <<callVars, sender, msg_inflight, to_lstnr, pendresponse_map, listener,
                   answers, callbacks, netVars>>

\* A packet that is no answer ends the listener.
Junk ==
    /\ listener = "handle" /\ junk < MaxJunk
    /\ junk' = junk + 1
    /\ listener' = "gone"
    /\ UNCHANGED <<callVars, sender, msg_inflight, to_lstnr, pendresponse_map, pkt_array,
                   answers, callbacks, sent, executed, lost>>

\* Slip: the scan for calls that have timed out is skipped.
HandleEndNoScan ==
    /\ listener = "handle" /\ pkt_array = {}
    /\ listener' = "drain"
    /\ UNCHANGED <<callVars, sender, msg_inflight, to_lstnr, pendresponse_map, pkt_array,
                   answers, callbacks, netVars>>

HandleEnd ==
    /\ listener = "handle" /\ pkt_array = {}
    /\ listener' = "scan"
    /\ UNCHANGED <<callVars, sender, msg_inflight, to_lstnr, pendresponse_map, pkt_array,
                   answers, callbacks, netVars>>

\* Call n has waited for async_timeout_msec.  The iterator is advanced after
\* its entry was erased: the scan goes on somewhere, ends, or the program does.
Expire(n) ==
    /\ listener = "scan" /\ n \in pendresponse_map
    /\ Complete(n, "timed_out")
    /\ listener' \in {"scan", "drain", "gone"}
    /\ UNCHANGED <<callVars, sender, to_lstnr, pkt_array, answers, netVars>>

ScanEnd ==
    /\ listener = "scan"
    /\ listener' = "drain"
    /\ UNCHANGED <<callVars, sender, msg_inflight, to_lstnr, pendresponse_map, pkt_array,
                   answers, callbacks, netVars>>

-----------------------------------------------------------------------------
(* The servers and the network.                                            *)

Serve(n) ==
    /\ n \in sent
    /\ sent' = sent \ {n} /\ answers' = answers \cup {n} /\ executed' = executed \cup {n}
    /\ UNCHANGED <<callVars, sender, msg_inflight, to_lstnr, pendresponse_map, listener,
                   pkt_array, callbacks, lost, junk>>

Lose(n) ==
    /\ lost < MaxLost /\ n \in sent \cup answers
    /\ lost' = lost + 1
    /\ sent' = sent \ {n} /\ answers' = answers \ {n}
    /\ UNCHANGED <<callVars, sender, msg_inflight, to_lstnr, pendresponse_map, listener,
                   pkt_array, callbacks, executed, junk>>

-----------------------------------------------------------------------------
Send == Tx \/ Count

Listen ==
    \/ DrainEnd \/ Rx \/ HandleEnd \/ ScanEnd
    \/ \E n \in to_lstnr : DrainOne(n)
    \/ \E n \in pkt_array : Found(n) \/ NotFound(n)

ExpireOne == \E n \in pendresponse_map : Expire(n)

Next ==
    \/ Enqueue \/ EnqueueGang \/ Send
    \/ Listen \/ Junk \/ ExpireOne
    \/ \E n \in sent : Serve(n)
    \/ \E n \in sent \cup answers : Lose(n)

Spec == Init /\ [][Next]_vars

\* Both threads run, and while calls keep waiting some scan finds one expired.
Fairness == WF_vars(Send) /\ WF_vars(Listen) /\ SF_vars(ExpireOne)

FairSpec == Spec /\ Fairness

-----------------------------------------------------------------------------
\* The calls whose callbacks have not run.
Outstanding == {n \in Made \ gangs : callbacks[n] = <<>>}

\* Never more than max_inflight calls wait for their callbacks, although
\* add_inflight comes after the packet and sub_inflight on another thread.  A
\* callback runs at most once, whichever of answer and timeout comes first, and
\* reports success only for a call that was executed.
CallsAccounted ==
    /\ Cardinality(Outstanding) <= max_inflight
    /\ \A n \in Made :
         /\ Len(callbacks[n]) <= 1
         /\ callbacks[n] = <<"success">> => n \in executed

\* Every call for one core gets its callback, even if its answer overtakes its
\* context and is dropped, unless the listener itself has gone.
CallbackRuns == []<>(Outstanding = {} \/ listener = "gone")
=============================================================================
