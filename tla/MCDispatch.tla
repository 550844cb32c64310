----------------------------- MODULE MCDispatch -----------------------------
(***************************************************************************)
(* The executors and the client library for TLC.  The three modules share  *)
(* no state, so a behaviour is one of one of them: "part" says which, and  *)
(* the states of the run are the sum of theirs.                            *)
(***************************************************************************)
EXTENDS Executors

CONSTANTS max_inflight, PKT_BURST, MaxCalls, MaxLost, MaxJunk,
          replicas, SyncCalls, SyncTerms, SyncLost, MaxEarly

VARIABLES
    part,
    channel_aseq, sender, msg_inflight, to_lstnr, pendresponse_map, listener, pkt_array, sent,
    answers, gangs, executed, callbacks, lost, junk,
    server, terms, client, call, returned, toServers, toClient, current_term, leading, log, done,
    dropped, early

Async == INSTANCE AsyncClient

Sync == INSTANCE Client WITH
    MaxCalls <- SyncCalls, MaxTerm <- SyncTerms, MaxLost <- SyncLost,
    sent <- toServers, answers <- toClient, executed <- done, lost <- dropped, leads <- leading

ASSUME WindowAssumption == Async!WindowFormed

\* Requests for one core and for both.  One that is read-only and for several
\* cores is left out: accept puts it on the ring of the first core only, which
\* then waits for the others for ever.
SomeRequests ==
    {"rw"} \X {{0, 1}, {1}} \cup
    {<<"kicker", {0, 1}>>, <<"ro", {1}>>, <<"node", {0}>>, <<"stable", {0}>>}

asyncVars == <<channel_aseq, sender, msg_inflight, to_lstnr, pendresponse_map, listener, pkt_array,
               sent, answers, gangs, executed, callbacks, lost, junk>>
syncVars == <<server, terms, client, call, returned, toServers, toClient, current_term, leading,
              log, done, dropped, early>>
allVars == <<part, vars, asyncVars, syncVars>>

MCInit ==
    /\ part \in {"sync", "async", "exec"}
    /\ Init /\ Async!Init /\ Sync!Init

SyncOnly == part = "sync" /\ UNCHANGED <<part, vars, asyncVars>>
AsyncOnly == part = "async" /\ UNCHANGED <<part, vars, syncVars>>
ExecOnly == part = "exec" /\ UNCHANGED <<part, asyncVars, syncVars>>

MCNext ==
    \/ SyncOnly /\ Sync!Next
    \/ AsyncOnly /\ Async!Next
    \/ ExecOnly /\ Next

\* The fairness of each module.  A behaviour stays in its part, so that fairness
\* of a disjunction of actions of different parts is fairness of each.
MCFairness ==
    /\ WF_allVars(\/ SyncOnly /\ Sync!Thread
                  \/ AsyncOnly /\ Async!Send
                  \/ ExecOnly /\ Applylog)
    /\ WF_allVars(\/ SyncOnly /\ Sync!Accept
                  \/ AsyncOnly /\ Async!Listen
                  \/ ExecOnly /\ Execute(0))
    /\ WF_allVars(\/ SyncOnly /\ Sync!Resolve
                  \/ ExecOnly /\ Execute(1))
    /\ WF_allVars(SyncOnly /\ Sync!LearnTerm)
    /\ SF_allVars(AsyncOnly /\ Async!ExpireOne)

MCSpec == MCInit /\ [][MCNext]_allVars /\ MCFairness

\* AsyncClient: the window is kept and every callback runs at most once.
CallsAccounted == Async!CallsAccounted

\* Client: a call returns only after it was executed.
ReturnedWasExecuted == Sync!ReturnedWasExecuted

\* Client: every call returns.
CallsReturn == []<>(part = "sync" => client = "idle")

\* AsyncClient: every call gets its callback, or the listener has gone.
CallbacksRun == []<>(part = "async" => Async!Outstanding = {} \/ listener = "gone")

\* Executors: every ring is drained, no thread waits in a rendezvous for ever.
RingsDrain == []<>(part = "exec" => Drained)
=============================================================================
