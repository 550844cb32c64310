----------------------------- MODULE Scheduler ------------------------------
(***************************************************************************)
(* Execution in builds with __COMMUTE: the monitor thread puts every       *)
(* operation of the log on the list of core/scheduler.hpp, hands those     *)
(* that commute with what is still unfinished to the executor threads      *)
(* (core/dispatcher.cpp), and frees what they have finished.               *)
(*                                                                         *)
(* Operations are numbered as they are added.  The list holds the newest   *)
(* first and next_schedule walks from the oldest to the newest, so a set   *)
(* and a number are enough for both.  The operations of one packet share   *)
(* one wal_entry, which lies in front of the packet; a wal is named by the *)
(* first operation of its packet.  An operation is for one core; what exec *)
(* leaves in core_status for the rendezvous and for checkpoints is not     *)
(* kept here.                                                              *)
(***************************************************************************)
EXTENDS Integers, Sequences, FiniteSets

CONSTANTS
    Kind,                      \* what an operation does
    Commutes,                  \* op_callback: <<later, earlier>> kinds that commute
    executor_threads,
    max_sched_buffer_length,
    MaxOps,                    \* bound: operations ever added
    MaxBatch                   \* operations chained in one packet (CHAIN_SZ)

ASSUME SchedulerAssumption ==
    /\ {executor_threads, max_sched_buffer_length, MaxBatch} \subseteq Nat \ {0}
    /\ MaxOps \in Nat
    /\ Commutes \subseteq Kind \X Kind

VARIABLES
    kinds, wal,       \* per operation: its kind and its wal
    arriving,         \* of the packet at hand: how many operations are left to add
    listed,           \* the operations on the list
    next_schedule,    \* the operation it points to; past the last one: head
    rb_counter,
    to_cores,         \* per executor: the ring of operations
    running,          \* per executor: the operation it is at, 0 if none
    rep, marked,      \* the fields of each wal
    done,             \* the operations that have been executed
    monitor           \* what the monitor thread is at

opVars == <<kinds, wal, arriving>>
listVars == <<listed, next_schedule, rb_counter>>
coreVars == <<to_cores, running, done>>
vars == <<opVars, listVars, coreVars, rep, marked, monitor>>

GC_IN_USE == 0
GC_READY == 1

Core == 0..(executor_threads - 1)
Added == 1..Len(kinds)

Init ==
    /\ kinds = <<>> /\ wal = <<>> /\ arriving = [left |-> 0, wal |-> 0, rep |-> "none"]
    /\ listed = {} /\ next_schedule = 1 /\ rb_counter = 0
    /\ to_cores = [c \in Core |-> <<>>] /\ running = [c \in Core |-> 0]
    /\ rep = <<>> /\ marked = <<>>
    /\ done = {} /\ monitor = "handlers"

-----------------------------------------------------------------------------
(* The monitor thread.                                                     *)

\* __raft_logentry_offer_batch comes to a packet of n operations.
OfferPacket(n) ==
    /\ monitor = "handlers" /\ arriving.left = 0 /\ Len(kinds) + n <= MaxOps
    /\ arriving' = [left |-> n, wal |-> Len(kinds) + 1, rep |-> "unknown"]
    /\ UNCHANGED <<kinds, wal, listVars, coreVars, rep, marked, monitor>>

\* accept of a read-only or a stable request, a packet of its own that raft
\* never sees.
AcceptReadOnly ==
    /\ monitor = "handlers" /\ arriving.left = 0 /\ Len(kinds) < MaxOps
    /\ arriving' = [left |-> 1, wal |-> Len(kinds) + 1, rep |-> "none"]
    /\ UNCHANGED <<kinds, wal, listVars, coreVars, rep, marked, monitor>>

\* scheduler_t::add of the next operation of the packet.  The caller spins
\* while the list is full.
add ==
    /\ arriving.left > 0
    /\ Cardinality(listed) < max_sched_buffer_length
    /\ \E k \in Kind : kinds' = Append(kinds, k)
    /\ wal' = Append(wal, arriving.wal)
    /\ arriving' = [arriving EXCEPT !.left = @ - 1]
    /\ listed' = listed \cup {Len(kinds) + 1}
    /\ rep' = Append(rep, arriving.rep)
    /\ marked' = [Append(marked, GC_IN_USE) EXCEPT ![arriving.wal] = GC_IN_USE]
    /\ UNCHANGED <<next_schedule, rb_counter, coreVars, monitor>>

\* __applylog notifies the executors of the oldest entry left.
Applylog ==
    /\ monitor = "handlers" /\ arriving.left = 0
    /\ \E w \in Added : /\ w = wal[w] /\ rep[w] = "unknown"
                        /\ \A v \in 1..(w - 1) : v = wal[v] => rep[v] # "unknown"
                        /\ rep' = [rep EXCEPT ![w] = "success"]
    /\ UNCHANGED <<opVars, listVars, coreVars, marked, monitor>>

\* __raft_logentry_pop fails the newest one.
LogentryPop ==
    /\ monitor = "handlers" /\ arriving.left = 0
    /\ \E w \in Added : /\ w = wal[w] /\ rep[w] = "unknown"
                        /\ \A v \in (w + 1)..Len(wal) : v = wal[v] => rep[v] # "unknown"
                        /\ rep' = [rep EXCEPT ![w] = "failed"]
    /\ UNCHANGED <<opVars, listVars, coreVars, marked, monitor>>

\* The monitor's loop comes to the scheduler.
StartSchedule ==
    /\ monitor = "handlers" /\ arriving.left = 0
    /\ monitor' = "schedule"
    /\ UNCHANGED <<opVars, listVars, coreVars, rep, marked>>

\* Slip: the walk over the older operations stops one short of the tail.
ReadyButOldest(o) ==
    \A p \in listed : p < o /\ (\E q \in listed : q < p) =>
        marked[wal[p]] = GC_READY \/ <<kinds[o], kinds[p]>> \in Commutes

\* Operation o commutes with every older one on the list that is not marked.
Ready(o) ==
    \A p \in listed : p < o => marked[wal[p]] = GC_READY \/ <<kinds[o], kinds[p]>> \in Commutes

\* Slip: the walk over the new operations goes on past the head.
ScheduleBeyondHead ==
    /\ monitor = "schedule"
    /\ Ready(next_schedule)
    /\ to_cores' = [to_cores EXCEPT ![rb_counter] = Append(@, next_schedule)]
    /\ rb_counter' = (rb_counter + 1) % executor_threads
    /\ next_schedule' = next_schedule + 1
    /\ UNCHANGED <<opVars, listed, running, done, rep, marked, monitor>>

\* schedule hands out the next operation.  Marks are only ever set while it
\* compares, so it may as well read them at once.  Of rb_counter only the
\* remainder is used.
schedule ==
    /\ monitor = "schedule"
    /\ next_schedule \in Added /\ Ready(next_schedule)
    /\ to_cores' = [to_cores EXCEPT ![rb_counter] = Append(@, next_schedule)]
    /\ rb_counter' = (rb_counter + 1) % executor_threads
    /\ next_schedule' = next_schedule + 1
    /\ UNCHANGED <<opVars, listed, running, done, rep, marked, monitor>>

\* The operations gc passes over: it starts behind next_schedule.
NotHandedOut == next_schedule..Len(kinds)

\* schedule returns: nothing is left, or the next operation has to wait.
ScheduleReturns ==
    /\ monitor = "schedule"
    /\ ~(next_schedule \in Added /\ Ready(next_schedule))
    /\ monitor' = "gc"
    /\ UNCHANGED <<opVars, listVars, coreVars, rep, marked>>

\* gc takes what is marked from the list and frees it.
gc ==
    /\ monitor = "gc"
    /\ listed' = {o \in listed : o \in NotHandedOut \/ marked[wal[o]] = GC_IN_USE}
    /\ monitor' = "handlers"
    /\ UNCHANGED <<opVars, next_schedule, rb_counter, coreVars, rep, marked>>

-----------------------------------------------------------------------------
(* The executors.                                                          *)

\* Slip: the wal is marked before the operation is executed.
MarkedFirst(c) ==
    /\ running[c] = 0 /\ to_cores[c] # <<>>
    /\ running' = [running EXCEPT ![c] = Head(to_cores[c])]
    /\ to_cores' = [to_cores EXCEPT ![c] = Tail(@)]
    /\ marked' = [marked EXCEPT ![wal[Head(to_cores[c])]] = GC_READY]
    /\ UNCHANGED <<opVars, listVars, done, rep, monitor>>

\* Executor c takes an operation from its ring.
Dequeue(c) ==
    /\ running[c] = 0 /\ to_cores[c] # <<>>
    /\ running' = [running EXCEPT ![c] = Head(to_cores[c])]
    /\ to_cores' = [to_cores EXCEPT ![c] = Tail(@)]
    /\ UNCHANGED <<opVars, listVars, done, rep, marked, monitor>>

\* Slip: an operation whose entry was given up leaves no mark.
MarkedOnSuccess(c) ==
    /\ running[c] # 0
    /\ rep[wal[running[c]]] # "unknown"
    /\ done' = done \cup {running[c]}
    /\ marked' = [marked EXCEPT ![wal[running[c]]] =
                     IF rep[wal[running[c]]] = "failed" THEN @ ELSE GC_READY]
    /\ running' = [running EXCEPT ![c] = 0]
    /\ UNCHANGED <<opVars, listVars, to_cores, rep, monitor>>

\* exec: waits for the entry to be applied or given up, runs the operation
\* or not, and marks the wal.
exec(c) ==
    /\ running[c] # 0
    /\ rep[wal[running[c]]] # "unknown"
    /\ done' = done \cup {running[c]}
    /\ marked' = [marked EXCEPT ![wal[running[c]]] = GC_READY]
    /\ running' = [running EXCEPT ![c] = 0]
    /\ UNCHANGED <<opVars, listVars, to_cores, rep, monitor>>

-----------------------------------------------------------------------------
Next ==
    \/ \E n \in 1..MaxBatch : OfferPacket(n)
    \/ AcceptReadOnly \/ add
    \/ Applylog \/ LogentryPop
    \/ StartSchedule \/ schedule \/ ScheduleReturns \/ gc
    \/ \E c \in Core : Dequeue(c) \/ exec(c)

Spec == Init /\ [][Next]_vars

\* The monitor's loop and the executors go on, and raft decides on every
\* entry: the handlers run again and again until it is applied or popped.
Fairness ==
    /\ WF_vars(add)
    /\ SF_vars(Applylog \/ LogentryPop)
    /\ WF_vars(StartSchedule) /\ WF_vars(schedule)
    /\ WF_vars(ScheduleReturns) /\ WF_vars(gc)
    /\ \A c \in Core : WF_vars(Dequeue(c)) /\ WF_vars(exec(c))

FairSpec == Spec /\ Fairness

-----------------------------------------------------------------------------
(* Properties.                                                             *)

\* The fields of the list, the wals and the rings have their types.
TypeOK ==
    /\ kinds \in Seq(Kind) /\ wal \in Seq(Nat) /\ Len(wal) = Len(kinds)
    /\ arriving \in [left : Nat, wal : Nat, rep : {"unknown", "none"}]
    /\ listed \subseteq Added /\ next_schedule \in 1..(Len(kinds) + 1)
    /\ rb_counter \in Core
    /\ to_cores \in [Core -> Seq(Added)] /\ running \in [Core -> Added \cup {0}]
    /\ rep \in Seq({"unknown", "success", "failed", "none"}) /\ Len(rep) = Len(kinds)
    /\ marked \in Seq({GC_IN_USE, GC_READY}) /\ Len(marked) = Len(kinds)
    /\ done \subseteq Added /\ monitor \in {"handlers", "schedule", "gc"}

\* Executor c runs the application: its operation need not wait for raft,
\* and its entry was not given up.
Executing(c) == running[c] # 0 /\ rep[wal[running[c]]] \in {"success", "none"}

\* Two operations that do not commute never run at once, nor does the later
\* one overtake: an operation runs when all it depends on has been executed
\* or given up.
ConflictsInOrder ==
    \A c \in Core : Executing(c) =>
        \A p \in 1..(running[c] - 1) :
            \/ <<kinds[running[c]], kinds[p]>> \in Commutes
            \/ p \in done \/ rep[wal[p]] = "failed"

\* "The mbuf should not be gc-ed before the completion": gc drops the packet
\* of an operation only after the operation has been executed.
GcAfterCompletion == Added \ listed \subseteq done

\* Handing out, queueing on several rings, waiting for raft and collecting
\* amount to executing the log up to swaps of operations that commute.
Order == INSTANCE CommuteOrder
ImplementsOrder == Order!Spec

\* Every operation that is added is executed, or given up with its entry:
\* none waits for ever for a mark that does not come.
EveryOperationRuns == \A o \in 1..MaxOps : (Len(kinds) >= o) ~> (o \in done)
=============================================================================
