-------------------------- MODULE SchedulerProofs ---------------------------
(***************************************************************************)
(* Scheduler, for any number of operations and executors and any rules of  *)
(* commutation: its types, and, when a packet holds one operation, that    *)
(* operations in conflict keep the order of the log.                       *)
(***************************************************************************)
EXTENDS Scheduler, SequenceTheorems, TLAPS

-----------------------------------------------------------------------------
(* Sequences.                                                              *)

\* Assigning to one place of a sequence.
Assigned(s, i, e) == [s EXCEPT ![i] = e]

\* Assigning one element of a sequence.
LEMMA AssignSeq ==
    ASSUME NEW S, NEW s \in Seq(S), NEW i, NEW e \in S
    PROVE  /\ Assigned(s, i, e) \in Seq(S)
           /\ Len(Assigned(s, i, e)) = Len(s)
           /\ \A n \in 1..Len(s) : n # i => Assigned(s, i, e)[n] = s[n]
           /\ i \in 1..Len(s) => Assigned(s, i, e)[i] = e
  <1>1. Len(s) \in Nat /\ s \in [1..Len(s) -> S]
    BY LenProperties
  <1>2. Assigned(s, i, e) \in [1..Len(s) -> S]
    BY <1>1 DEF Assigned
  <1>3. Assigned(s, i, e) \in Seq(S)
    BY <1>1, <1>2
  <1>4. DOMAIN Assigned(s, i, e) = 1..Len(s)
    BY <1>1 DEF Assigned
  <1>5. Len(Assigned(s, i, e)) = Len(s)
    BY <1>1, <1>3, <1>4, LenProperties
  <1> QED BY <1>1, <1>3, <1>5 DEF Assigned

\* Adding an element at the end.
LEMMA AppendSeq ==
    ASSUME NEW S, NEW s \in Seq(S), NEW e \in S
    PROVE  /\ Append(s, e) \in Seq(S) /\ Len(s) \in Nat
           /\ Len(Append(s, e)) = Len(s) + 1
           /\ \A n \in 1..Len(s) : Append(s, e)[n] = s[n]
           /\ Append(s, e)[Len(s) + 1] = e
  BY LenProperties

\* A remainder names an executor.
LEMMA RingExists ==
    ASSUME NEW n \in Nat
    PROVE  n % executor_threads \in Core
  BY SchedulerAssumption DEF Core

-----------------------------------------------------------------------------
(* Types.                                                                  *)

\* Initially every variable has its type ...
LEMMA TypeInit == Init => TypeOK
  <1> SUFFICES ASSUME Init PROVE TypeOK
    OBVIOUS
  <1>1. 0 \in Core
    BY SchedulerAssumption DEF Core
  <1>2. Added = 1..0
    BY DEF Init, Added
  <1>3. to_cores \in [Core -> Seq(Added)] /\ running \in [Core -> Added \cup {0}]
    BY DEF Init
  <1> QED BY <1>1, <1>2, <1>3 DEF Init, TypeOK

\* ... and every step keeps it.
LEMMA TypeStep == TypeOK /\ [Next]_vars => TypeOK'
  <1> SUFFICES ASSUME TypeOK, [Next]_vars PROVE TypeOK'
    OBVIOUS
  <1>0. Len(kinds) \in Nat
    BY LenProperties DEF TypeOK
  <1>1. ASSUME NEW n \in 1..MaxBatch, OfferPacket(n) PROVE TypeOK'
    BY SMTT(20), <1>0, <1>1, SchedulerAssumption DEF OfferPacket, TypeOK, Added, listVars, coreVars
  <1>2. CASE AcceptReadOnly
    BY <1>0, <1>2 DEF AcceptReadOnly, TypeOK, Added, listVars, coreVars
  <1>3. CASE add
    <2>1. PICK k \in Kind : kinds' = Append(kinds, k)
      BY <1>3 DEF add
    <2>2. kinds' \in Seq(Kind) /\ Len(kinds') = Len(kinds) + 1
      BY <2>1, AppendSeq DEF TypeOK
    <2>3. Added \subseteq Added' /\ Len(kinds) + 1 \in Added'
      BY <1>0, <2>2 DEF Added
    <2>4. wal' \in Seq(Nat) /\ Len(wal') = Len(kinds')
      BY <1>3, <2>2, AppendSeq DEF add, TypeOK
    <2>5. arriving' \in [left : Nat, wal : Nat, rep : {"unknown", "none"}]
      <3>1. arriving.left \in Nat /\ arriving.left > 0
        BY <1>3 DEF add, TypeOK
      <3>2. arriving.left - 1 \in Nat
        BY <3>1
      <3>3. arriving' = [arriving EXCEPT !.left = arriving.left - 1]
        BY <1>3 DEF add
      <3> QED BY <3>2, <3>3 DEF TypeOK
    <2>6. /\ rep' \in Seq({"unknown", "success", "failed", "none"})
          /\ Len(rep') = Len(kinds')
      <3>1. arriving.rep \in {"unknown", "success", "failed", "none"}
        BY DEF TypeOK
      <3> QED BY SMTT(20), <1>3, <2>2, <3>1, AppendSeq DEF add, TypeOK
    <2>7. marked' \in Seq({GC_IN_USE, GC_READY}) /\ Len(marked') = Len(kinds')
      <3> DEFINE longer == Append(marked, GC_IN_USE)
      <3>1. longer \in Seq({GC_IN_USE, GC_READY}) /\ Len(longer) = Len(kinds')
        BY <2>2, AppendSeq DEF TypeOK
      <3>2. marked' = Assigned(longer, arriving.wal, GC_IN_USE)
        BY <1>3 DEF add, Assigned
      <3> HIDE DEF longer
      <3> QED BY <3>1, <3>2, AssignSeq
    <2>8. listed' \subseteq Added' /\ done' \subseteq Added'
      BY <1>3, <2>3 DEF add, coreVars, TypeOK
    <2>9. next_schedule' \in 1..(Len(kinds') + 1) /\ rb_counter' \in Core
      BY <1>0, <1>3, <2>2 DEF add, TypeOK
    <2>10. to_cores' \in [Core -> Seq(Added')] /\ running' \in [Core -> Added' \cup {0}]
      <3>1. \A s \in Seq(Added) : s \in Seq(Added')
        BY <2>3, SeqMonotonic
      <3> QED BY <1>3, <2>3, <3>1 DEF add, coreVars, TypeOK
    <2> QED BY <1>3, <2>2, <2>4, <2>5, <2>6, <2>7, <2>8, <2>9, <2>10 DEF add, TypeOK
  <1>4. CASE Applylog
    <2>1. PICK w \in Added : rep' = [rep EXCEPT ![w] = "success"]
      BY <1>4 DEF Applylog
    <2>2. /\ rep' \in Seq({"unknown", "success", "failed", "none"})
          /\ Len(rep') = Len(rep)
      <3>1. /\ rep \in Seq({"unknown", "success", "failed", "none"})
            /\ "success" \in {"unknown", "success", "failed", "none"}
        BY DEF TypeOK
      <3>2. rep' = Assigned(rep, w, "success")
        BY <2>1 DEF Assigned
      <3> QED BY <3>1, <3>2, AssignSeq
    <2> QED BY <1>4, <2>2 DEF Applylog, TypeOK, Added, opVars, listVars, coreVars
  <1>5. CASE LogentryPop
    <2>1. PICK w \in Added : rep' = [rep EXCEPT ![w] = "failed"]
      BY <1>5 DEF LogentryPop
    <2>2. /\ rep' \in Seq({"unknown", "success", "failed", "none"})
          /\ Len(rep') = Len(rep)
      <3>1. /\ rep \in Seq({"unknown", "success", "failed", "none"})
            /\ "failed" \in {"unknown", "success", "failed", "none"}
        BY DEF TypeOK
      <3>2. rep' = Assigned(rep, w, "failed")
        BY <2>1 DEF Assigned
      <3> QED BY <3>1, <3>2, AssignSeq
    <2> QED BY <1>5, <2>2 DEF LogentryPop, TypeOK, Added, opVars, listVars, coreVars
  <1>6. CASE StartSchedule \/ ScheduleReturns
    BY <1>6 DEF StartSchedule, ScheduleReturns, TypeOK, Added, opVars, listVars, coreVars
  <1>7. CASE schedule
    <2>1. to_cores' \in [Core -> Seq(Added)]
      <3>1. Append(to_cores[rb_counter], next_schedule) \in Seq(Added)
        BY <1>7, AppendSeq DEF schedule, TypeOK
      <3> QED BY <1>7, <3>1 DEF schedule, TypeOK
    <2>2. rb_counter' \in Core
      BY <1>7, RingExists, SchedulerAssumption DEF schedule, TypeOK, Core
    <2>3. next_schedule' \in 1..(Len(kinds) + 1)
      BY <1>0, <1>7 DEF schedule, Added
    <2> QED BY <1>7, <2>1, <2>2, <2>3 DEF schedule, TypeOK, Added, opVars
  <1>8. CASE gc
    BY <1>8 DEF gc, TypeOK, Added, opVars, coreVars
  <1>9. ASSUME NEW c \in Core, Dequeue(c) PROVE TypeOK'
    <2>1. Head(to_cores[c]) \in Added /\ Tail(to_cores[c]) \in Seq(Added)
      BY <1>9, HeadTailProperties DEF Dequeue, TypeOK
    <2> QED BY <1>9, <2>1 DEF Dequeue, TypeOK, Added, opVars, listVars
  <1>10. ASSUME NEW c \in Core, exec(c) PROVE TypeOK'
    <2>1. marked' \in Seq({GC_IN_USE, GC_READY}) /\ Len(marked') = Len(marked)
      <3>1. marked \in Seq({GC_IN_USE, GC_READY}) /\ marked' = Assigned(marked, wal[running[c]], GC_READY)
        BY <1>10 DEF exec, TypeOK, Assigned
      <3> QED BY <3>1, AssignSeq
    <2>2. running[c] \in Added
      BY <1>10 DEF exec, TypeOK
    <2> QED BY <1>10, <2>1, <2>2 DEF exec, TypeOK, Added, opVars, listVars
  <1>11. CASE UNCHANGED vars
    BY <1>11 DEF vars, opVars, listVars, coreVars, TypeOK, Added
  <1> QED BY <1>1, <1>2, <1>3, <1>4, <1>5, <1>6, <1>7, <1>8, <1>9, <1>10, <1>11 DEF Next

\* The list, the rings and the wals keep their types, whatever the packets
\* hold: next_schedule never leaves the list and rb_counter names a ring.
THEOREM TypeCorrect == Spec => []TypeOK
  BY TypeInit, TypeStep, PTL DEF Spec

-----------------------------------------------------------------------------
(* Order, when a packet holds one operation.                               *)

\* A packet holds one operation, so a mark tells that operation's end; and
\* an operation handed out only has others behind it that it commutes with
\* or that have been executed.
SingleInv ==
    /\ arriving.left \in {0, 1}
    /\ arriving.left = 1 => arriving.wal = Len(kinds) + 1
    /\ \A o \in Added : wal[o] = o
    /\ \A o \in Added : marked[o] = GC_READY => o \in done
    /\ \A o \in Added : o \in listed \/ o \in done
    /\ \A c \in Core : running[c] < next_schedule
    /\ \A c \in Core : \A n \in 1..Len(to_cores[c]) : to_cores[c][n] < next_schedule
    /\ \A o \in 1..(next_schedule - 1) : \A p \in 1..(o - 1) :
           <<kinds[o], kinds[p]>> \in Commutes \/ p \in done

\* Nothing is listed or handed out initially.
LEMMA SingleInit == Init => SingleInv
  <1> SUFFICES ASSUME Init PROVE SingleInv
    OBVIOUS
  <1>1. Added = {} /\ 1..(next_schedule - 1) = {}
    BY DEF Init, Added
  <1>2. \A c \in Core : to_cores[c] = <<>> /\ running[c] = 0
    BY DEF Init
  <1>3. \A c \in Core : 1..Len(to_cores[c]) = {}
    BY <1>2
  <1> QED BY <1>1, <1>2, <1>3 DEF Init, SingleInv

\* With one operation per packet every step keeps the invariant.
LEMMA SingleStep ==
    ASSUME MaxBatch = 1, TypeOK, TypeOK', SingleInv, [Next]_vars
    PROVE  SingleInv'
  <1>0. Len(kinds) \in Nat /\ next_schedule \in Nat
    BY LenProperties DEF TypeOK
  <1>1. ASSUME NEW n \in 1..MaxBatch, OfferPacket(n) PROVE SingleInv'
    <2>1. arriving' = [left |-> 1, wal |-> Len(kinds) + 1, rep |-> "unknown"]
      BY <1>1 DEF OfferPacket
    <2> QED BY <1>1, <2>1 DEF OfferPacket, SingleInv, Added, listVars, coreVars
  <1>2. CASE AcceptReadOnly
    BY <1>2 DEF AcceptReadOnly, SingleInv, Added, listVars, coreVars
  <1>3. CASE add
    <2> DEFINE new == Len(kinds) + 1
    <2>1. PICK k \in Kind : kinds' = Append(kinds, k)
      BY <1>3 DEF add
    <2>2. arriving.left = 1 /\ arriving.wal = new
      BY <1>3 DEF add, SingleInv
    <2>3. Added' = Added \cup {new} /\ new \notin Added
      <3>1. Len(kinds') = new
        BY <2>1, AppendSeq DEF TypeOK
      <3>2. Added' = 1..new
        BY <3>1 DEF Added
      <3> QED BY <1>0, <3>2 DEF Added
    <2>4. arriving'.left = 0
      <3>1. arriving' = [arriving EXCEPT !.left = arriving.left - 1]
        BY <1>3 DEF add
      <3>2. arriving \in [left : Nat, wal : Nat, rep : {"unknown", "none"}]
        BY DEF TypeOK
      <3>3. arriving'.left = arriving.left - 1
        BY <3>1, <3>2
      <3> QED BY <2>2, <3>3
    <2>5. \A o \in Added' : wal'[o] = o
      <3>1. wal' = Append(wal, new) /\ Len(wal) = Len(kinds)
        BY <1>3, <2>2 DEF add, TypeOK
      <3> QED BY SMTT(20), <1>0, <2>3, <3>1, AppendSeq DEF TypeOK, SingleInv, Added
    <2>6. \A o \in Added' : marked'[o] = GC_READY => o \in done
      <3> DEFINE longer == Append(marked, GC_IN_USE)
      <3>1. marked' = Assigned(longer, new, GC_IN_USE)
        BY <1>3, <2>2 DEF add, Assigned
      <3>2. marked \in Seq({GC_IN_USE, GC_READY}) /\ Len(marked) = Len(kinds)
        BY DEF TypeOK
      <3>3. /\ longer \in Seq({GC_IN_USE, GC_READY}) /\ Len(longer) = Len(marked) + 1
            /\ \A o \in 1..Len(marked) : longer[o] = marked[o]
        BY <3>2, AppendSeq
      <3> HIDE DEF longer, new
      <3>4. /\ \A o \in 1..Len(longer) : o # new => marked'[o] = longer[o]
            /\ new \in 1..Len(longer) => marked'[new] = GC_IN_USE
        BY <3>1, <3>3, AssignSeq
      <3>5. /\ \A o \in Added : o \in 1..Len(longer) /\ o # new
            /\ new \in 1..Len(longer)
        BY <1>0, <3>2, <3>3 DEF Added, new
      <3>6. /\ \A o \in Added : marked'[o] = marked[o]
            /\ marked'[new] # GC_READY
        BY <3>2, <3>3, <3>4, <3>5 DEF Added, GC_IN_USE, GC_READY
      <3> QED BY Zenon, <2>3, <3>6 DEF SingleInv
    <2>7. \A o \in Added' : o \in listed' \/ o \in done
      BY <1>3, <2>3 DEF add, SingleInv
    <2>8. \A o \in 1..(next_schedule - 1) : \A p \in 1..(o - 1) :
              <<kinds'[o], kinds'[p]>> \in Commutes \/ p \in done
      <3>1. \A o \in 1..(next_schedule - 1) : o \in 1..Len(kinds)
        BY <1>0 DEF TypeOK
      <3>2. \A o \in 1..Len(kinds) : kinds'[o] = kinds[o]
        BY <2>1, AppendSeq DEF TypeOK
      <3> SUFFICES ASSUME NEW o \in 1..(next_schedule - 1), NEW p \in 1..(o - 1)
                   PROVE  <<kinds'[o], kinds'[p]>> \in Commutes \/ p \in done
        OBVIOUS
      <3>3. p \in 1..(next_schedule - 1)
        BY <1>0
      <3> QED BY <3>1, <3>2, <3>3 DEF SingleInv
    <2>9. UNCHANGED <<to_cores, running, done, next_schedule>>
      BY <1>3 DEF add, coreVars
    <2> QED BY <2>4, <2>5, <2>6, <2>7, <2>8, <2>9 DEF SingleInv
  <1>4. CASE Applylog
    BY <1>4 DEF Applylog, SingleInv, Added, opVars, listVars, coreVars
  <1>5. CASE LogentryPop
    BY <1>5 DEF LogentryPop, SingleInv, Added, opVars, listVars, coreVars
  <1>6. CASE StartSchedule \/ ScheduleReturns
    BY <1>6 DEF StartSchedule, ScheduleReturns, SingleInv, Added, opVars, listVars, coreVars
  <1>7. CASE schedule
    <2>1. next_schedule \in Added /\ next_schedule' = next_schedule + 1
      BY <1>7 DEF schedule
    <2>2. \A p \in 1..(next_schedule - 1) :
              <<kinds[next_schedule], kinds[p]>> \in Commutes \/ p \in done
      <3> SUFFICES ASSUME NEW p \in 1..(next_schedule - 1), p \notin done
                   PROVE  <<kinds[next_schedule], kinds[p]>> \in Commutes
        OBVIOUS
      <3>1. p \in Added /\ p < next_schedule
        BY <1>0, <2>1 DEF Added
      <3>2. p \in listed /\ wal[p] = p /\ marked[p] # GC_READY
        BY <3>1 DEF SingleInv
      <3> QED BY <1>7, <3>1, <3>2 DEF schedule, Ready
    <2>3. \A o \in 1..(next_schedule' - 1) : \A p \in 1..(o - 1) :
              <<kinds[o], kinds[p]>> \in Commutes \/ p \in done
      <3>1. \A o \in 1..(next_schedule' - 1) : o \in 1..(next_schedule - 1) \/ o = next_schedule
        BY <1>0, <2>1
      <3> QED BY <2>2, <3>1 DEF SingleInv
    <2>4. \A c \in Core : \A n \in 1..Len(to_cores'[c]) : to_cores'[c][n] < next_schedule'
      <3> SUFFICES ASSUME NEW c \in Core, NEW n \in 1..Len(to_cores'[c])
                   PROVE  to_cores'[c][n] < next_schedule'
        OBVIOUS
      <3>1. to_cores[c] \in Seq(Added) /\ rb_counter \in Core /\ to_cores \in [Core -> Seq(Added)]
        BY DEF TypeOK
      <3>2. \A m \in 1..Len(to_cores[c]) : to_cores[c][m] \in Nat /\ to_cores[c][m] < next_schedule
        BY <3>1, ElementOfSeq DEF SingleInv, Added
      <3>3. CASE c = rb_counter
        <4>1. to_cores'[c] = Append(to_cores[c], next_schedule)
          BY <1>7, <3>1, <3>3 DEF schedule
        <4>2. /\ Len(to_cores'[c]) = Len(to_cores[c]) + 1 /\ Len(to_cores[c]) \in Nat
              /\ \A m \in 1..Len(to_cores[c]) : to_cores'[c][m] = to_cores[c][m]
              /\ to_cores'[c][Len(to_cores[c]) + 1] = next_schedule
          BY <2>1, <3>1, <4>1, AppendSeq
        <4>3. n \in 1..Len(to_cores[c]) \/ n = Len(to_cores[c]) + 1
          BY <4>2
        <4> QED BY <1>0, <2>1, <3>2, <4>2, <4>3
      <3>4. CASE c # rb_counter
        <4>1. to_cores'[c] = to_cores[c]
          BY <1>7, <3>1, <3>4 DEF schedule
        <4> QED BY <1>0, <2>1, <3>2, <4>1
      <3> QED BY <3>3, <3>4
    <2>5. \A c \in Core : running[c] < next_schedule'
      <3> SUFFICES ASSUME NEW c \in Core PROVE running[c] < next_schedule'
        OBVIOUS
      <3>1. running[c] \in Int /\ running[c] < next_schedule
        BY DEF SingleInv, TypeOK, Added
      <3> QED BY <1>0, <2>1, <3>1
    <2> QED BY <1>7, <2>3, <2>4, <2>5 DEF schedule, SingleInv, Added, opVars
  <1>8. CASE gc
    <2>1. \A o \in Added : o \in listed' \/ o \in done
      <3> SUFFICES ASSUME NEW o \in Added, o \notin done PROVE o \in listed'
        OBVIOUS
      <3>1. o \in listed /\ wal[o] = o /\ marked[o] # GC_READY
        BY DEF SingleInv
      <3>2. marked[o] \in {GC_IN_USE, GC_READY}
        BY ElementOfSeq DEF TypeOK, Added
      <3> QED BY <1>8, <3>1, <3>2 DEF gc
    <2> QED BY <1>8, <2>1 DEF gc, SingleInv, Added, opVars, coreVars
  <1>9. ASSUME NEW c \in Core, Dequeue(c) PROVE SingleInv'
    <2>1. /\ to_cores[c] \in Seq(Added) /\ to_cores[c] # <<>>
          /\ to_cores \in [Core -> Seq(Added)] /\ running \in [Core -> Added \cup {0}]
      BY <1>9 DEF Dequeue, TypeOK
    <2>2. /\ Len(to_cores[c]) \in Nat \ {0} /\ Head(to_cores[c]) = to_cores[c][1]
          /\ Len(Tail(to_cores[c])) = Len(to_cores[c]) - 1
          /\ \A n \in 1..Len(Tail(to_cores[c])) : Tail(to_cores[c])[n] = to_cores[c][n + 1]
      BY <2>1, HeadTailProperties, EmptySeq
    <2>3. \A d \in Core : running'[d] < next_schedule
      <3>1. Head(to_cores[c]) < next_schedule
        BY <2>2 DEF SingleInv
      <3> QED BY <1>9, <2>1, <3>1 DEF Dequeue, SingleInv
    <2>4. \A d \in Core : \A n \in 1..Len(to_cores'[d]) : to_cores'[d][n] < next_schedule
      <3>1. \A n \in 1..Len(Tail(to_cores[c])) : Tail(to_cores[c])[n] < next_schedule
        <4> SUFFICES ASSUME NEW n \in 1..Len(Tail(to_cores[c]))
                     PROVE  to_cores[c][n + 1] < next_schedule
          BY <2>2
        <4>1. n + 1 \in 1..Len(to_cores[c])
          BY <2>2
        <4> QED BY <4>1 DEF SingleInv
      <3> QED BY <1>9, <2>1, <3>1 DEF Dequeue, SingleInv
    <2> QED BY <1>9, <2>3, <2>4 DEF Dequeue, SingleInv, Added, opVars, listVars
  <1>10. ASSUME NEW c \in Core, exec(c) PROVE SingleInv'
    <2>1. running[c] \in Added /\ wal[running[c]] = running[c]
      BY <1>10 DEF exec, TypeOK, SingleInv
    <2>2. \A o \in Added : o # running[c] => marked'[o] = marked[o]
      <3>1. marked \in Seq({GC_IN_USE, GC_READY}) /\ marked' = Assigned(marked, running[c], GC_READY)
        BY <1>10, <2>1 DEF exec, TypeOK, Assigned
      <3>2. Added = 1..Len(marked)
        BY DEF TypeOK, Added
      <3> QED BY <3>1, <3>2, AssignSeq
    <2>3. \A o \in Added : marked'[o] = GC_READY => o \in done'
      BY Zenon, <1>10, <2>2 DEF exec, SingleInv
    <2>4. \A d \in Core : running'[d] < next_schedule
      BY <1>10 DEF exec, SingleInv, TypeOK
    <2> QED BY <1>10, <2>3, <2>4 DEF exec, SingleInv, Added, opVars, listVars
  <1>11. CASE UNCHANGED vars
    BY <1>11 DEF vars, opVars, listVars, coreVars, SingleInv, Added
  <1> QED BY <1>1, <1>2, <1>3, <1>4, <1>5, <1>6, <1>7, <1>8, <1>9, <1>10, <1>11 DEF Next

\* The invariant holds in every state.
LEMMA SingleCorrect == ASSUME MaxBatch = 1 PROVE Spec => [](TypeOK /\ SingleInv)
  <1>1. Init => TypeOK /\ SingleInv
    BY TypeInit, SingleInit
  <1>2. TypeOK /\ SingleInv /\ [Next]_vars => (TypeOK /\ SingleInv)'
    BY TypeStep, SingleStep
  <1> QED BY <1>1, <1>2, PTL DEF Spec

\* What an executor is at has all it depends on executed.
LEMMA RunningInOrder ==
    ASSUME TypeOK, SingleInv, NEW c \in Core, running[c] # 0
    PROVE  \A p \in 1..(running[c] - 1) :
               <<kinds[running[c]], kinds[p]>> \in Commutes \/ p \in done
  <1>1. running[c] \in 1..(next_schedule - 1)
    <2>1. running[c] \in Added /\ next_schedule \in Nat /\ running[c] < next_schedule
      BY DEF TypeOK, SingleInv
    <2> QED BY <2>1 DEF Added
  <1> QED BY <1>1 DEF SingleInv

\* With one operation in a packet, the executors never run operations that
\* do not commute out of the order of the log.
THEOREM ConflictsKeepOrder == ASSUME MaxBatch = 1 PROVE Spec => []ConflictsInOrder
  <1>1. TypeOK /\ SingleInv => ConflictsInOrder
    BY RunningInOrder DEF ConflictsInOrder, Executing
  <1> QED BY <1>1, SingleCorrect, PTL

\* With one operation in a packet, gc frees none that is still to be executed.
THEOREM GcIsSafe == ASSUME MaxBatch = 1 PROVE Spec => []GcAfterCompletion
  <1>1. TypeOK /\ SingleInv => GcAfterCompletion
    BY DEF GcAfterCompletion, SingleInv
  <1> QED BY <1>1, SingleCorrect, PTL

\* With one operation in a packet, the list, the rings and the executors
\* implement execution in the order of the log up to commuting operations.
THEOREM SchedulerRefinement == ASSUME MaxBatch = 1 PROVE Spec => ImplementsOrder
  <1>1. Init => Order!Init
    BY DEF Init, Order!Init
  <1>2. ASSUME TypeOK, SingleInv, [Next]_vars
        PROVE  [Order!Next]_<<kinds, done>>
    <2>1. CASE add
      BY <1>2, <2>1 DEF add, coreVars, Order!Next, Order!Arrive
    <2>2. ASSUME NEW c \in Core, exec(c) PROVE [Order!Next]_<<kinds, done>>
      <3>1. running[c] \in 1..Len(kinds)
        BY <1>2, <2>2 DEF exec, TypeOK, Added
      <3>2. CASE running[c] \in done
        BY <2>2, <3>2 DEF exec, opVars
      <3>3. CASE running[c] \notin done
        <4>1. Order!Execute(running[c])
          BY <1>2, <2>2, RunningInOrder DEF exec, opVars, Order!Execute
        <4> QED BY <3>1, <3>3, <4>1 DEF Order!Next
      <3> QED BY <3>2, <3>3
    <2>3. CASE UNCHANGED <<kinds, done>>
      BY <2>3
    <2> QED
      BY <1>2, <2>1, <2>2, <2>3
      DEF Next, OfferPacket, AcceptReadOnly, Applylog, LogentryPop, StartSchedule, schedule,
          ScheduleReturns, gc, Dequeue, vars, opVars, listVars, coreVars
  <1>3. TypeOK /\ SingleInv /\ [Next]_vars => [Order!Next]_<<kinds, done>>
    BY <1>2
  <1> QED BY <1>1, <1>3, SingleCorrect, PTL DEF Spec, ImplementsOrder, Order!Spec
=============================================================================
