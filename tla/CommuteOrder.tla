---------------------------- MODULE CommuteOrder ----------------------------
(***************************************************************************)
(* What the scheduler of builds with __COMMUTE promises: operations arrive *)
(* in the order of the log and are executed so that two that do not        *)
(* commute keep that order.                                                *)
(***************************************************************************)
EXTENDS Integers, Sequences

CONSTANTS Kind,       \* what an operation does
          Commutes    \* pairs <<later, earlier>> of kinds that may be swapped

VARIABLES kinds,      \* the kinds of the operations, in the order of the log
          done        \* the operations that have been executed

Init == kinds = <<>> /\ done = {}

Arrive ==
    /\ \E k \in Kind : kinds' = Append(kinds, k)
    /\ UNCHANGED done

\* Executes o, when all it depends on has been executed.
Execute(o) ==
    /\ \A p \in 1..(o - 1) : <<kinds[o], kinds[p]>> \in Commutes \/ p \in done
    /\ done' = done \cup {o}
    /\ UNCHANGED kinds

Next == Arrive \/ \E o \in (1..Len(kinds)) \ done : Execute(o)

Spec == Init /\ [][Next]_<<kinds, done>>
=============================================================================
