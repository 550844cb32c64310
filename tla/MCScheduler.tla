---------------------------- MODULE MCScheduler -----------------------------
(***************************************************************************)
(* An instance of Scheduler for TLC: operations on two partitions and      *)
(* reads, with the rules of benchmarks/vote/pqueue/pqueue_server.cpp.      *)
(***************************************************************************)
EXTENDS Scheduler

Kinds == {"put1", "put2", "top"}
PartitionRules == {<<"put1", "put2">>, <<"put2", "put1">>, <<"top", "top">>}
=============================================================================
