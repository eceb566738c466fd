------------------------------ MODULE MCScheduler ------------------------------
(* Cron expressions small enough for the model checker.                     *)
EXTENDS Scheduler, TLC

\* An expression e fires at the multiples of e.
Every == [e \in Exprs |-> [t \in Times |-> (t \div e + 1) * e]]

Interchangeable == Permutations(Replicas) \cup Permutations(Schedules)
=============================================================================
