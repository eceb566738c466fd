------------------------------- MODULE MCEngine -------------------------------
(* Values of the constants of Engine for the model checker: two shapes of   *)
(* definitions, in one of which the first step may be attempted twice.      *)
EXTENDS EngineProperties, TLC

CONSTANTS a, b, c

\* a and b, then c.
Join == a :> {} @@ b :> {} @@ c :> {a, b}
\* a, then b.
Chain == a :> {} @@ b :> {a}

AttemptsOnce == [s \in {a, b, c} |-> 1]
AttemptsChain == a :> 2 @@ b :> 1

Interchangeable == Permutations(Workers) \cup Permutations(Orchestrators)
=============================================================================
