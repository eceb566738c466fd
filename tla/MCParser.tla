------------------------------- MODULE MCParser -------------------------------
(* The definitions that are submitted to the parser.                        *)
EXTENDS DagView

\* None or up to three steps named 1, 2 or 3, ids repeated or not; 9 is no step, and 1
\* may be listed twice, alone or beside 2.
Lists ==
  {<<>>} \cup {<<d>> : d \in {1, 2, 3, 9}} \cup {<<1, 1>>, <<1, 2>>, <<1, 3>>, <<2, 3>>, <<1, 1, 2>>}
Short ==
  UNION {[1..n -> {[id |-> s, depends_on |-> l] : s \in {1, 2, 3}, l \in Lists}] : n \in 0..3}

\* Four steps, more than are accepted: each depends on the one after it, the last on none
\* or on the first.
Chain(last) == [i \in 1..4 |-> [id |-> i, depends_on |-> IF i < 4 THEN <<i + 1>> ELSE last]]
Submitted == Short \cup {Chain(<<>>), Chain(<<1>>)}
=============================================================================
