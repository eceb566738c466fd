---------------------------- MODULE MCProcessTimers ----------------------------
(* The callers of an orchestrator and of a worker; its polls are            *)
(* interchangeable, and four are enough for PollsSuffice to hold.           *)
EXTENDS ProcessTimers, TLC

CONSTANTS poll1, poll2, poll3, poll4

MCPolls == {poll1, poll2, poll3, poll4}
MCCallers == {"runs", "events", "scanner", "steps", "watch"} \cup MCPolls
MCConnectionOf ==
  [c \in MCCallers |-> IF c \in {"runs", "events", "scanner"} THEN "orchestrator" ELSE "worker"]

\* A poll is left for each tick of the interval: none is put off by the bound.
PollsSuffice == process = "worker" /\ rest = 0 => \E p \in Polls : At(p, "rest")

Interchangeable == Permutations(MCPolls)
=============================================================================
