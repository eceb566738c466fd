------------------------------ MODULE MCCounters ------------------------------
(* The two counters that the gateway keeps in Redis for a tenant: requests  *)
(* per window and tokens per day.  They share nothing, so a behaviour has   *)
(* one of them at work.                                                     *)
EXTENDS RateLimiter, WorkflowGeneration

VARIABLE counter   \* the one that is followed, never changed

CountersInit == Init /\ GenerationInit /\ counter \in {"requests", "tokens"}

CountersNext ==
  \/ counter = "requests" /\ Next /\ UNCHANGED <<generationVars, counter>>
  \/ counter = "tokens" /\ GenerationNext /\ UNCHANGED <<vars, counter>>

CountersSpec ==
  CountersInit /\ [][CountersNext]_<<vars, generationVars, counter>> /\ Fairness
=============================================================================
