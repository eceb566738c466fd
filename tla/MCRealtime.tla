------------------------------ MODULE MCRealtime ------------------------------
(* Tenants, runs and pages for the model checker.  The heartbeat of a       *)
(* socket shares nothing with its subscriptions, so a behaviour has one of  *)
(* them at work.                                                            *)
EXTENDS Realtime, Heartbeat, TLC

CONSTANTS p1, p2, r1, r2

\* Two tenants; the page of the second is opened at a run of the first.
MCTenantOf == (r1 :> "a" @@ p1 :> "a" @@ p2 :> "b")
MCRunOf == (p1 :> r1 @@ p2 :> r1)

VARIABLE part   \* the one that is followed, never changed

HubInit == Init /\ HeartbeatInit /\ part \in {"subscriptions", "heartbeat"}

HubNext ==
  \/ part = "subscriptions" /\ Next /\ UNCHANGED <<heartbeatVars, part>>
  \/ part = "heartbeat" /\ HeartbeatNext /\ UNCHANGED <<vars, part>>

HubSpec == HubInit /\ [][HubNext]_<<vars, heartbeatVars, part>> /\ Fairness
=============================================================================
