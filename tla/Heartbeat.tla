------------------------------ MODULE Heartbeat ------------------------------
(***************************************************************************)
(* The heartbeat of one socket of the realtime hub: every Interval it is   *)
(* cut when the last pong is more than TimeoutAfter ago and pinged          *)
(* otherwise.  Events of one instant come in any order.                    *)
(***************************************************************************)
EXTENDS Naturals

CONSTANTS
  Interval,     \* HEARTBEAT_INTERVAL
  TimeoutAfter, \* HEARTBEAT_TIMEOUT
  Latency,      \* a pong arrives within this time of its ping
  MaxTime       \* bound on time

ASSUME HeartbeatAssumption ==
  /\ Interval \in Nat \ {0} /\ TimeoutAfter \in Nat /\ MaxTime \in Nat
  /\ Latency \in 0..Interval /\ 2 * Interval <= TimeoutAfter

VARIABLES
  now,          \* since the socket was accepted
  lastPong,
  nextPing,     \* when the interval fires
  pings,        \* the pings that are not answered, by the time they were sent
  diedAt,       \* when the peer fell silent
  open

heartbeatVars == <<now, lastPong, nextPing, pings, diedAt, open>>

Alive == MaxTime + 1

HeartbeatInit ==
  /\ now = 0 /\ lastPong = 0 /\ nextPing = Interval
  /\ pings = {} /\ diedAt = Alive /\ open = TRUE

\* Time passes, but no timer and no pong is left behind.
Tick ==
  /\ now < MaxTime
  /\ open => now < nextPing
  /\ \A p \in pings : now < p + Latency
  /\ now' = now + 1
  /\ UNCHANGED <<lastPong, nextPing, pings, diedAt, open>>

\* Mutant: >= instead of >.
TimedOutEarly == now - lastPong >= TimeoutAfter

\* What the interval finds when it fires.
TimedOut == now - lastPong > TimeoutAfter

\* Mutant: a ping counts as a sign of life.
BeatRenews ==
  /\ open /\ now = nextPing
  /\ nextPing' = now + Interval /\ lastPong' = now
  /\ IF TimedOut THEN open' = FALSE /\ UNCHANGED pings
     ELSE /\ pings' = IF diedAt = Alive THEN pings \cup {now} ELSE pings
          /\ UNCHANGED open
  /\ UNCHANGED <<now, diedAt>>

\* ws.terminate, which is followed by the close event, or ws.ping.
Beat ==
  /\ open /\ now = nextPing
  /\ nextPing' = now + Interval
  /\ IF TimedOut THEN open' = FALSE /\ UNCHANGED pings
     ELSE /\ pings' = IF diedAt = Alive THEN pings \cup {now} ELSE pings
          /\ UNCHANGED open
  /\ UNCHANGED <<now, lastPong, diedAt>>

\* The pong of the oldest ping arrives.
Pong ==
  /\ \E p \in pings : (\A q \in pings : p <= q) /\ pings' = pings \ {p}
  /\ lastPong' = now
  /\ UNCHANGED <<now, nextPing, diedAt, open>>

\* The peer is gone without closing; pongs under way may be lost with it.
Die ==
  /\ diedAt = Alive
  /\ diedAt' = now
  /\ pings' \in {pings, {}}
  /\ UNCHANGED <<now, lastPong, nextPing, open>>

HeartbeatNext == Tick \/ Beat \/ Pong \/ Die

HeartbeatSpec == HeartbeatInit /\ [][HeartbeatNext]_heartbeatVars

-------------------------------------------------------------------------------

\* Every variable keeps its type.
HeartbeatTypeOK ==
  /\ now \in 0..MaxTime /\ lastPong \in 0..now
  /\ nextPing \in Nat /\ pings \subseteq 0..now
  /\ diedAt \in 0..Alive /\ open \in BOOLEAN

\* A peer that answers every ping within the interval is never cut, however late
\* its pong and however it meets the next beat.
AnsweringPeerStays == diedAt = Alive => open

\* A peer that falls silent is cut at the latest after the timeout, a further
\* interval, and the delay of a pong that was still under way.
SilentPeerIsCut ==
  diedAt # Alive /\ now > diedAt + Latency + TimeoutAfter + Interval => ~open

=============================================================================
