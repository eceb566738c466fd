------------------------------ MODULE RateLimiter ------------------------------
(***************************************************************************)
(* The rate limiter of the API gateway, for one tenant and one route: a    *)
(* Redis counter per window of Window seconds.  The window is computed from*)
(* the clock of the API process, the counter is incremented a moment later,*)
(* its expiry is set by a second command, and a refused request asks for   *)
(* the time to live with a third.                                          *)
(***************************************************************************)
EXTENDS Naturals, FiniteSetsExt

CONSTANTS
  Requests,     \* requests in progress at a time
  Window,       \* windowSec
  Limit,        \* requests allowed in a window
  Latency,      \* seconds from reading the clock to the increment, at most
  MaxTime,      \* bound on time
  MaxRequests   \* bound on the requests

ASSUME RateLimiterAssumption ==
  Window \in Nat \ {0} /\ Limit \in Nat /\ Latency \in Nat /\ MaxTime \in Nat /\ MaxRequests \in Nat

VARIABLES
  now,          \* seconds
  count,        \* the counter of each window, 0 when the key does not exist
  expires,      \* when the key of a window expires, Never without a time to live
  req,          \* the progress of each request
  allowed,      \* how many requests of each window were allowed
  answer,       \* the last refusal
  sent          \* requests so far

vars == <<now, count, expires, req, allowed, answer, sent>>

Times == 0..MaxTime
WindowOf(t) == t \div Window
Windows == {WindowOf(t) : t \in Times}
Never == MaxTime + 2 * Window + 2

Idle == [pc |-> "idle", at |-> 0]
NoAnswer == [window |-> 0, at |-> 0, retry |-> 0, settled |-> FALSE]

Init ==
  /\ now = 0
  /\ count = [w \in Windows |-> 0]
  /\ expires = [w \in Windows |-> Never]
  /\ req = [q \in Requests |-> Idle]
  /\ allowed = [w \in Windows |-> 0]
  /\ answer = NoAnswer
  /\ sent = 0

\* A second passes; Redis drops the keys that expire.
Tick ==
  /\ now < MaxTime
  /\ \A q \in Requests : req[q].pc = "incr" => now - req[q].at < Latency
  /\ now' = now + 1
  /\ count' = [w \in Windows |-> IF expires[w] = now + 1 THEN 0 ELSE count[w]]
  /\ expires' = [w \in Windows |-> IF expires[w] = now + 1 THEN Never ELSE expires[w]]
  /\ UNCHANGED <<req, allowed, answer, sent>>

\* The window key is computed.
Arrive(q) ==
  /\ req[q].pc = "idle" /\ sent < MaxRequests
  /\ sent' = sent + 1
  /\ req' = [req EXCEPT ![q] = [pc |-> "incr", at |-> now]]
  /\ UNCHANGED <<now, count, expires, allowed, answer>>

\* The n-th request of a window passes.
Passes(n) == n <= Limit

\* Where a request goes that was the n-th of its window.
Verdict(q, n) == IF Passes(n) THEN Idle ELSE [req[q] EXCEPT !.pc = "ttl"]

\* INCR.  The first of a window goes on to set the expiry.
Incr(q) ==
  LET w == WindowOf(req[q].at)
      n == count[w] + 1
  IN  /\ req[q].pc = "incr"
      /\ count' = [count EXCEPT ![w] = n]
      /\ req' = [req EXCEPT ![q] = IF n = 1 THEN [@ EXCEPT !.pc = "expire"] ELSE Verdict(q, n)]
      /\ allowed' = [allowed EXCEPT ![w] = @ + IF Passes(n) THEN 1 ELSE 0]
      /\ UNCHANGED <<now, expires, answer, sent>>

\* Mutants: no second more; a second less.
ExpireAtWindow(q) ==
  LET w == WindowOf(req[q].at)
  IN  /\ req[q].pc = "expire"
      /\ expires' = [expires EXCEPT ![w] = IF count[w] = 0 THEN @ ELSE now + Window]
      /\ req' = [req EXCEPT ![q] = Verdict(q, 1)]
      /\ UNCHANGED <<now, count, allowed, answer, sent>>

ExpireShort(q) ==
  LET w == WindowOf(req[q].at)
  IN  /\ req[q].pc = "expire"
      /\ expires' = [expires EXCEPT ![w] = IF count[w] = 0 THEN @ ELSE now + Window - 1]
      /\ req' = [req EXCEPT ![q] = Verdict(q, 1)]
      /\ UNCHANGED <<now, count, allowed, answer, sent>>

\* EXPIRE, for a second more than the window.
Expire(q) ==
  LET w == WindowOf(req[q].at)
  IN  /\ req[q].pc = "expire"
      /\ expires' = [expires EXCEPT ![w] = IF count[w] = 0 THEN @ ELSE now + Window + 1]
      /\ req' = [req EXCEPT ![q] = Verdict(q, 1)]
      /\ UNCHANGED <<now, count, allowed, answer, sent>>

\* The process or the connection fails before EXPIRE: the key stays for good.
LoseExpire(q) ==
  /\ req[q].pc = "expire"
  /\ req' = [req EXCEPT ![q] = Idle]
  /\ UNCHANGED <<now, count, expires, allowed, answer, sent>>

\* TTL, rounded to a second, and -1 for a key without one or -2 for none, which
\* the answer turns into 1.
Ttls(w) ==
  IF expires[w] = Never THEN {0}
  ELSE {t \in 0..(Window + 1) : t + 1 >= expires[w] - now /\ t <= expires[w] - now + 1}

Refuse(q) ==
  LET w == WindowOf(req[q].at)
  IN  /\ req[q].pc = "ttl"
      /\ \E ttl \in Ttls(w) :
           answer' = [window |-> w, at |-> now, retry |-> Max({1, ttl}),
                      settled |-> expires[w] # Never]
      /\ req' = [req EXCEPT ![q] = Idle]
      /\ UNCHANGED <<now, count, expires, allowed, sent>>

Next ==
  \/ Tick
  \/ \E q \in Requests : Arrive(q) \/ Incr(q) \/ Expire(q) \/ LoseExpire(q) \/ Refuse(q)

Spec == Init /\ [][Next]_vars

-------------------------------------------------------------------------------

\* Every variable keeps its type.
TypeOK ==
  /\ now \in Times
  /\ count \in [Windows -> Nat]
  /\ expires \in [Windows -> Nat]
  /\ req \in [Requests -> [pc: {"idle", "incr", "expire", "ttl"}, at: Times]]
  /\ allowed \in [Windows -> Nat] /\ sent \in 0..MaxRequests
  /\ answer \in [window: Windows, at: Times, retry: Nat, settled: BOOLEAN]

\* No window lets more than Limit requests through, although a request may be
\* counted when its window has ended: the key outlives the window by the second
\* that a request may take, at most, from reading the clock to its INCR.
QuotaPerWindow ==
  \A w \in Windows : allowed[w] <= Limit

\* A client that waits as long as Retry-After says meets another window, once
\* the key has its expiry.
RetryMeetsAnotherWindow ==
  answer.settled => WindowOf(answer.at + answer.retry) > answer.window

=============================================================================
