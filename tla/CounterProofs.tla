------------------------------ MODULE CounterProofs ------------------------------
(***************************************************************************)
(* Theorems about the two counters that Redis keeps, the requests of a     *)
(* window and the tokens of a day, for any number of requests at once.     *)
(***************************************************************************)
EXTENDS RateLimiter, WorkflowGeneration, FiniteSetTheorems, TLAPS

-------------------------------------------------------------------------------
(* The rate limiter.                                                        *)

\* The first second after a window.
End(w) == Window * w + Window

\* A window holds the seconds its number is computed from.
LEMMA WindowHolds ==
  ASSUME NEW t \in Nat
  PROVE  /\ WindowOf(t) \in Nat
         /\ Window * WindowOf(t) <= t /\ t < End(WindowOf(t))
BY RateLimiterAssumption, SMT DEF WindowOf, End

\* A second at or after the end of a window is in another one.
LEMMA LaterWindow ==
  ASSUME NEW t \in Nat, NEW w \in Nat, t >= End(w)
  PROVE  WindowOf(t) > w
<1> DEFINE v == WindowOf(t)
<1>1. v \in Nat /\ t < Window * v + Window
  BY WindowHolds DEF End
<1> HIDE DEF v
<1>2. SUFFICES ASSUME v <= w PROVE FALSE
  BY <1>1 DEF v
<1>3. Window * v <= Window * w
  BY <1>1, <1>2, RateLimiterAssumption, SMT
<1>4. Window * v \in Nat /\ Window * w \in Nat /\ Window \in Nat
  BY <1>1, RateLimiterAssumption
<1>5. QED
  BY <1>1, <1>3, <1>4 DEF End

LimiterTypes ==
  /\ now \in Times
  /\ count \in [Windows -> Nat] /\ expires \in [Windows -> Nat] /\ allowed \in [Windows -> Nat]
  /\ req \in [Requests -> [pc: {"idle", "incr", "expire", "ttl"}, at: Times]]
  /\ answer \in [window: Windows, at: Times, retry: Nat, settled: BOOLEAN]

\* A request is on its way since its second, and a key never expires before its window
\* is over: it gets its expiry in the window or later, for a window and a second more.
ExpiryInv ==
  /\ \A q \in Requests : req[q].at <= now
  /\ \A w \in Windows : expires[w] # Never => expires[w] > End(w)

LimiterInv == LimiterTypes /\ ExpiryInv /\ RetryMeetsAnotherWindow

LEMMA WindowTypes ==
  ASSUME NEW w \in Windows
  PROVE  w \in Nat /\ End(w) \in Nat
<1>1. w \in Nat
  BY WindowHolds, RateLimiterAssumption DEF Windows, Times
<1>2. QED
  BY <1>1, RateLimiterAssumption DEF End

LEMMA LimiterInitially == Init => LimiterInv
<1> SUFFICES ASSUME Init PROVE LimiterInv
  OBVIOUS
<1>1. 0 \in Times /\ 0 \in Windows /\ Never \in Nat
  <2>1. 0 \in Times
    BY RateLimiterAssumption DEF Times
  <2>2. WindowOf(0) = 0
    BY RateLimiterAssumption, SMT DEF WindowOf
  <2>3. Never \in Nat
    BY RateLimiterAssumption DEF Never
  <2>4. QED
    BY <2>1, <2>2, <2>3 DEF Windows
<1>2. QED
  BY <1>1 DEF Init, LimiterInv, LimiterTypes, ExpiryInv, RetryMeetsAnotherWindow, Idle, NoAnswer

LEMMA LimiterKeeps == LimiterInv /\ [Next]_vars => LimiterInv'
<1> SUFFICES ASSUME LimiterInv, [Next]_vars PROVE LimiterInv'
  OBVIOUS
<1>0. LimiterTypes /\ ExpiryInv /\ RetryMeetsAnotherWindow
  BY DEF LimiterInv
<1>1. /\ now \in Nat /\ MaxTime \in Nat /\ Never \in Nat
      /\ \A w \in Windows : End(w) \in Nat /\ expires[w] \in Nat
  BY <1>0, WindowTypes, RateLimiterAssumption DEF LimiterTypes, Times, Never
<1>2. CASE Tick
  <2>1. now' = now + 1 /\ now < MaxTime /\ UNCHANGED <<req, allowed, answer>>
    BY <1>2 DEF Tick
  <2>2. LimiterTypes'
    BY <1>0, <1>1, <1>2, <2>1 DEF Tick, LimiterTypes, Times
  <2>3. ExpiryInv'
    <3>1. \A q \in Requests : req[q].at \in Nat
      BY <1>0 DEF LimiterTypes, Times
    <3>2. \A w \in Windows : expires'[w] = IF expires[w] = now + 1 THEN Never ELSE expires[w]
      BY <1>2 DEF Tick
    <3>3. QED
      BY <1>0, <1>1, <2>1, <3>1, <3>2 DEF ExpiryInv
  <2>4. QED
    BY <1>0, <2>1, <2>2, <2>3 DEF LimiterInv, RetryMeetsAnotherWindow
<1>3. ASSUME NEW q \in Requests, Arrive(q)
      PROVE  LimiterInv'
  BY <1>0, <1>1, <1>3 DEF Arrive, LimiterInv, LimiterTypes, ExpiryInv, RetryMeetsAnotherWindow
<1>4. ASSUME NEW q \in Requests
      PROVE  /\ req[q].at \in Times /\ req[q].at \in Nat /\ req[q].at <= now
             /\ WindowOf(req[q].at) \in Windows
  BY <1>0 DEF LimiterTypes, ExpiryInv, Times, Windows
<1>5. ASSUME NEW q \in Requests, NEW n \in Nat
      PROVE  Verdict(q, n) \in [pc: {"idle", "incr", "expire", "ttl"}, at: Times] /\ Verdict(q, n).at <= now
  BY <1>0, <1>1, <1>4, RateLimiterAssumption DEF Verdict, Idle, LimiterTypes, Times
<1>6. ASSUME NEW q \in Requests, Incr(q)
      PROVE  LimiterInv'
  <2> DEFINE w == WindowOf(req[q].at)
             n == count[w] + 1
  <2>1. w \in Windows /\ n \in Nat
    BY <1>0, <1>4 DEF LimiterTypes
  <2> HIDE DEF w
  <2>2. /\ count' = [count EXCEPT ![w] = n]
        /\ req' = [req EXCEPT ![q] = IF n = 1 THEN [@ EXCEPT !.pc = "expire"] ELSE Verdict(q, n)]
        /\ allowed' = [allowed EXCEPT ![w] = @ + IF Passes(n) THEN 1 ELSE 0]
        /\ UNCHANGED <<now, expires, answer>>
    BY <1>6 DEF Incr, w
  <2> HIDE DEF n
  <2>3. count' \in [Windows -> Nat] /\ allowed' \in [Windows -> Nat]
    BY <1>0, <2>1, <2>2 DEF LimiterTypes
  <2>4. \E r \in [pc: {"idle", "incr", "expire", "ttl"}, at: Times] :
          r.at <= now /\ req' = [req EXCEPT ![q] = r]
    <3> DEFINE r == IF n = 1 THEN [req[q] EXCEPT !.pc = "expire"] ELSE Verdict(q, n)
    <3>1. r \in [pc: {"idle", "incr", "expire", "ttl"}, at: Times] /\ r.at <= now
      BY <1>0, <1>4, <1>5, <2>1 DEF LimiterTypes
    <3>2. req' = [req EXCEPT ![q] = r]
      BY <2>2
    <3>3. QED
      BY <3>1, <3>2
  <2>5. QED
    BY <1>0, <2>2, <2>3, <2>4 DEF LimiterInv, LimiterTypes, ExpiryInv, RetryMeetsAnotherWindow
<1>7. ASSUME NEW q \in Requests, Expire(q)
      PROVE  LimiterInv'
  <2> DEFINE w == WindowOf(req[q].at)
  <2>1. w \in Windows /\ w \in Nat /\ Window * w <= req[q].at /\ Window * w \in Nat
    BY <1>4, WindowHolds, RateLimiterAssumption
  <2> HIDE DEF w
  <2>2. /\ expires' = [expires EXCEPT ![w] = IF count[w] = 0 THEN @ ELSE now + Window + 1]
        /\ req' = [req EXCEPT ![q] = Verdict(q, 1)]
        /\ UNCHANGED <<now, count, allowed, answer>>
    BY <1>7 DEF Expire, w
  <2>3. now + Window + 1 \in Nat /\ now + Window + 1 > End(w)
    BY <1>1, <1>4, <2>1, RateLimiterAssumption DEF End
  <2>4. LimiterTypes'
    BY <1>0, <1>1, <1>5, <2>1, <2>2, <2>3 DEF LimiterTypes
  <2>5. ExpiryInv'
    BY <1>0, <1>1, <1>5, <2>1, <2>2, <2>3 DEF ExpiryInv, LimiterTypes
  <2>6. QED
    BY <1>0, <2>2, <2>4, <2>5 DEF LimiterInv, RetryMeetsAnotherWindow
<1>8. ASSUME NEW q \in Requests, LoseExpire(q)
      PROVE  LimiterInv'
  <2>1. req' = [req EXCEPT ![q] = Idle] /\ UNCHANGED <<now, count, expires, allowed, answer>>
    BY <1>8 DEF LoseExpire
  <2>2. Idle \in [pc: {"idle", "incr", "expire", "ttl"}, at: Times] /\ Idle.at <= now
    BY <1>1, RateLimiterAssumption DEF Idle, Times
  <2>3. QED
    BY <1>0, <2>1, <2>2 DEF LimiterInv, LimiterTypes, ExpiryInv, RetryMeetsAnotherWindow
<1>9. ASSUME NEW q \in Requests, Refuse(q)
      PROVE  LimiterInv'
  <2> DEFINE w == WindowOf(req[q].at)
  <2>1. w \in Windows /\ w \in Nat /\ End(w) \in Nat /\ expires[w] \in Nat
    BY <1>1, <1>4, WindowTypes
  <2> HIDE DEF w
  <2>2. /\ \E ttl \in Ttls(w) :
             answer' = [window |-> w, at |-> now, retry |-> Max({1, ttl}),
                        settled |-> expires[w] # Never]
        /\ req' = [req EXCEPT ![q] = Idle] /\ UNCHANGED <<now, count, expires, allowed>>
    BY <1>9 DEF Refuse, w
  <2>3. PICK ttl \in Ttls(w) :
             answer' = [window |-> w, at |-> now, retry |-> Max({1, ttl}),
                        settled |-> expires[w] # Never]
    BY <2>2
  <2>4. ttl \in Nat /\ (expires[w] # Never => ttl + 1 >= expires[w] - now)
    BY <2>1, RateLimiterAssumption DEF Ttls
  <2>5. Max({1, ttl}) \in Nat /\ Max({1, ttl}) >= ttl
    BY <2>4 DEF Max
  <2>6. Idle \in [pc: {"idle", "incr", "expire", "ttl"}, at: Times] /\ Idle.at <= now
    BY <1>1, RateLimiterAssumption DEF Idle, Times
  <2>7. LimiterTypes' /\ ExpiryInv'
    BY <1>0, <2>1, <2>2, <2>3, <2>5, <2>6 DEF LimiterTypes, ExpiryInv
  <2>8. ASSUME expires[w] # Never
        PROVE  WindowOf(now + Max({1, ttl})) > w
    <3>1. expires[w] > End(w)
      BY <1>0, <2>1, <2>8 DEF ExpiryInv
    <3>2. now + Max({1, ttl}) \in Nat /\ now + Max({1, ttl}) >= End(w)
      BY <1>1, <2>1, <2>4, <2>5, <2>8, <3>1
    <3>3. QED
      BY <2>1, <3>2, LaterWindow
  <2>9. RetryMeetsAnotherWindow'
    BY <2>3, <2>8 DEF RetryMeetsAnotherWindow, WindowOf
  <2>10. QED
    BY <2>7, <2>9 DEF LimiterInv
<1>10. CASE UNCHANGED vars
  BY <1>0, <1>10 DEF vars, LimiterInv, LimiterTypes, ExpiryInv, RetryMeetsAnotherWindow
<1>11. QED
  BY <1>2, <1>3, <1>6, <1>7, <1>8, <1>9, <1>10 DEF Next

\* The invariant of the limiter's keys.
THEOREM LimiterInvariance == Spec => []LimiterInv
BY LimiterInitially, LimiterKeeps, PTL DEF Spec

\* A refused client that waits as long as Retry-After says meets another window, for
\* every window, limit and delay (checkRateLimit adds a second to the expiry).
THEOREM RetriesAreTimely == Spec => []RetryMeetsAnotherWindow
<1>1. LimiterInv => RetryMeetsAnotherWindow
  BY DEF LimiterInv
<1>2. QED
  BY <1>1, LimiterInvariance, PTL

\* A window is counted right for as long as a request of it may be on its way: the INCR
\* follows the clock by a second at most, and the key lives on for that second.
QuotaInv ==
  /\ \A q \in Requests : req[q].pc = "incr" => now <= req[q].at + Latency
  /\ \A w \in Windows : now <= End(w) => allowed[w] <= count[w]
  /\ QuotaPerWindow

LEMMA QuotaKeeps ==
  ASSUME Latency <= 1
  PROVE  LimiterInv /\ QuotaInv /\ [Next]_vars => QuotaInv'
<1> SUFFICES ASSUME LimiterInv, QuotaInv, [Next]_vars PROVE QuotaInv'
  OBVIOUS
<1>1. LimiterTypes /\ ExpiryInv /\ Latency \in Nat /\ Limit \in Nat /\ now \in Nat
  BY RateLimiterAssumption DEF LimiterInv, LimiterTypes, Times
<1>2. \A w \in Windows : End(w) \in Nat /\ count[w] \in Nat /\ allowed[w] \in Nat /\ expires[w] \in Nat
  BY <1>1, WindowTypes DEF LimiterTypes
<1>3. \A q \in Requests : req[q].at \in Nat /\ WindowOf(req[q].at) \in Windows
  BY <1>1 DEF LimiterTypes, Times, Windows
<1>4. CASE Tick
  <2>1. /\ now' = now + 1 /\ now < MaxTime /\ UNCHANGED <<req, allowed>>
        /\ \A q \in Requests : req[q].pc = "incr" => now - req[q].at < Latency
        /\ \A w \in Windows : count'[w] = IF expires[w] = now + 1 THEN 0 ELSE count[w]
    BY <1>4 DEF Tick
  <2>2. \A q \in Requests : req'[q].pc = "incr" => now' <= req'[q].at + Latency
    BY <1>1, <1>3, <2>1
  <2>3. ASSUME NEW w \in Windows, now' <= End(w)
        PROVE  allowed[w] <= count'[w]
    <3>1. Never > now + 1
      BY <1>1, <2>1, RateLimiterAssumption DEF Never
    <3>2. expires[w] # now + 1
      BY <1>1, <1>2, <2>1, <2>3, <3>1 DEF ExpiryInv
    <3>3. QED
      BY <1>1, <1>2, <2>1, <2>3, <3>2 DEF QuotaInv
  <2>4. QED
    BY <2>1, <2>2, <2>3 DEF QuotaInv, QuotaPerWindow
<1>5. ASSUME NEW q \in Requests, Incr(q)
      PROVE  QuotaInv'
  <2> DEFINE w == WindowOf(req[q].at)
             n == count[w] + 1
  <2>1. w \in Windows /\ n \in Nat /\ req[q].at < End(w)
    BY <1>2, <1>3, WindowHolds
  <2> HIDE DEF w
  <2>2. /\ count' = [count EXCEPT ![w] = n] /\ req[q].pc = "incr"
        /\ req' = [req EXCEPT ![q] = IF n = 1 THEN [@ EXCEPT !.pc = "expire"] ELSE Verdict(q, n)]
        /\ allowed' = [allowed EXCEPT ![w] = @ + IF Passes(n) THEN 1 ELSE 0]
        /\ UNCHANGED now
    BY <1>5 DEF Incr, w
  <2>3. allowed[w] <= count[w]
    <3>1. now <= End(w)
      BY <1>1, <1>2, <1>3, <2>1, <2>2 DEF QuotaInv
    <3>2. QED
      BY <2>1, <3>1 DEF QuotaInv
  <2>4. allowed'[w] <= count'[w] /\ allowed'[w] <= Limit
    <3>1. count'[w] = count[w] + 1 /\ allowed'[w] = allowed[w] + IF n <= Limit THEN 1 ELSE 0
      BY <1>1, <2>1, <2>2 DEF LimiterTypes, Passes
    <3>2. allowed[w] <= Limit
      BY <2>1 DEF QuotaInv, QuotaPerWindow
    <3>3. QED
      BY <1>1, <1>2, <2>1, <2>3, <3>1, <3>2
  <2>5. \A v \in Windows : v # w => count'[v] = count[v] /\ allowed'[v] = allowed[v]
    BY <1>1, <2>2 DEF LimiterTypes
  <2>6. \A p \in Requests : req'[p].pc = "incr" => p # q /\ req'[p] = req[p]
    <3>1. (IF n = 1 THEN [req[q] EXCEPT !.pc = "expire"] ELSE Verdict(q, n)).pc # "incr"
      BY <1>1 DEF Verdict, Idle, LimiterTypes
    <3>2. QED
      BY <1>1, <2>2, <3>1 DEF LimiterTypes
  <2>7. QED
    BY <2>2, <2>4, <2>5, <2>6 DEF QuotaInv, QuotaPerWindow
<1>6. ASSUME NEW q \in Requests, Arrive(q)
      PROVE  QuotaInv'
  BY <1>1, <1>6 DEF Arrive, QuotaInv, QuotaPerWindow, LimiterTypes
<1>7. ASSUME NEW q \in Requests, Expire(q) \/ LoseExpire(q) \/ Refuse(q)
      PROVE  QuotaInv'
  <2>1. UNCHANGED <<now, count, allowed>> /\ \E r : req' = [req EXCEPT ![q] = r] /\ r.pc # "incr"
    BY <1>1, <1>7 DEF Expire, LoseExpire, Refuse, Verdict, Idle, LimiterTypes
  <2>2. \A p \in Requests : req'[p].pc = "incr" => req'[p] = req[p]
    BY <1>1, <2>1 DEF LimiterTypes
  <2>3. QED
    BY <2>1, <2>2 DEF QuotaInv, QuotaPerWindow
<1>8. CASE UNCHANGED vars
  BY <1>8 DEF vars, QuotaInv, QuotaPerWindow
<1>9. QED
  BY <1>4, <1>5, <1>6, <1>7, <1>8 DEF Next

\* No window lets more than Limit requests through when the INCR follows the clock by a
\* second at most, however many requests there are at once and whatever EXPIREs are lost:
\* the second by which checkRateLimit lets the key outlive the window is enough.
THEOREM QuotasHold ==
  ASSUME Latency <= 1
  PROVE  Spec => []QuotaPerWindow
<1>1. Init => QuotaInv
  BY WindowTypes, RateLimiterAssumption DEF Init, QuotaInv, QuotaPerWindow, Idle
<1>2. LimiterInv /\ QuotaInv /\ [Next]_vars => QuotaInv'
  BY QuotaKeeps
<1>3. QuotaInv => QuotaPerWindow
  BY DEF QuotaInv
<1>4. QED
  BY <1>1, <1>2, <1>3, LimiterInvariance, PTL DEF Spec

-------------------------------------------------------------------------------
(* The token budget.                                                        *)

\* Requests with a call that may still be counted, and those that may make another.
InFlight == {g \in Generations : job[g].pc \in {"calling", "record"}}
FirstCall == {g \in InFlight : job[g].calls = 1}

\* How many calls may still be counted.
CallsToCount == Cardinality(InFlight) + Cardinality(FirstCall)

Progress ==
  [pc: {"idle", "check", "calling", "record", "draft", "refused"}, calls: Nat,
   tokens: Usages \cup {0}, candidate: Candidates \cup {"none"}]

BudgetTypes == used \in Nat /\ job \in [Generations -> Progress]

\* What is used and what is still to come stay within the bound: a request that passes
\* the check finds its tokens left, and no others are under way than there can be.
BudgetInv ==
  /\ BudgetTypes
  /\ used + Reserve + Max(Usages) * CallsToCount
       <= DailyLimit + Max(Usages) * (2 * Cardinality(Generations))

LEMMA LargestUsage == Max(Usages) \in Nat /\ \A n \in Usages : n <= Max(Usages)
<1>1. PICK most \in Usages : \A n \in Usages : n <= most
  BY GenerationAssumption
<1>2. most \in Nat /\ \A n \in Usages : most >= n
  BY <1>1, GenerationAssumption
<1>3. QED
  BY <1>2, GenerationAssumption DEF Max

\* There are at most two calls of each request to come.
LEMMA CallsAreFew ==
  /\ IsFiniteSet(InFlight) /\ IsFiniteSet(FirstCall)
  /\ Cardinality(InFlight) \in Nat /\ Cardinality(FirstCall) \in Nat
  /\ Cardinality(Generations) \in Nat
  /\ CallsToCount \in Nat /\ CallsToCount <= 2 * Cardinality(Generations)
<1>1. InFlight \in SUBSET Generations /\ FirstCall \in SUBSET Generations
  BY DEF InFlight, FirstCall
<1>2. QED
  BY <1>1, GenerationAssumption, FS_Subset, FS_CardinalityType DEF CallsToCount

LEMMA Product ==
  ASSUME NEW m \in Nat, NEW a \in Nat, NEW b \in Nat
  PROVE  /\ m * a \in Nat /\ m * (a + b) = m * a + m * b
         /\ a <= b => m * a <= m * b
BY SMT

LEMMA Spent ==
  ASSUME NEW before \in Nat, NEW after \in Nat, NEW reserve \in Nat, NEW bound \in Nat,
         NEW a \in Nat, NEW b \in Nat, NEW c \in Nat,
         before + reserve + c <= bound, after <= before + b, a + b <= c
  PROVE  after + reserve + a <= bound
OBVIOUS

LEMMA Plus ==
  ASSUME NEW x \in Nat, NEW y \in Nat, NEW z \in Nat, NEW a \in Nat, NEW b \in Nat
  PROVE  x + 0 = x /\ (x + y <= z /\ a <= b => x + y + a <= z + b)
OBVIOUS

\* A step that leaves at most as many calls to count, less those it counts.
LEMMA BudgetKept ==
  ASSUME BudgetInv, NEW paid \in {0, 1}, BudgetTypes', CallsToCount' + paid <= CallsToCount,
         CallsToCount' \in Nat, used' <= used + Max(Usages) * paid
  PROVE  BudgetInv'
<1> DEFINE m == Max(Usages)
           all == m * (2 * Cardinality(Generations))
<1>1. m \in Nat /\ CallsToCount \in Nat /\ used \in Nat /\ used' \in Nat
  BY LargestUsage, CallsAreFew DEF BudgetInv, BudgetTypes
<1> DEFINE old == CallsToCount
           new == CallsToCount'
<1>2. m \in Nat /\ old \in Nat
  BY <1>1
<1>21. new \in Nat /\ paid \in Nat
  OBVIOUS
<1>22. new + paid <= old
  OBVIOUS
<1>3. all \in Nat /\ used + Reserve + m * old <= DailyLimit + all /\ used' <= used + m * paid
  BY <1>1, CallsAreFew, Product DEF BudgetInv
<1>4. SUFFICES used' + Reserve + m * new <= DailyLimit + all
  BY DEF BudgetInv
<1> HIDE DEF m, all, old, new
<1>5. new + paid \in Nat
  BY <1>21
<1>6. m * (new + paid) <= m * old /\ m * old \in Nat
  BY <1>2, <1>22, <1>5, Product
<1>7. m * (new + paid) = m * new + m * paid /\ m * new \in Nat /\ m * paid \in Nat
  BY <1>2, <1>21, Product
<1> DEFINE a == m * new
           b == m * paid
           c == m * old
<1>8. a \in Nat /\ b \in Nat /\ c \in Nat /\ a + b <= c
      /\ used + Reserve + c <= DailyLimit + all /\ used' <= used + b
  BY <1>3, <1>6, <1>7
<1>9. SUFFICES used' + Reserve + a <= DailyLimit + all
  OBVIOUS
<1> HIDE DEF a, b, c
<1>10. Reserve \in Nat /\ DailyLimit \in Nat
  BY GenerationAssumption
<1>11. DailyLimit + all \in Nat
  BY <1>3, <1>10
<1>12. QED
  BY <1>1, <1>8, <1>10, <1>11, Spent

\* The calls to come are at most two of each request also after a step.
LEMMA CallsStayFew ==
  /\ IsFiniteSet(InFlight') /\ IsFiniteSet(FirstCall')
  /\ Cardinality(InFlight') \in Nat /\ Cardinality(FirstCall') \in Nat
  /\ CallsToCount' \in Nat /\ CallsToCount' <= 2 * Cardinality(Generations)
<1>1. InFlight' \in SUBSET Generations /\ FirstCall' \in SUBSET Generations
  BY DEF InFlight, FirstCall
<1>2. Cardinality(Generations) \in Nat
  BY CallsAreFew
<1>3. QED
  BY <1>1, <1>2, GenerationAssumption, FS_Subset, FS_CardinalityType DEF CallsToCount

\* Fewer requests, fewer calls to come.
LEMMA FewerCalls ==
  ASSUME InFlight' \subseteq InFlight, FirstCall' \subseteq FirstCall
  PROVE  /\ CallsToCount' <= CallsToCount
         /\ (InFlight' # InFlight \/ FirstCall' # FirstCall) => CallsToCount' + 1 <= CallsToCount
<1>1. /\ Cardinality(InFlight') <= Cardinality(InFlight)
      /\ Cardinality(InFlight) = Cardinality(InFlight') => InFlight = InFlight'
  BY CallsAreFew, FS_Subset
<1>2. /\ Cardinality(FirstCall') <= Cardinality(FirstCall)
      /\ Cardinality(FirstCall) = Cardinality(FirstCall') => FirstCall = FirstCall'
  BY CallsAreFew, FS_Subset
<1>3. QED
  BY <1>1, <1>2, CallsAreFew, CallsStayFew DEF CallsToCount

\* While nothing more is used than the day allows, all requests may be on their way.
LEMMA BudgetLeft ==
  ASSUME BudgetTypes', used' + Reserve <= DailyLimit
  PROVE  BudgetInv'
<1> DEFINE m == Max(Usages)
           all == m * (2 * Cardinality(Generations))
<1>1. m \in Nat /\ CallsToCount' \in Nat /\ CallsToCount' <= 2 * Cardinality(Generations)
      /\ 2 * Cardinality(Generations) \in Nat /\ used' \in Nat
  BY LargestUsage, CallsAreFew, CallsStayFew DEF BudgetTypes
<1>2. m * CallsToCount' <= all /\ m * CallsToCount' \in Nat /\ all \in Nat
  BY <1>1, Product
<1> DEFINE coming == m * CallsToCount'
<1>3. coming <= all /\ coming \in Nat /\ all \in Nat /\ used' \in Nat
  BY <1>1, <1>2
<1>4. SUFFICES used' + Reserve + coming <= DailyLimit + all
  BY DEF BudgetInv
<1> HIDE DEF coming, all
<1>5. Reserve \in Nat /\ DailyLimit \in Nat
  BY GenerationAssumption
<1>6. QED
  BY <1>3, <1>5, Plus

\* A step that counts no tokens and lets no more calls come.
LEMMA BudgetUntouched ==
  ASSUME BudgetInv, BudgetTypes', used' = used, InFlight' \subseteq InFlight,
         FirstCall' \subseteq FirstCall
  PROVE  BudgetInv'
<1>0. CallsToCount' <= CallsToCount /\ CallsToCount \in Nat /\ CallsToCount' \in Nat
  BY FewerCalls, CallsAreFew, CallsStayFew
<1>1. CallsToCount' + 0 <= CallsToCount
  BY <1>0, Plus
<1>2. used' <= used + Max(Usages) * 0 /\ 0 \in {0, 1}
  BY LargestUsage DEF BudgetInv, BudgetTypes
<1>3. QED
  BY <1>1, <1>2, CallsStayFew, BudgetKept

\* What becomes of a request that makes a call, or whose answer is judged.
LEMMA CallMade ==
  ASSUME NEW r \in Progress
  PROVE  CallLLM(r) \in Progress /\ CallLLM(r).pc = "calling" /\ CallLLM(r).calls = r.calls + 1
<1> DEFINE n == r.calls + 1
           s == [r EXCEPT !.pc = "calling"]
<1>1. n \in Nat /\ s \in Progress /\ s.pc = "calling"
  BY DEF Progress
<1>2. CallLLM(r) = [s EXCEPT !.calls = n]
  BY DEF CallLLM, Progress
<1>3. SUFFICES CallLLM(r) \in Progress /\ CallLLM(r).pc = "calling" /\ CallLLM(r).calls = n
  OBVIOUS
<1> HIDE DEF n, s
<1>4. QED
  BY <1>1, <1>2 DEF Progress

LEMMA Judged ==
  ASSUME NEW r \in Progress
  PROVE  /\ Judge(r) \in Progress
         /\ \/ Judge(r).pc \in {"draft", "refused"}
            \/ r.calls = 1 /\ Judge(r).pc = "calling" /\ Judge(r).calls = 2
<1>1. CASE r.candidate = "clean"
  BY <1>1 DEF Judge, Progress
<1>2. CASE r.candidate = "invalid" /\ r.calls = 1
  <2>1. Judge(r) = CallLLM(r) /\ r.calls + 1 = 2
    BY <1>2 DEF Judge
  <2>2. QED
    BY <1>2, <2>1, CallMade
<1>3. CASE r.candidate # "clean" /\ ~(r.candidate = "invalid" /\ r.calls = 1)
  BY <1>3 DEF Judge, Progress
<1>4. QED
  BY <1>1, <1>2, <1>3

LEMMA BudgetKeeps == BudgetInv /\ [GenerationNext]_generationVars => BudgetInv'
<1> SUFFICES ASSUME BudgetInv, [GenerationNext]_generationVars PROVE BudgetInv'
  OBVIOUS
<1>0. BudgetTypes /\ used \in Nat /\ Reserve \in Nat /\ DailyLimit \in Nat /\ Reserve <= DailyLimit
  BY GenerationAssumption DEF BudgetInv, BudgetTypes
<1>1. Max(Usages) \in Nat /\ Max(Usages) * 0 = 0 /\ Max(Usages) * 1 = Max(Usages)
  BY LargestUsage
<1>2. CASE NextDay
  <2>1. BudgetTypes' /\ used' = 0
    BY <1>0, <1>2 DEF NextDay, BudgetTypes
  <2>2. QED
    BY <1>0, <2>1, BudgetLeft
<1>3. CASE UNCHANGED <<used, job>>
  <2>1. BudgetTypes' /\ InFlight' = InFlight /\ FirstCall' = FirstCall /\ used' = used
    BY <1>0, <1>3 DEF BudgetTypes, InFlight, FirstCall
  <2>2. QED
    BY <2>1, BudgetUntouched
<1>4. ASSUME NEW q \in Generations, Receive(q)
      PROVE  BudgetInv'
  <2>1. /\ job' = [job EXCEPT ![q] = [NoRequest EXCEPT !.pc = "check"]] /\ used' = used
        /\ job[q].pc \in {"idle", "draft", "refused"}
    BY <1>4 DEF Receive
  <2>2. BudgetTypes'
    BY <1>0, <2>1 DEF BudgetTypes, NoRequest, Progress
  <2>3. \A g \in Generations : job'[g] = IF g = q THEN [NoRequest EXCEPT !.pc = "check"] ELSE job[g]
    BY <1>0, <2>1 DEF BudgetTypes
  <2>4. InFlight' \subseteq InFlight /\ FirstCall' \subseteq FirstCall
    BY <2>3 DEF InFlight, FirstCall, NoRequest
  <2>5. QED
    BY <2>1, <2>2, <2>4, BudgetUntouched
<1>5. ASSUME NEW q \in Generations, CheckTokenBudget(q)
      PROVE  BudgetInv'
  <2>1. job[q] \in Progress
    BY <1>0 DEF BudgetTypes
  <2>2. CASE used + Reserve <= DailyLimit
    <3>1. job' = [job EXCEPT ![q] = CallLLM(job[q])] /\ used' = used
      BY <1>5, <2>2 DEF CheckTokenBudget
    <3>2. CallLLM(job[q]) \in Progress
      BY <2>1, CallMade
    <3>3. BudgetTypes'
      BY <1>0, <3>1, <3>2 DEF BudgetTypes
    <3>4. QED
      BY <2>2, <3>1, <3>3, BudgetLeft
  <2>3. CASE ~(used + Reserve <= DailyLimit)
    <3>1. job' = [job EXCEPT ![q] = [job[q] EXCEPT !.pc = "refused"]] /\ used' = used
      BY <1>5, <2>3 DEF CheckTokenBudget
    <3>2. BudgetTypes'
      BY <1>0, <2>1, <3>1 DEF BudgetTypes, Progress
    <3>3. \A g \in Generations : job'[g] = IF g = q THEN [job[q] EXCEPT !.pc = "refused"] ELSE job[g]
      BY <1>0, <3>1 DEF BudgetTypes
    <3>4. InFlight' \subseteq InFlight /\ FirstCall' \subseteq FirstCall
      BY <2>1, <3>3 DEF InFlight, FirstCall, Progress
    <3>5. QED
      BY <3>1, <3>2, <3>4, BudgetUntouched
  <2>4. QED
    BY <2>2, <2>3
<1>6. ASSUME NEW q \in Generations, Answer(q)
      PROVE  BudgetInv'
  <2>1. PICK n \in Usages, c \in Candidates :
          job' = [job EXCEPT ![q] = [job[q] EXCEPT !.pc = "record", !.tokens = n, !.candidate = c]]
    BY <1>6 DEF Answer
  <2>2. used' = used /\ job[q].pc = "calling"
    BY <1>6 DEF Answer
  <2>3. job[q] \in Progress
    BY <1>0 DEF BudgetTypes
  <2>4. BudgetTypes'
    BY <1>0, <2>1, <2>2, <2>3 DEF BudgetTypes, Progress
  <2>5. \A g \in Generations :
          job'[g] = IF g = q THEN [job[q] EXCEPT !.pc = "record", !.tokens = n, !.candidate = c] ELSE job[g]
    BY <1>0, <2>1 DEF BudgetTypes
  <2>6. InFlight' \subseteq InFlight /\ FirstCall' \subseteq FirstCall
    <3>1. job'[q].calls = job[q].calls
      BY <2>3, <2>5 DEF Progress
    <3>2. QED
      BY <2>2, <2>5, <3>1 DEF InFlight, FirstCall
  <2>7. QED
    BY <2>2, <2>4, <2>6, BudgetUntouched
<1>7. ASSUME NEW q \in Generations, ProviderError(q) \/ Timeout(q) \/ RecordFails(q)
      PROVE  BudgetInv'
  <2>1. job' = [job EXCEPT ![q].pc = "refused"] /\ used' = used
    BY <1>7 DEF ProviderError, Timeout, RecordFails
  <2>2. job[q] \in Progress
    BY <1>0 DEF BudgetTypes
  <2>3. BudgetTypes'
    BY <1>0, <2>1, <2>2 DEF BudgetTypes, Progress
  <2>4. \A g \in Generations : job'[g] = IF g = q THEN [job[q] EXCEPT !.pc = "refused"] ELSE job[g]
    BY <1>0, <2>1 DEF BudgetTypes
  <2>5. InFlight' \subseteq InFlight /\ FirstCall' \subseteq FirstCall
    BY <2>2, <2>4 DEF InFlight, FirstCall, Progress
  <2>6. QED
    BY <2>1, <2>3, <2>5, BudgetUntouched
<1>8. ASSUME NEW q \in Generations, RecordTokenUsage(q)
      PROVE  BudgetInv'
  <2>1. job' = [job EXCEPT ![q] = Judge(job[q])] /\ used' = used + job[q].tokens /\ job[q].pc = "record"
    BY <1>8 DEF RecordTokenUsage
  <2>2. job[q] \in Progress
    BY <1>0 DEF BudgetTypes
  <2>3. job[q].tokens \in Nat /\ job[q].tokens <= Max(Usages)
    <3>1. job[q].tokens \in Usages \/ job[q].tokens = 0
      BY <2>2 DEF Progress
    <3>2. QED
      <4>1. CASE job[q].tokens \in Usages
        BY <4>1, LargestUsage, GenerationAssumption
      <4>2. CASE job[q].tokens = 0
        BY <1>1, <4>2
      <4>3. QED
        BY <3>1, <4>1, <4>2
  <2>4. /\ Judge(job[q]) \in Progress
        /\ \/ Judge(job[q]).pc \in {"draft", "refused"}
           \/ job[q].calls = 1 /\ Judge(job[q]).pc = "calling" /\ Judge(job[q]).calls = 2
    BY <2>2, Judged
  <2>5. BudgetTypes'
    BY <1>0, <2>1, <2>3, <2>4 DEF BudgetTypes
  <2>6. \A g \in Generations : job'[g] = IF g = q THEN Judge(job[q]) ELSE job[g]
    BY <1>0, <2>1 DEF BudgetTypes
  <2>7. /\ InFlight' \subseteq InFlight /\ FirstCall' \subseteq FirstCall
        /\ InFlight' # InFlight \/ FirstCall' # FirstCall
    BY <2>1, <2>4, <2>6 DEF InFlight, FirstCall
  <2>8. CallsToCount' + 1 <= CallsToCount /\ used' <= used + Max(Usages) * 1
    BY <1>0, <1>1, <2>1, <2>3, <2>7, FewerCalls
  <2>9. QED
    BY <2>5, <2>8, BudgetKept, CallsStayFew
<1>9. QED
  BY <1>2, <1>3, <1>4, <1>5, <1>6, <1>7, <1>8
  DEF GenerationNext, Steps, LateAnswer, generationVars

\* The budget of a day is overshot by no more than two calls of each request in
\* progress, for any limit, reserve, number of requests and usage of a call: what the
\* check before a call and the count after it (checkTokenBudget, recordTokenUsage) amount to.
THEOREM OvershootsAreBounded == GenerationSpec => []OvershootIsBounded
<1>1. GenerationInit => BudgetInv
  <2>1. SUFFICES ASSUME GenerationInit PROVE BudgetInv
    OBVIOUS
  <2>2. BudgetTypes /\ used = 0
    BY <2>1 DEF GenerationInit, BudgetTypes, NoRequest, Progress
  <2>3. Max(Usages) * CallsToCount <= Max(Usages) * (2 * Cardinality(Generations))
    BY LargestUsage, CallsAreFew, Product
  <2>4. Max(Usages) * CallsToCount \in Nat /\ Max(Usages) * (2 * Cardinality(Generations)) \in Nat
    BY LargestUsage, CallsAreFew, Product
  <2>5. QED
    BY <2>2, <2>3, <2>4, GenerationAssumption DEF BudgetInv
<1>2. BudgetInv /\ [GenerationNext]_generationVars => BudgetInv'
  BY BudgetKeeps
<1>3. BudgetInv => OvershootIsBounded
  <2>1. SUFFICES ASSUME BudgetInv PROVE OvershootIsBounded
    OBVIOUS
  <2> DEFINE m == Max(Usages)
             n == Cardinality(Generations)
  <2>2. m \in Nat /\ n \in Nat /\ m * CallsToCount \in Nat /\ used \in Nat
    BY <2>1, LargestUsage, CallsAreFew, Product DEF BudgetInv, BudgetTypes
  <2>3. used + Reserve + m * CallsToCount <= DailyLimit + m * (2 * n)
    BY <2>1 DEF BudgetInv
  <2> HIDE DEF m, n
  <2>4. m * (2 * n) = 2 * n * m /\ 2 * n * m \in Nat
    BY <2>2, SMT
  <2>5. used + Reserve <= DailyLimit + 2 * n * m
    BY <2>2, <2>3, <2>4, GenerationAssumption
  <2>6. QED
    BY <2>5 DEF OvershootIsBounded, m, n
<1>4. QED
  BY <1>1, <1>2, <1>3, PTL DEF GenerationSpec

===============================================================================
