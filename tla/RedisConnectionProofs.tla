------------------------- MODULE RedisConnectionProofs -------------------------
(***************************************************************************)
(* Proof that no command waits for more than one read of each other loop   *)
(* of its process, for any number of callers, processes and seconds of     *)
(* BLOCK; that this holds in an orchestrator and a worker whatever their   *)
(* loops and timers do; and what follows from it: when an overdue run is   *)
(* marked, when a due retry reaches its stream, when a step stops.         *)
(*                                                                         *)
(* WaitIsBounded is not inductive: a command that has waited long could    *)
(* have many reads before it.  Bounded counts both, the time behind and    *)
(* the reads ahead; it needs the order of the commands of a connection     *)
(* (Ordered), that the one executed is the first of them (FirstHasTurn)    *)
(* and that no other read has used up time (Fresh).                        *)
(*                                                                         *)
(* The bounds of the timers are proved the same way.  MarkedIn and         *)
(* MovedIn say how many seconds are left at most, as a sum over the        *)
(* commands that have still to be answered; no step makes it longer, and a *)
(* second makes it shorter by one, because nobody who has something to     *)
(* send is idle while time passes.  A retry that a poll leaves behind has  *)
(* had PollLimit older ones before it, which pays for one more period      *)
(* (LeftForLater); no retry that becomes due later goes before it.         *)
(***************************************************************************)
EXTENDS ProcessTimers, FiniteSetTheorems, TLAPS

Ordered ==
  /\ \A c \in Callers : ahead[c] \subseteq (pending \cap Together(c)) \ {c}
  /\ \A c, d \in pending : ConnectionOf[c] = ConnectionOf[d] /\ c # d =>
                             c \in ahead[d] \/ d \in ahead[c]

FirstHasTurn ==
  \A k \in Connections : turn[k] # NoOne =>
    turn[k] \in pending /\ ConnectionOf[turn[k]] = k /\ ahead[turn[k]] = {}

Fresh == \A c \in Callers : left[c] # Block => c \in reading /\ turn[ConnectionOf[c]] = c

\* Of the read that is executed and that c waits for, the seconds that are over.
Spent(c) ==
  IF turn[ConnectionOf[c]] \in ahead[c] \cup {c} THEN Block - left[turn[ConnectionOf[c]]] ELSE 0

Reads(c) == Cardinality(ahead[c] \cap reading)

\* The seconds until a command is answered, at most, and those it ever has to wait.
Wait(c) == Block * Reads(c) - Spent(c)
Longest(c) == Block * Cardinality(Rivals(c))

Bounded == \A c \in pending : waited[c] + Wait(c) <= Longest(c)

Inv == TypeOK /\ Ordered /\ FirstHasTurn /\ Fresh /\ Bounded

-------------------------------------------------------------------------------

\* The products of the bound: monotonicity and distribution.
LEMMA TimesMonotone ==
  ASSUME NEW b \in Nat, NEW m \in Nat, NEW n \in Nat, m <= n
  PROVE  b * m <= b * n
  OBVIOUS

LEMMA TimesLess ==
  ASSUME NEW b \in Nat, NEW n \in Int
  PROVE  b * (n - 1) = b * n - b
  OBVIOUS

\* The sets that are counted are finite.
LEMMA Counted ==
  ASSUME TypeOK, NEW c \in Callers
  PROVE  /\ Reads(c) \in Nat /\ IsFiniteSet(ahead[c] \cap reading)
         /\ Cardinality(Rivals(c)) \in Nat /\ IsFiniteSet(Rivals(c))
         /\ ConnectionOf[c] \in Connections
         /\ Block * Reads(c) \in Nat /\ Longest(c) \in Nat
<1>1. ahead[c] \cap reading \in SUBSET Callers /\ Rivals(c) \in SUBSET Callers
  BY ConnectionAssumption DEF TypeOK, Rivals
<1>2. IsFiniteSet(ahead[c] \cap reading) /\ IsFiniteSet(Rivals(c))
  BY <1>1, FS_Subset, ConnectionAssumption
<1>3. Reads(c) \in Nat /\ Cardinality(Rivals(c)) \in Nat
  BY <1>2, FS_CardinalityType DEF Reads
<1> QED BY <1>2, <1>3, ConnectionAssumption DEF Connections, Longest

LEMMA WaitType ==
  ASSUME TypeOK, NEW c \in Callers
  PROVE  Spent(c) \in Nat /\ Wait(c) \in Int
<1>1. Block \in Nat
  BY ConnectionAssumption
<1>2. Spent(c) \in Nat
  <2>1. CASE turn[ConnectionOf[c]] \in ahead[c] \cup {c}
    <3>1. left[turn[ConnectionOf[c]]] \in 0..Block
      BY <2>1 DEF TypeOK
    <3> QED BY <1>1, <2>1, <3>1 DEF Spent
  <2>2. CASE turn[ConnectionOf[c]] \notin ahead[c] \cup {c}
    BY <2>2 DEF Spent
  <2> QED BY <2>1, <2>2
<1>3. Block * Reads(c) \in Nat
  BY Counted
<1>4. Wait(c) \in Int
  BY <1>2, <1>3 DEF Wait
<1> QED BY <1>2, <1>4

\* What a caller still has ahead is at least the read that is executed ...
LEMMA NothingOwed ==
  ASSUME Inv, NEW c \in pending \ reading
  PROVE  Wait(c) \in Nat
<1> DEFINE t == turn[ConnectionOf[c]]
<1>1. c \in Callers /\ Block \in Nat
  BY ConnectionAssumption DEF Inv, TypeOK
<1>2. /\ Reads(c) \in Nat /\ IsFiniteSet(ahead[c] \cap reading)
      /\ ConnectionOf[c] \in Connections /\ Block * Reads(c) \in Nat
  BY <1>1, Counted DEF Inv
<1>3. CASE t \in ahead[c] \cap reading
  <2>1. Reads(c) # 0
    BY <1>2, <1>3, FS_EmptySet DEF Reads
  <2>2. Block * 1 <= Block * Reads(c)
    BY <1>1, <1>2, <2>1, TimesMonotone
  <2>3. Spent(c) <= Block /\ Spent(c) \in Nat
    BY <1>1, <1>3 DEF Spent, Inv, TypeOK
  <2> QED BY <1>1, <1>2, <2>2, <2>3 DEF Wait
<1>4. CASE t \notin ahead[c] \cap reading
  <2>1. Spent(c) = 0
    BY <1>1, <1>4 DEF Spent, Inv, TypeOK, Fresh
  <2> QED BY <1>2, <2>1 DEF Wait
<1> QED BY <1>3, <1>4

\* ... so that the invariant gives the property.
LEMMA Suffices ==
  ASSUME Inv
  PROVE  WaitIsBounded
<1> SUFFICES ASSUME NEW c \in pending \ reading
             PROVE  waited[c] <= Longest(c)
  BY DEF WaitIsBounded, Longest
<1>1. Wait(c) \in Nat /\ waited[c] \in Nat /\ Longest(c) \in Nat
  BY NothingOwed, Counted DEF Inv, TypeOK
<1>2. waited[c] + Wait(c) <= Longest(c)
  BY DEF Inv, Bounded
<1> QED BY <1>1, <1>2

\* A new command has every other loop ahead at most once, and is behind every
\* command that waits.
LEMMA Sent ==
  ASSUME Inv, NEW c \in Callers, NEW isRead \in BOOLEAN, Send(c, isRead)
  PROVE  Inv' /\ Wait(c)' <= Longest(c) /\ \A d \in pending : Wait(d)' <= Wait(d)
<1>1. TypeOK'
  BY ConnectionAssumption DEF Inv, TypeOK, Send
<1>2. Ordered'
  BY DEF Inv, TypeOK, Ordered, Send, Together
<1>3. FirstHasTurn'
  BY DEF Inv, TypeOK, FirstHasTurn, Send, Connections
<1>4. Fresh'
  BY DEF Inv, TypeOK, Fresh, Send
<1>5. Block \in Nat /\ \A d \in Callers : Longest(d)' = Longest(d)
  BY ConnectionAssumption DEF Longest, Rivals, Together
<1>6. Wait(c)' <= Longest(c) /\ Wait(c)' \in Int
  <2>1. Cardinality(Rivals(c)) \in Nat /\ IsFiniteSet(Rivals(c)) /\ Longest(c) \in Nat
    BY Counted DEF Inv
  <2>2. ahead'[c] \cap reading' \in SUBSET Rivals(c)
    BY <1>1, <1>2 DEF TypeOK, Ordered, Rivals, Together, Send
  <2>3. Reads(c)' <= Cardinality(Rivals(c)) /\ Reads(c)' \in Nat
    BY <2>1, <2>2, FS_Subset, FS_CardinalityType DEF Reads
  <2>4. Block * Reads(c)' <= Longest(c)
    BY <1>5, <2>1, <2>3, TimesMonotone DEF Longest
  <2>5. Spent(c)' \in Nat
    BY <1>1, <1>5 DEF Inv, TypeOK, Send, Spent
  <2>6. Block * Reads(c)' \in Nat /\ Wait(c)' = Block * Reads(c)' - Spent(c)'
    BY <1>5, <2>3 DEF Wait
  <2> QED BY <2>1, <2>4, <2>5, <2>6
<1>7. ASSUME NEW d \in pending
      PROVE  Wait(d)' = Wait(d) /\ d # c /\ waited'[d] = waited[d]
  <2>1. d \in Callers /\ d # c /\ waited'[d] = waited[d] /\ ahead'[d] = ahead[d]
    BY <1>7 DEF Inv, TypeOK, Send
  <2>2. ahead[d] \cap reading' = ahead[d] \cap reading
    BY <2>1 DEF Inv, Ordered, Send
  <2>3. Spent(d)' = Spent(d)
    BY <2>1 DEF Inv, TypeOK, Ordered, Send, Spent
  <2> QED BY <2>1, <2>2, <2>3 DEF Wait, Reads
<1>8. Bounded'
  <2> SUFFICES ASSUME NEW d \in pending'
               PROVE  (waited[d] + Wait(d) <= Longest(d))'
    BY DEF Bounded
  <2>1. CASE d = c
    <3>1. waited'[c] = 0
      BY DEF Inv, TypeOK, Send
    <3> QED BY <1>5, <1>6, <2>1, <3>1
  <2>2. CASE d # c
    BY <1>5, <1>7, <2>2 DEF Inv, TypeOK, Bounded, Send
  <2> QED BY <2>1, <2>2
<1>9. \A d \in pending : Wait(d) \in Int
  BY WaitType DEF Inv, TypeOK
<1> QED BY <1>1, <1>2, <1>3, <1>4, <1>6, <1>7, <1>8, <1>9 DEF Inv

LEMMA Taken ==
  ASSUME Inv, NEW c \in Callers, Take(c)
  PROVE  Inv' /\ \A d \in pending : Wait(d)' <= Wait(d)
<1>1. TypeOK'
  BY DEF Inv, TypeOK, Take, Connections
<1>2. Ordered'
  BY DEF Inv, Ordered, Take, Together
<1>3. FirstHasTurn'
  BY DEF Inv, TypeOK, FirstHasTurn, Take, Connections
<1>4. left[c] = Block
  BY ConnectionAssumption DEF Inv, Fresh, Take
<1>5. Fresh'
  BY <1>4, ConnectionAssumption DEF Inv, TypeOK, Fresh, Take, Connections
<1>6. ASSUME NEW d \in pending
      PROVE  Wait(d)' = Wait(d) /\ Longest(d)' = Longest(d) /\ Wait(d) \in Int
  <2>1. d \in Callers /\ Longest(d)' = Longest(d) /\ Reads(d)' = Reads(d)
    BY DEF Inv, TypeOK, Longest, Rivals, Together, Reads, Take
  <2>2. Spent(d) = 0 \/ Spent(d)' = Spent(d)
    BY <2>1, ConnectionAssumption DEF Inv, TypeOK, Spent, Take, Connections
  <2>3. Spent(d)' = 0 \/ Spent(d)' = Spent(d)
    BY <1>4, <2>1, ConnectionAssumption DEF Inv, TypeOK, Spent, Take, Connections
  <2>4. Spent(d)' = Spent(d)
    BY <1>4, <2>1, <2>2, <2>3, ConnectionAssumption DEF Inv, TypeOK, Spent, Take, Connections
  <2>5. Wait(d) \in Int
    BY <2>1, WaitType DEF Inv
  <2> QED BY <2>1, <2>4, <2>5 DEF Wait
<1>7. Bounded'
  BY <1>6 DEF Inv, Bounded, Take
<1> QED BY <1>1, <1>2, <1>3, <1>5, <1>6, <1>7 DEF Inv

\* A read that is answered leaves the callers behind it with one read less
\* ahead, which pays for the seconds it took.
LEMMA IsAnswered ==
  ASSUME Inv, NEW c \in Callers, Answer(c)
  PROVE  Inv' /\ \A d \in pending \ {c} : Wait(d)' <= Wait(d)
<1>0. ConnectionOf[c] \in Connections /\ ahead[c] = {} /\ Block \in Nat
  BY ConnectionAssumption DEF Inv, TypeOK, FirstHasTurn, Answer, Connections
<1>1. TypeOK'
  BY <1>0 DEF Inv, TypeOK, Answer
<1>2. Ordered'
  BY DEF Inv, TypeOK, Ordered, Answer, Together
<1>3. FirstHasTurn'
  BY DEF Inv, TypeOK, FirstHasTurn, Answer, Connections
<1>4. Fresh'
  BY <1>0, ConnectionAssumption DEF Inv, TypeOK, Fresh, Answer, Connections
<1>5. ASSUME NEW d \in pending, d # c
      PROVE  /\ Wait(d)' <= Wait(d) /\ Longest(d)' = Longest(d) /\ waited'[d] = waited[d]
             /\ Wait(d) \in Int /\ Wait(d)' \in Int
  <2>1. /\ d \in Callers /\ ahead'[d] = ahead[d] \ {c}
        /\ Longest(d)' = Longest(d) /\ waited'[d] = waited[d]
        /\ ConnectionOf[d] \in Connections
    BY <1>5 DEF Inv, TypeOK, Longest, Rivals, Together, Answer, Connections
  <2>2. /\ Reads(d) \in Nat /\ IsFiniteSet(ahead[d] \cap reading) /\ Block * Reads(d) \in Nat
        /\ Spent(d) \in Nat
    BY <2>1, Counted, WaitType DEF Inv
  <2>3. CASE ConnectionOf[d] = ConnectionOf[c]
    <3>1. c \in ahead[d]
      BY <1>0, <1>5, <2>3 DEF Inv, Ordered, Answer
    <3>2. Spent(d) = Block - left[c] /\ Spent(d)' = 0
      BY <1>0, <2>1, <2>3, <3>1, ConnectionAssumption DEF Inv, TypeOK, Spent, Answer
    <3>3. (ahead[d] \cap reading)' = (ahead[d] \cap reading) \ {c} /\ left[c] \in Nat
      BY <2>1 DEF Answer, Inv, TypeOK
    <3>4. CASE c \in reading
      <4>1. Reads(d)' = Reads(d) - 1
        BY <2>2, <3>1, <3>3, <3>4, FS_RemoveElement DEF Reads
      <4>2. Block * Reads(d)' = Block * Reads(d) - Block
        BY <1>0, <2>2, <4>1, TimesLess
      <4> QED BY <1>0, <2>1, <2>2, <3>2, <3>3, <4>2 DEF Wait
    <3>5. CASE c \notin reading
      <4>1. Reads(d)' = Reads(d) /\ left[c] = Block
        BY <3>3, <3>5 DEF Reads, Inv, Fresh
      <4> QED BY <1>0, <2>1, <2>2, <3>2, <4>1 DEF Wait
    <3> QED BY <3>4, <3>5
  <2>4. CASE ConnectionOf[d] # ConnectionOf[c]
    <3>1. c \notin ahead[d]
      BY <2>1, <2>4 DEF Inv, Ordered, Together
    <3>2. (ahead[d] \cap reading)' = ahead[d] \cap reading
      BY <2>1, <3>1 DEF Answer
    <3>3. turn'[ConnectionOf[d]] = turn[ConnectionOf[d]]
      BY <2>1, <2>4 DEF Inv, TypeOK, Answer
    <3>4. Spent(d)' = Spent(d)
      BY <2>1, <2>4, <3>1, <3>3 DEF Inv, TypeOK, Ordered, Spent, Answer, Together
    <3>5. Reads(d)' = Reads(d)
      BY <3>2 DEF Reads
    <3> QED BY <2>1, <2>2, <3>4, <3>5 DEF Wait
  <2> QED BY <2>3, <2>4
<1>6. Bounded'
  <2> SUFFICES ASSUME NEW d \in pending'
               PROVE  (waited[d] + Wait(d) <= Longest(d))'
    BY DEF Bounded
  <2>1. d \in pending /\ d # c
    BY DEF Answer
  <2>2. waited[d] + Wait(d) <= Longest(d) /\ waited[d] \in Nat /\ Longest(d) \in Nat
    BY <2>1, Counted DEF Inv, TypeOK, Bounded
  <2> QED BY <1>5, <2>1, <2>2
<1> QED BY <1>1, <1>2, <1>3, <1>4, <1>5, <1>6 DEF Inv

\* A second passes only while a read that every waiting caller of its connection
\* waits for uses it up.
LEMMA SecondPassed ==
  ASSUME Inv, Second
  PROVE  Inv' /\ \A d \in pending : Wait(d)' = Wait(d) - 1
<1>1. \A d \in pending : /\ d \in Callers /\ ConnectionOf[d] \in Connections
                         /\ Blocked(ConnectionOf[d])
  BY DEF Inv, TypeOK, Second, Rests, Connections
<1>2. \A c \in Callers : turn[ConnectionOf[c]] = c => c \in reading /\ left[c] > 0
  BY <1>1, ConnectionAssumption DEF Inv, FirstHasTurn, Blocked, Connections
<1>3. TypeOK'
  BY <1>2, ConnectionAssumption DEF Inv, TypeOK, Second
<1>4. Ordered'
  BY DEF Inv, Ordered, Second, Together
<1>5. FirstHasTurn'
  BY DEF Inv, FirstHasTurn, Second, Connections
<1>6. Fresh'
  BY <1>2 DEF Inv, TypeOK, Fresh, Second
<1>7. ASSUME NEW d \in pending
      PROVE  /\ Wait(d)' = Wait(d) - 1 /\ Wait(d) \in Int /\ Longest(d)' = Longest(d)
             /\ waited'[d] = waited[d] + 1 /\ waited[d] \in Nat
  <2> DEFINE t == turn[ConnectionOf[d]]
  <2>1. /\ d \in Callers /\ Longest(d)' = Longest(d) /\ Reads(d)' = Reads(d)
        /\ waited'[d] = waited[d] + 1 /\ waited[d] \in Nat /\ Block \in Nat
    BY <1>1, ConnectionAssumption DEF Inv, TypeOK, Longest, Rivals, Together, Reads, Second
  <2>2. t \in Callers /\ t \in pending /\ ConnectionOf[t] = ConnectionOf[d] /\ ahead[t] = {}
    BY <1>1, ConnectionAssumption DEF Inv, TypeOK, FirstHasTurn, Blocked
  <2>3. t \in ahead[d] \cup {d}
    BY <2>2 DEF Inv, Ordered
  <2>4. left'[t] = left[t] - 1 /\ left[t] \in Nat
    BY <2>2 DEF Inv, TypeOK, Second
  <2>5. turn' = turn /\ ahead' = ahead
    BY DEF Second
  <2>6. Spent(d)' = Spent(d) + 1 /\ Spent(d) \in Int
    BY <2>1, <2>3, <2>4, <2>5 DEF Spent
  <2>7. Block * Reads(d) \in Nat
    BY <2>1, Counted DEF Inv
  <2> QED BY <2>1, <2>6, <2>7 DEF Wait
<1>8. Bounded'
  BY <1>7, Counted DEF Inv, TypeOK, Bounded, Second
<1> QED BY <1>3, <1>4, <1>5, <1>6, <1>7, <1>8 DEF Inv

-------------------------------------------------------------------------------

LEMMA Initially ==
  ASSUME Init
  PROVE  Inv
<1>1. TypeOK /\ Ordered /\ FirstHasTurn /\ Fresh
  BY ConnectionAssumption DEF Init, TypeOK, Ordered, FirstHasTurn, Fresh, Connections
<1>2. Bounded
  BY DEF Init, Bounded
<1> QED BY <1>1, <1>2 DEF Inv

\* A step of the connections keeps the invariant, and no command is further from
\* its answer than before; a second brings each one nearer.
LEMMA Preserved ==
  ASSUME Inv, [Next]_connection
  PROVE  /\ Inv'
         /\ \A c \in Callers \cap pending' :
              IF c \in pending THEN Wait(c)' <= Wait(c) ELSE Wait(c)' <= Longest(c)
<1>0. \A c \in pending : Wait(c) \in Int
  BY WaitType DEF Inv, TypeOK
<1>1. CASE UNCHANGED connection
  BY <1>0, <1>1 DEF connection, Inv, TypeOK, Ordered, Together, FirstHasTurn, Fresh, Bounded, Reads,
              Rivals, Spent, Connections, Wait, Longest
<1>2. CASE Second
  BY <1>0, <1>2, SecondPassed DEF Second
<1>3. ASSUME NEW c \in Callers, \E isRead \in BOOLEAN : Send(c, isRead)
      PROVE  Inv' /\ \A d \in Callers \cap pending' :
               IF d \in pending THEN Wait(d)' <= Wait(d) ELSE Wait(d)' <= Longest(d)
  BY <1>3, Sent DEF Send
<1>4. ASSUME NEW c \in Callers, Take(c)
      PROVE  Inv' /\ pending' = pending /\ \A d \in pending : Wait(d)' <= Wait(d)
  BY <1>4, Taken DEF Take
<1>5. ASSUME NEW c \in Callers, Answer(c)
      PROVE  Inv' /\ pending' = pending \ {c} /\ \A d \in pending' : Wait(d)' <= Wait(d)
  BY <1>5, IsAnswered DEF Answer
<1> QED BY <1>1, <1>2, <1>3, <1>4, <1>5 DEF Next

\* On any set of connections, with any number of callers, a command waits for no
\* more than one blocking read of each other loop of its process.
THEOREM CommandsWaitForOneReadEach == Spec => []WaitIsBounded
<1>1. Init => Inv
  BY Initially
<1>2. Inv /\ [Next]_connection => Inv'
  BY Preserved
<1>3. Inv => WaitIsBounded
  BY Suffices
<1> QED BY <1>1, <1>2, <1>3, PTL DEF Spec

\* Every step of a process sends, takes or answers at most one command or lets a
\* second pass: it implements the connections.
LEMMA ProcessStep ==
  ASSUME [ProcessNext]_vars
  PROVE  [Next]_connection
<1>1. CASE UNCHANGED vars
  BY <1>1 DEF vars
<1>2. CASE ProcessNext
  <2>1. ASSUME NEW l \in Loops,
               Arrive(l) \/ ReadStream(l) \/ NoEntry(l) \/ TakeEntry(l) \/ Commit(l) \/ Fail(l)
        PROVE  [Next]_connection
    BY <2>1, ConnectionAssumption
       DEF Next, Arrive, ReadStream, NoEntry, TakeEntry, Commit, Fail
  <2>2. ASSUME NEW c \in Callers, SendNext(c) \/ Answered(c) \/ (Take(c) /\ UNCHANGED timers)
        PROVE  [Next]_connection
    BY <2>2 DEF Next, SendNext, Answered
  <2>3. CASE Expire \/ Scan \/ Mark \/ EndScan \/ Cancel \/ EndStep
    BY <2>3 DEF Expire, Scan, Mark, EndScan, Cancel, EndStep
  <2>4. CASE Checked \/ Started \/ DelayChecked \/ ScriptChecked \/ Reported
    BY <2>4, TimersAssumption DEF Next, Checked, Started, DelayChecked, ScriptChecked, Reported
  <2>5. ASSUME NEW m \in Retries, BecomeDue(m)
        PROVE  [Next]_connection
    BY <2>5 DEF BecomeDue
  <2>6. ASSUME NEW p \in Polls, StartPoll(p) \/ Ranged(p) \/ Removed(p) \/ Moved(p)
        PROVE  [Next]_connection
    BY <2>6, TimersAssumption DEF Next, StartPoll, Ranged, Removed, Moved
  <2>7. CASE Elapse
    BY <2>7 DEF Next, Elapse
  <2> QED BY <1>2, <2>1, <2>2, <2>3, <2>4, <2>5, <2>6, <2>7 DEF ProcessNext
<1> QED BY <1>1, <1>2

\* An orchestrator and a worker, whatever their loops, timers and steps do, use
\* their connection as Spec says.
THEOREM ProcessesImplementConnections == ProcessSpec => Spec
<1>1. ProcessInit => Init
  BY DEF ProcessInit
<1>2. [ProcessNext]_vars => [Next]_connection
  BY ProcessStep
<1> QED BY <1>1, <1>2, PTL DEF ProcessSpec, Spec

\* Hence their commands wait no longer.
COROLLARY ProcessCommandsWaitForOneReadEach == ProcessSpec => []WaitIsBounded
<1> QED BY ProcessesImplementConnections, CommandsWaitForOneReadEach, PTL

-------------------------------------------------------------------------------
(* What the loops and timers of a process do with its connection.           *)

\* The places of a caller.
PcsOf(c) ==
  CASE c = "runs"    -> {"read", "handle", "ack"}
    [] c = "events"  -> {"read", "handle", "handleOverdue", "ack"}
    [] c = "scanner" -> {"rest", "update", "publish"}
    [] c = "steps"   -> {"read", "check", "start", "execute", "report", "ack"}
    [] c = "watch"   -> {"rest"}
    [] OTHER         -> {"rest", "range", "zrem", "xadd"}

Job(c) == [pc: PcsOf(c), todo: Nat, list: SUBSET (Nat \cup Retries)]

\* What a caller may have to send where it is.
Fits(c, j) ==
  /\ j \in Job(c)
  /\ j.pc \in {"read", "rest", "update"} /\ c # "watch" => j.todo = 0
  /\ j.pc \in {"handle", "handleOverdue"} => j.todo <= MaxCommands
  /\ j.pc = "publish" => j.todo <= Batch
  /\ j.pc \in {"ack", "check", "start", "report", "range", "zrem", "xadd"} => j.todo = 1
  /\ j.pc \in {"range", "zrem", "xadd"} => j.list \subseteq Retries
  /\ j.pc \in {"zrem", "xadd"} => j.list # {}
  /\ j.pc = "update" => IsFiniteSet(j.list) /\ Cardinality(j.list) <= Batch

JobsOK ==
  /\ DOMAIN job = Callers
  /\ \A c \in Callers : Fits(c, job[c])

\* A command is one its caller had to send; only a loop that reads blocks.
CommandsOK ==
  /\ \A c \in pending : Active(c) /\ (c \in reading \/ job[c].todo > 0)
  /\ \A c \in reading : At(c, "read")

\* The callers of the other kind of process do nothing.
IdleOK == \A c \in Callers : Active(c) \/ job[c].pc \in {"read", "rest"}

ClocksOK ==
  /\ process \in {"orchestrator", "worker"}
  /\ stock \in [Loops -> Nat]
  /\ overdue \in BOOLEAN /\ late \in Nat /\ (overdue => process = "orchestrator")
  /\ ~overdue => late = 0
  /\ rest \in 0..(IF process = "worker" THEN PollInterval ELSE ScanInterval)

StepOK ==
  /\ step \in [kind: Kinds \cup {"none"}, age: Nat, cancelled: BOOLEAN, since: Nat]
  /\ job["steps"].pc \in {"check", "start"} => step.age = 0 /\ step.since = 0
  /\ At("steps", "execute") => step.kind \in Kinds

RetriesOK ==
  /\ retry \in [Retries -> {"none", "later", "due", "removed"}] /\ lag \in [Retries -> Nat]
  /\ \A m \in Retries : retry[m] # "none" => process = "worker"

TimersInv == Inv /\ JobsOK /\ CommandsOK /\ IdleOK /\ ClocksOK /\ StepOK /\ RetriesOK

-------------------------------------------------------------------------------

\* A cancelled DELAY or script has been looked at after its first second.
StopInv ==
  At("steps", "execute") =>
    /\ step.since > 0 => step.cancelled
    /\ step.kind = "DELAY" /\ step.since > 0 => job["steps"].todo = 1 \/ step.age >= Limit
    /\ step.kind \in {"SCRIPT", "stubborn SCRIPT"} /\ step.since > 0 => job["watch"].todo = 1
    /\ step.kind # "HTTP" => step.since <= 1
    /\ step.kind # "stubborn SCRIPT" => step.age <= Limit

\* The seconds until the command that a caller has sent, or has to send, is
\* answered, at most.
AnswerIn(c) == IF c \in pending THEN Wait(c) ELSE Longest(c)

\* The same for all the commands it has to send.
AllAnsweredIn(c) ==
  IF job[c].todo = 0 THEN 0 ELSE Longest(c) * (job[c].todo - 1) + AnswerIn(c)

\* The seconds until the run is marked, at most: the transaction that holds its
\* row, if the scan has found it; otherwise also the events of the other runs,
\* the rest, and the longest transaction that can hold the row at the next scan.
RowHeldFor == IF At("events", "handleOverdue") THEN AllAnsweredIn("events") ELSE 0
LongestHold == MaxCommands * Block
AfterScan ==
  IF 1 \in job["scanner"].list THEN 0
  ELSE 2 * Block * Cardinality(job["scanner"].list) + ScanInterval + LongestHold
MarkedIn ==
  CASE At("scanner", "rest")   -> rest + LongestHold
    [] At("scanner", "update") -> RowHeldFor + AfterScan
    [] OTHER                   -> AllAnsweredIn("scanner") + ScanInterval + LongestHold
MarkLimit == ScanInterval + 2 * MaxCommands * Block + 2 * Batch * Block

MarkInv == overdue => late + MarkedIn <= MarkLimit

\* The member of its list that a poll removes or adds, and the seconds until it
\* is through with its list: a ZREM and an XADD for each.
Current(p) == CHOOSE m \in job[p].list : TRUE
AfterAnswer(p) ==
  CASE At(p, "range") -> 2 * Block * MostMembers
    [] At(p, "zrem")  -> 2 * Block * Cardinality(job[p].list) - Block
    [] OTHER          -> 2 * Block * Cardinality(job[p].list) - 2 * Block
PollEndsIn(p) == AnswerIn(p) + AfterAnswer(p)

\* What a poll may find before m, and the seconds that k of them put m off for:
\* one more period for each PollLimit.
Older(m) == {n \in Due \ {m} : lag[n] >= lag[m]}
Delay(k) == (k \div PollLimit) * PollPeriod
RetryLimit == ((Cardinality(Retries) - 1) \div PollLimit + 1) * PollPeriod

\* The seconds from the end of a poll until m is moved: none if m is in its list;
\* otherwise the older ones that the poll leaves go before m.
Afterwards(m, p) ==
  IF At(p, "range") THEN Delay(Cardinality(Older(m)))
  ELSE IF m \in job[p].list THEN 0
  ELSE PollPeriod + Delay(Cardinality(Older(m) \ job[p].list))
MovedIn(m, p) == PollEndsIn(p) + Afterwards(m, p)
NextMovesIn(m) == rest + PollLength + Delay(Cardinality(Older(m)))

\* A poll at work moves a due retry, or leaves it to the next one, in time, or the
\* poll that has still to start does.
FoundBy(m, p) ==
  /\ job[p].pc \in {"range", "zrem", "xadd"} /\ (At(p, "range") => m \in job[p].list)
  /\ lag[m] + MovedIn(m, p) <= RetryLimit
Found(m) ==
  \/ \E p \in Polls : FoundBy(m, p)
  \/ lag[m] + NextMovesIn(m) <= RetryLimit

\* The poll that has removed a retry adds it.
KeptBy(m, p) == At(p, "xadd") /\ Current(p) = m /\ lag[m] + AnswerIn(p) <= RetryLimit
Kept(m) == \E p \in Polls : KeptBy(m, p)

MoveInv ==
  /\ \A m \in Retries : /\ retry[m] = "due" => Found(m)
                        /\ retry[m] = "removed" => Kept(m)
                        /\ retry[m] \in {"none", "later"} => lag[m] = 0
  /\ \A p \in Polls : At(p, "xadd") => retry[Current(p)] = "removed"
  /\ \A p, q \in Polls : At(p, "xadd") /\ At(q, "xadd") /\ p # q => Current(p) # Current(q)

-------------------------------------------------------------------------------

\* The callers are different, and so are their places.
LEMMA Named ==
  /\ {"runs", "events", "scanner", "steps", "watch"} \subseteq Callers
  /\ Polls \subseteq Callers /\ Loops = {"runs", "events", "steps"}
  /\ \A p \in Polls : p \notin {"runs", "events", "scanner", "steps", "watch"}
  /\ \A c \in Callers : c \in {"runs", "events", "scanner", "steps", "watch"} \/ c \in Polls
  /\ \A c \in {"runs", "events", "scanner"} : ConnectionOf[c] = "orchestrator"
  /\ \A c \in {"steps", "watch"} \cup Polls : ConnectionOf[c] = "worker"
BY TimersAssumption

LEMMA Places ==
  /\ PcsOf("runs") = {"read", "handle", "ack"}
  /\ PcsOf("events") = {"read", "handle", "handleOverdue", "ack"}
  /\ PcsOf("scanner") = {"rest", "update", "publish"}
  /\ PcsOf("steps") = {"read", "check", "start", "execute", "report", "ack"}
  /\ PcsOf("watch") = {"rest"}
  /\ \A p \in Polls : PcsOf(p) = {"rest", "range", "zrem", "xadd"}
BY Named DEF PcsOf

\* The bounds are positive numbers.
LEMMA Numbers ==
  /\ Block \in Nat
  /\ ScanInterval \in Nat \ {0} /\ PollInterval \in Nat \ {0} /\ MaxCommands \in Nat \ {0}
  /\ PollLimit \in Nat \ {0} /\ Grace \in Nat
  /\ Batch \in Nat \ {0} /\ Limit \in Nat \ {0} /\ MaxEntries \in Nat \ {0}
  /\ IsFiniteSet(Retries) /\ Cardinality(Retries) \in Nat
BY TimersAssumption, ConnectionAssumption, FS_CardinalityType

\* A caller that moves and leaves the others alone.
LEMMA OneMoves ==
  ASSUME JobsOK, NEW c \in Callers, NEW j, job' = [job EXCEPT ![c] = j], Fits(c, j)
  PROVE  /\ JobsOK'
         /\ job'[c] = j /\ \A d \in Callers : d # c => job'[d] = job[d]
<1>1. DOMAIN job = Callers
  BY DEF JobsOK
<1>2. job'[c] = j /\ \A d \in Callers : d # c => job'[d] = job[d]
  BY <1>1
<1>3. DOMAIN job' = Callers
  BY <1>1
<1> QED BY <1>2, <1>3 DEF JobsOK, Fits, Job

\* GoTo leaves no list behind.
LEMMA Goes ==
  ASSUME JobsOK, NEW c \in Callers, NEW pc \in PcsOf(c), NEW todo \in Nat, GoTo(c, pc, todo),
         pc \notin {"range", "zrem", "xadd", "update"},
         pc \in {"read", "rest"} /\ c # "watch" => todo = 0,
         pc \in {"handle", "handleOverdue"} => todo <= MaxCommands,
         pc = "publish" => todo <= Batch,
         pc \in {"ack", "check", "start", "report"} => todo = 1
  PROVE  /\ JobsOK'
         /\ job'[c] = [pc |-> pc, todo |-> todo, list |-> {}]
         /\ \A d \in Callers : d # c => job'[d] = job[d]
<1>1. Fits(c, [pc |-> pc, todo |-> todo, list |-> {}])
  BY DEF Fits, Job
<1> QED BY <1>1, OneMoves DEF GoTo

\* NextMember goes on with what is left of the list.
LEMMA GoesOn ==
  ASSUME JobsOK, NEW p \in Polls, NEW list \in SUBSET Retries, NextMember(p, list)
  PROVE  /\ JobsOK'
         /\ IF list = {} THEN job'[p] = [pc |-> "rest", todo |-> 0, list |-> {}]
            ELSE job'[p] = [pc |-> "zrem", todo |-> 1, list |-> list]
         /\ \A d \in Callers : d # p => job'[d] = job[d]
<1> DEFINE j == IF list = {} THEN [pc |-> "rest", todo |-> 0, list |-> {}]
                ELSE [pc |-> "zrem", todo |-> 1, list |-> list]
<1>1. Fits(p, j)
  BY Places, Named DEF Fits, Job
<1>2. job' = [job EXCEPT ![p] = j] /\ p \in Callers
  BY Named DEF NextMember
<1> HIDE DEF j
<1>3. /\ JobsOK' /\ job'[p] = j /\ \A d \in Callers : d # p => job'[d] = job[d]
  BY <1>1, <1>2, OneMoves
<1> QED BY <1>3 DEF j

\* What a caller is, from its place.
LEMMA JobTypes ==
  ASSUME JobsOK, NEW c \in Callers
  PROVE  /\ Fits(c, job[c]) /\ job[c].pc \in PcsOf(c) /\ job[c].todo \in Nat
         /\ job[c] = [pc |-> job[c].pc, todo |-> job[c].todo, list |-> job[c].list]
         /\ job[c].list \subseteq Nat \cup Retries
         /\ job[c].pc \in {"range", "zrem", "xadd"} => job[c].list \subseteq Retries
         /\ job[c].pc \in {"zrem", "xadd"} => job[c].list # {}
         /\ job[c].pc = "update" => /\ IsFiniteSet(job[c].list)
                                    /\ Cardinality(job[c].list) \in 0..Batch
<1>1. Fits(c, job[c])
  BY DEF JobsOK
<1>2. job[c].pc = "update" => Cardinality(job[c].list) \in Nat
  BY <1>1, FS_CardinalityType DEF Fits
<1> QED BY <1>1, <1>2, Numbers DEF Fits, Job

\* The runs that a scan finds.
LEMMA FoundRuns ==
  ASSUME NEW n \in 0..Batch, NEW list, list = 1..n \/ list = 2..(n + 1)
  PROVE  /\ IsFiniteSet(list) /\ Cardinality(list) = n
         /\ [pc |-> "update", todo |-> 0, list |-> list] \in Job("scanner")
<1>1. n \in Nat /\ n <= Batch
  BY Numbers
<1>2. IsFiniteSet(list) /\ Cardinality(list) = n
  <2>1. CASE list = 1..n
    BY <1>1, <2>1, FS_Interval
  <2>2. CASE list = 2..(n + 1)
    BY <1>1, <2>2, FS_Interval
  <2> QED BY <2>1, <2>2
<1>3. list \subseteq Nat
  BY <1>1
<1> QED BY <1>2, <1>3, Places DEF Job

\* A second wakes the delay and the interval of the script.
LEMMA ElapsedJobs ==
  ASSUME JobsOK, Elapse
  PROVE  /\ DOMAIN job' = Callers
         /\ \A d \in Callers : d \notin {"steps", "watch"} => job'[d] = job[d]
         /\ job'["steps"] = IF /\ At("steps", "execute") /\ step.kind = "DELAY"
                              /\ LooksForCancel(step.age + 1)
                           THEN [job["steps"] EXCEPT !.todo = 1] ELSE job["steps"]
         /\ job'["watch"] = IF /\ At("steps", "execute")
                              /\ step.kind \in {"SCRIPT", "stubborn SCRIPT"}
                           THEN [job["watch"] EXCEPT !.todo = 1] ELSE job["watch"]
<1> DEFINE s == At("steps", "execute") /\ step.kind = "DELAY" /\ LooksForCancel(step.age + 1)
           w == At("steps", "execute") /\ step.kind \in {"SCRIPT", "stubborn SCRIPT"}
<1>1. /\ DOMAIN job = Callers /\ "steps" \in Callers /\ "watch" \in Callers
      /\ \A c \in {"steps", "watch"} : job[c] = [job[c] EXCEPT !.todo = job[c].todo]
  BY JobTypes, Named DEF JobsOK
<1>2. job' = [job EXCEPT !["steps"].todo = IF s THEN 1 ELSE @, !["watch"].todo = IF w THEN 1 ELSE @]
  BY DEF Elapse
<1> HIDE DEF s, w
<1>3. /\ DOMAIN job' = Callers
      /\ \A d \in Callers : d \notin {"steps", "watch"} => job'[d] = job[d]
      /\ job'["steps"] = [job["steps"] EXCEPT !.todo = IF s THEN 1 ELSE @]
      /\ job'["watch"] = [job["watch"] EXCEPT !.todo = IF w THEN 1 ELSE @]
  BY <1>1, <1>2
<1>4. job'["steps"] = IF s THEN [job["steps"] EXCEPT !.todo = 1] ELSE job["steps"]
  BY <1>1, <1>3
<1>5. job'["watch"] = IF w THEN [job["watch"] EXCEPT !.todo = 1] ELSE job["watch"]
  BY <1>1, <1>3
<1> QED BY <1>3, <1>4, <1>5 DEF s, w

\* Every caller has what its place asks for, after every step.
LEMMA JobsStep ==
  ASSUME JobsOK, ProcessNext
  PROVE  JobsOK'
<1>1. ASSUME job' = job
      PROVE  JobsOK'
  BY <1>1 DEF JobsOK, Fits, Job
<1>2. ASSUME NEW l \in Loops,
             Arrive(l) \/ ReadStream(l) \/ NoEntry(l)
      PROVE  JobsOK'
  BY <1>1, <1>2 DEF Arrive, ReadStream, NoEntry, timers
<1>3. ASSUME NEW l \in Loops, TakeEntry(l)
      PROVE  JobsOK'
  <2>1. CASE l = "steps"
    BY <1>3, <2>1, Named, Places, Goes DEF TakeEntry
  <2>2. CASE l # "steps"
    <3>1. PICK n \in 0..MaxCommands, pc \in {"handle", "handleOverdue"} :
               (pc = "handleOverdue" => l = "events") /\ GoTo(l, pc, n)
      BY <1>3, <2>2 DEF TakeEntry
    <3>2. pc \in PcsOf(l) /\ n \in Nat /\ n <= MaxCommands /\ l \in Callers
      BY <2>2, <3>1, Named, Places, Numbers
    <3> QED BY <3>1, <3>2, Goes
  <2> QED BY <2>1, <2>2
<1>4. ASSUME NEW l \in Loops, Commit(l) \/ Fail(l)
      PROVE  JobsOK'
  <2>1. {"ack", "read"} \subseteq PcsOf(l) /\ l \in Callers
    BY Named, Places
  <2> QED BY <1>4, <2>1, Goes DEF Commit, Fail
<1>5. ASSUME NEW c \in Callers, SendNext(c) \/ (Take(c) /\ UNCHANGED timers)
      PROVE  JobsOK'
  BY <1>1, <1>5 DEF SendNext, timers
<1>6. ASSUME NEW c \in Callers, Answered(c)
      PROVE  JobsOK'
  <2>1. CASE At(c, "ack")
    <3>1. "ack" \in PcsOf(c)
      BY <2>1, JobTypes DEF At
    <3>2. "read" \in PcsOf(c)
      BY <3>1, Named, Places
    <3> QED BY <1>6, <2>1, <3>2, Goes DEF Answered
  <2>2. CASE ~At(c, "ack")
    <3>0. Fits(c, job[c]) /\ job[c].pc \in PcsOf(c) /\ job[c].todo \in Nat
      BY JobTypes
    <3>1. /\ job[c].todo > 0 /\ job[c].pc \in {"handle", "handleOverdue", "publish"}
          /\ GoTo(c, job[c].pc, job[c].todo - 1)
      BY <1>6, <2>2 DEF Answered, At
    <3>2. /\ job[c].todo - 1 \in Nat
          /\ job[c].pc \in {"handle", "handleOverdue"} => job[c].todo - 1 <= MaxCommands
          /\ job[c].pc = "publish" => job[c].todo - 1 <= Batch
      BY <3>0, <3>1, Numbers DEF Fits
    <3> QED BY <3>0, <3>1, <3>2, Goes
  <2> QED BY <2>1, <2>2
<1>7. CASE Expire \/ Cancel \/ \E m \in Retries : BecomeDue(m)
  BY <1>1, <1>7 DEF Expire, Cancel, BecomeDue
<1>8. CASE Scan
  <2>0. PICK n \in (IF overdue THEN 1 ELSE 0)..Batch :
             job' = [job EXCEPT !["scanner"] = [pc |-> "update", todo |-> 0,
                                                list |-> IF overdue THEN 1..n ELSE 2..(n + 1)]]
    BY <1>8 DEF Scan
  <2>1. n \in 0..Batch
    BY Numbers
  <2> DEFINE list == IF overdue THEN 1..n ELSE 2..(n + 1)
  <2>2. /\ IsFiniteSet(list) /\ Cardinality(list) = n
        /\ [pc |-> "update", todo |-> 0, list |-> list] \in Job("scanner")
    BY <2>1, FoundRuns
  <2>3. Fits("scanner", [pc |-> "update", todo |-> 0, list |-> list])
    BY <2>1, <2>2, Numbers DEF Fits
  <2> QED BY <2>0, <2>3, OneMoves, Named
<1>9. CASE Mark
  <2>1. Cardinality(job["scanner"].list) \in 0..Batch
    BY <1>9, JobTypes, Named DEF Mark, At
  <2>2. /\ GoTo("scanner", "publish", Cardinality(job["scanner"].list))
        /\ "scanner" \in Callers /\ "publish" \in PcsOf("scanner")
    BY <1>9, Named, Places DEF Mark
  <2>3. Cardinality(job["scanner"].list) \in Nat /\ Cardinality(job["scanner"].list) <= Batch
    BY <2>1, Numbers
  <2> QED BY <2>2, <2>3, Goes
<1>10. CASE EndScan
  <2>1. GoTo("scanner", "rest", 0) /\ "scanner" \in Callers /\ "rest" \in PcsOf("scanner")
    BY <1>10, Named, Places DEF EndScan
  <2> QED BY <2>1, Goes
<1>11. CASE Checked \/ Started \/ DelayChecked \/ Reported
  BY <1>11, Goes, Named, Places DEF Checked, Started, DelayChecked, Reported
<1>12. CASE EndStep \/ ScriptChecked
  <2>0. DOMAIN job = Callers /\ "steps" \in Callers /\ "watch" \in Callers
    BY Named DEF JobsOK
  <2>1. /\ DOMAIN job' = Callers
        /\ \A d \in Callers : d \notin {"steps", "watch"} => job'[d] = job[d]
        /\ \/ job'["watch"] = job["watch"]
           \/ job'["watch"] = [job["watch"] EXCEPT !.todo = 0]
        /\ \/ job'["steps"] = job["steps"]
           \/ job'["steps"] = [job["steps"] EXCEPT !.pc = "report", !.todo = 1]
    <3>1. CASE EndStep
      <4>1. CASE "watch" \in pending
        <5>1. job["watch"] = [job["watch"] EXCEPT !.todo = job["watch"].todo]
          BY <2>0, JobTypes
        <5> QED BY <2>0, <3>1, <4>1, <5>1 DEF EndStep
      <4>2. CASE "watch" \notin pending
        BY <2>0, <3>1, <4>2 DEF EndStep
      <4> QED BY <4>1, <4>2
    <3>2. CASE ScriptChecked
      BY <2>0, <3>2 DEF ScriptChecked
    <3> QED BY <1>12, <3>1, <3>2
  <2>2. Fits("steps", job["steps"]) /\ Fits("watch", job["watch"])
    BY <2>0, JobTypes
  <2>3. Fits("steps", job'["steps"])
    <3>1. CASE job'["steps"] = job["steps"]
      BY <2>2, <3>1
    <3>2. CASE job'["steps"] = [job["steps"] EXCEPT !.pc = "report", !.todo = 1]
      <4>1. job'["steps"] = [pc |-> "report", todo |-> 1, list |-> job["steps"].list]
        BY <2>0, <3>2, JobTypes
      <4> QED BY <2>2, <4>1, Places DEF Fits, Job
    <3> QED BY <2>1, <3>1, <3>2
  <2>4. Fits("watch", job'["watch"])
    BY <2>1, <2>2, Places DEF Fits, Job
  <2> QED BY <2>1, <2>3, <2>4 DEF JobsOK, Fits, Job
<1>13. ASSUME NEW p \in Polls, StartPoll(p)
       PROVE  JobsOK'
  <2> DEFINE j == [pc |-> "range", todo |-> 1, list |-> Due]
  <2>1. p \in Callers /\ Fits(p, j)
    BY Named, Places DEF Fits, Job, Due
  <2>2. job' = [job EXCEPT ![p] = j]
    BY <1>13 DEF StartPoll
  <2> HIDE DEF j
  <2> QED BY <2>1, <2>2, OneMoves
<1>14. ASSUME NEW p \in Polls, Ranged(p)
       PROVE  JobsOK'
  <2>1. \E list \in SUBSET Retries : NextMember(p, list)
    BY <1>14 DEF Ranged, FirstOf, Due
  <2> QED BY <2>1, GoesOn
<1>15. ASSUME NEW p \in Polls, Removed(p) \/ Moved(p)
       PROVE  JobsOK'
  <2>1. job[p].list \subseteq Retries /\ p \in Callers
    BY <1>15, JobTypes, Named DEF Removed, Moved, At
  <2>2. CASE \E m : NextMember(p, job[p].list \ {m})
    BY <2>1, <2>2, GoesOn
  <2>3. CASE job' = [job EXCEPT ![p].pc = "xadd"] /\ At(p, "zrem")
    <3>1. Fits(p, job[p])
      BY <2>1, JobTypes
    <3>2. "xadd" \in PcsOf(p)
      BY Places
    <3>3. Fits(p, [job[p] EXCEPT !.pc = "xadd"])
      BY <2>3, <3>1, <3>2 DEF Fits, Job, At
    <3> QED BY <2>1, <2>3, <3>3, OneMoves
  <2> QED BY <1>15, <2>2, <2>3 DEF Removed, Moved
<1>16. CASE Elapse
  <2>0. DOMAIN job = Callers /\ "steps" \in Callers /\ "watch" \in Callers
    BY Named DEF JobsOK
  <2>1. /\ DOMAIN job' = Callers
        /\ \A d \in Callers : d \notin {"steps", "watch"} => job'[d] = job[d]
        /\ \/ job'["watch"] = job["watch"]
           \/ job'["watch"] = [job["watch"] EXCEPT !.todo = 1]
        /\ \/ job'["steps"] = job["steps"]
           \/ /\ At("steps", "execute")
              /\ job'["steps"] = [job["steps"] EXCEPT !.todo = 1]
    BY <1>16, <2>0, ElapsedJobs
  <2>2. Fits("steps", job["steps"]) /\ Fits("watch", job["watch"])
    BY <2>0, JobTypes
  <2>3. Fits("steps", job'["steps"])
    BY <2>1, <2>2, Places DEF Fits, Job, At
  <2>4. Fits("watch", job'["watch"])
    BY <2>1, <2>2, Places DEF Fits, Job
  <2> QED BY <2>1, <2>3, <2>4 DEF JobsOK, Fits, Job
<1> QED BY <1>2, <1>3, <1>4, <1>5, <1>6, <1>7, <1>8, <1>9, <1>10, <1>11, <1>12, <1>13, <1>14,
           <1>15, <1>16 DEF ProcessNext

\* Who has nothing to send and does not read waits for no answer.
LEMMA Silent ==
  ASSUME JobsOK, CommandsOK, NEW c \in Callers, job[c].todo = 0, ~At(c, "read")
  PROVE  c \notin pending
BY DEF CommandsOK

\* Answers, and whatever happens to callers that wait for none.
LEMMA CommandsKept ==
  ASSUME CommandsOK, process' = process, pending' \subseteq pending,
         reading' = reading \cap pending',
         \A c \in pending' : job'[c] = job[c] \/ (c \notin reading /\ job'[c].todo > 0)
  PROVE  CommandsOK'
BY DEF CommandsOK, Active, At

\* What an answer does to the sets.
LEMMA AnswerTakes ==
  ASSUME TypeOK, NEW c \in Callers, Answer(c)
  PROVE  /\ c \in pending /\ pending' = pending \ {c} /\ reading' = reading \cap pending'
         /\ pending' \subseteq Callers
BY DEF TypeOK, Answer

LEMMA CommandsStep ==
  ASSUME TypeOK, JobsOK, CommandsOK, ProcessNext
  PROVE  CommandsOK'
<1>0. /\ pending \subseteq Callers /\ reading \subseteq pending /\ DOMAIN job = Callers
      /\ \A c \in Callers : job[c].todo \in Nat
  BY JobTypes DEF TypeOK, JobsOK
<1>1. ASSUME UNCHANGED <<pending, reading, process, job>>
      PROVE  CommandsOK'
  BY <1>1 DEF CommandsOK, Active, At
<1>2. ASSUME NEW c \in Callers, Answer(c), process' = process,
             \A d \in Callers : d # c => job'[d] = job[d]
      PROVE  CommandsOK'
  BY <1>2, AnswerTakes, CommandsKept
<1>3. ASSUME NEW c \in Callers, c \notin pending, UNCHANGED <<pending, reading, process>>,
             \A d \in Callers : d # c => job'[d] = job[d]
      PROVE  CommandsOK'
  BY <1>0, <1>3, CommandsKept
<1>4. ASSUME NEW l \in Loops,
             Arrive(l) \/ ReadStream(l) \/ NoEntry(l)
      PROVE  CommandsOK'
  <2>1. CASE Arrive(l)
    BY <1>1, <2>1 DEF Arrive, connection
  <2>2. CASE ReadStream(l)
    BY <2>2 DEF ReadStream, Send, timers, CommandsOK, Active, At
  <2>3. CASE NoEntry(l)
    BY <1>2, <2>3, Named DEF NoEntry, timers
  <2> QED BY <1>4, <2>1, <2>2, <2>3
<1>5. ASSUME NEW l \in Loops, TakeEntry(l)
      PROVE  CommandsOK'
  <2>1. /\ l \in Callers /\ Answer(l) /\ process' = process
        /\ \E pc, n : GoTo(l, pc, n)
    BY <1>5, Named DEF TakeEntry
  <2>2. \A d \in Callers : d # l => job'[d] = job[d]
    BY <1>0, <2>1 DEF GoTo
  <2> QED BY <1>2, <2>1, <2>2
<1>6. ASSUME NEW l \in Loops, Commit(l) \/ Fail(l)
      PROVE  CommandsOK'
  <2>1. /\ l \in Callers /\ l \notin pending /\ UNCHANGED <<pending, reading, process>>
        /\ \E pc, n : GoTo(l, pc, n)
    BY <1>6, Named DEF Commit, Fail, InTransaction, connection
  <2>2. \A d \in Callers : d # l => job'[d] = job[d]
    BY <1>0, <2>1 DEF GoTo
  <2> QED BY <1>3, <2>1, <2>2
<1>7. ASSUME NEW c \in Callers, SendNext(c) \/ Answered(c) \/ (Take(c) /\ UNCHANGED timers)
      PROVE  CommandsOK'
  <2>1. CASE SendNext(c)
    BY <2>1 DEF SendNext, Send, timers, CommandsOK, Active, At
  <2>2. CASE Answered(c)
    <3>1. Answer(c) /\ process' = process /\ \E pc, n : GoTo(c, pc, n)
      BY <2>2 DEF Answered
    <3>2. \A d \in Callers : d # c => job'[d] = job[d]
      BY <1>0, <3>1 DEF GoTo
    <3> QED BY <1>2, <3>1, <3>2
  <2>3. CASE Take(c) /\ UNCHANGED timers
    BY <1>1, <2>3 DEF Take, timers
  <2> QED BY <1>7, <2>1, <2>2, <2>3
<1>8. CASE Expire \/ Cancel \/ \E m \in Retries : BecomeDue(m)
  BY <1>1, <1>8 DEF Expire, Cancel, BecomeDue, connection
<1>9. CASE Scan \/ Mark \/ EndScan
  <2>1. "scanner" \in Callers /\ "scanner" \notin pending
    BY <1>9, Named, Silent, JobTypes DEF Scan, Mark, EndScan, At, Fits
  <2>2. /\ UNCHANGED <<pending, reading, process>>
        /\ \E j : job' = [job EXCEPT !["scanner"] = j]
    BY <1>9 DEF Scan, Mark, EndScan, GoTo, connection
  <2>3. \A d \in Callers : d # "scanner" => job'[d] = job[d]
    BY <1>0, <2>2
  <2> QED BY <1>3, <2>1, <2>2, <2>3
<1>10. CASE Checked \/ Started \/ DelayChecked \/ Reported
  <2>1. /\ "steps" \in Callers /\ Answer("steps") /\ process' = process
        /\ \E pc, n : GoTo("steps", pc, n)
    BY <1>10, Named DEF Checked, Started, DelayChecked, Reported
  <2>2. \A d \in Callers : d # "steps" => job'[d] = job[d]
    BY <1>0, <2>1 DEF GoTo
  <2> QED BY <1>2, <2>1, <2>2
<1>11. CASE EndStep
  <2>1. /\ "steps" \notin pending /\ "watch" \in Callers
        /\ UNCHANGED <<pending, reading, process>>
        /\ \A d \in Callers : d \notin {"steps", "watch"} => job'[d] = job[d]
        /\ "watch" \in pending => job'["watch"].todo = job["watch"].todo /\ "watch" \notin reading
    BY <1>0, <1>11, Named, Places, JobTypes DEF EndStep, Executing, connection, CommandsOK, At
  <2> QED BY <1>0, <2>1, CommandsKept DEF CommandsOK
<1>12. CASE ScriptChecked
  <2>1. /\ "watch" \in Callers /\ "steps" \in Callers /\ Answer("watch") /\ process' = process
        /\ \A d \in Callers : d \notin {"steps", "watch"} => job'[d] = job[d]
        /\ job'["steps"] = job["steps"] \/ (At("steps", "execute") /\ job'["steps"].todo = 1)
    BY <1>0, <1>12, Named DEF ScriptChecked
  <2>2. At("steps", "execute") => "steps" \notin reading
    BY DEF CommandsOK, At
  <2> QED BY <2>1, <2>2, AnswerTakes, CommandsKept
<1>13. ASSUME NEW p \in Polls, StartPoll(p)
       PROVE  CommandsOK'
  <2>1. p \in Callers /\ p \notin pending
    BY <1>13, Named, Silent, JobTypes DEF StartPoll, At, Fits
  <2>2. UNCHANGED <<pending, reading, process>> /\ \A d \in Callers : d # p => job'[d] = job[d]
    BY <1>0, <1>13 DEF StartPoll, GoTo, connection
  <2> QED BY <1>3, <2>1, <2>2
<1>14. ASSUME NEW p \in Polls, Ranged(p) \/ Removed(p) \/ Moved(p)
       PROVE  CommandsOK'
  <2>1. /\ p \in Callers /\ Answer(p) /\ process' = process
        /\ (\E list : NextMember(p, list)) \/ job' = [job EXCEPT ![p].pc = "xadd"]
    BY <1>14, Named DEF Ranged, Removed, Moved
  <2>2. \A d \in Callers : d # p => job'[d] = job[d]
    BY <1>0, <2>1 DEF NextMember
  <2> QED BY <1>2, <2>1, <2>2
<1>15. CASE Elapse
  <2>1. UNCHANGED <<pending, reading, process>>
    BY <1>15 DEF Elapse, Second
  <2>2. \A d \in Callers : job'[d].pc = job[d].pc /\ (job'[d].todo = job[d].todo \/ job'[d].todo = 1)
    <3>1. ASSUME NEW d \in Callers
          PROVE  job'[d] = job[d] \/ job'[d] = [job[d] EXCEPT !.todo = 1]
      BY <1>15, ElapsedJobs
    <3>2. \A d \in Callers : job[d] = [pc |-> job[d].pc, todo |-> job[d].todo, list |-> job[d].list]
      BY JobTypes
    <3> QED BY <3>1, <3>2
  <2> QED BY <1>0, <2>1, <2>2 DEF CommandsOK, Active, At
<1> QED BY <1>4, <1>5, <1>6, <1>7, <1>8, <1>9, <1>10, <1>11, <1>12, <1>13, <1>14, <1>15
        DEF ProcessNext

LEMMA IdleStep ==
  ASSUME TypeOK, JobsOK, CommandsOK, IdleOK, ProcessNext
  PROVE  IdleOK' /\ process' = process
<1>0. DOMAIN job = Callers
  BY DEF JobsOK
<1>1. ASSUME NEW c \in Callers, Active(c), process' = process,
             \A d \in Callers : d # c => job'[d] = job[d]
      PROVE  IdleOK' /\ process' = process
  BY <1>1 DEF IdleOK, Active
<1>2. ASSUME UNCHANGED <<process, job>>
      PROVE  IdleOK' /\ process' = process
  BY <1>2 DEF IdleOK, Active
<1>3. ASSUME NEW l \in Loops,
             Arrive(l) \/ ReadStream(l) \/ NoEntry(l) \/ TakeEntry(l) \/ Commit(l) \/ Fail(l)
      PROVE  IdleOK' /\ process' = process
  <2>1. CASE Arrive(l) \/ ReadStream(l) \/ NoEntry(l)
    BY <1>2, <2>1 DEF Arrive, ReadStream, NoEntry, timers
  <2>2. CASE TakeEntry(l) \/ Commit(l) \/ Fail(l)
    <3>1. l \in Callers /\ process' = process /\ \E pc, n : GoTo(l, pc, n)
      BY <2>2, Named DEF TakeEntry, Commit, Fail
    <3>2. Active(l)
      BY <2>2, <3>1 DEF TakeEntry, Answer, Commit, Fail, InTransaction, CommandsOK, IdleOK
    <3> QED BY <1>0, <1>1, <3>1, <3>2 DEF GoTo
  <2> QED BY <1>3, <2>1, <2>2
<1>4. ASSUME NEW c \in Callers, SendNext(c) \/ Answered(c) \/ (Take(c) /\ UNCHANGED timers)
      PROVE  IdleOK' /\ process' = process
  <2>1. CASE Answered(c)
    <3>1. Active(c) /\ process' = process /\ \E pc, n : GoTo(c, pc, n)
      BY <2>1 DEF Answered, Answer, CommandsOK
    <3> QED BY <1>0, <1>1, <3>1 DEF GoTo
  <2>2. CASE SendNext(c) \/ (Take(c) /\ UNCHANGED timers)
    BY <1>2, <2>2 DEF SendNext, timers
  <2> QED BY <1>4, <2>1, <2>2
<1>5. CASE Expire \/ Cancel \/ \E m \in Retries : BecomeDue(m)
  BY <1>2, <1>5 DEF Expire, Cancel, BecomeDue
<1>6. CASE Scan \/ Mark \/ EndScan
  <2>1. "scanner" \in Callers /\ process' = process /\ \E j : job' = [job EXCEPT !["scanner"] = j]
    BY <1>6, Named DEF Scan, Mark, EndScan, GoTo
  <2>2. Active("scanner")
    BY <1>6, <2>1, Named DEF Scan, Mark, EndScan, At, IdleOK, Active
  <2> QED BY <1>0, <1>1, <2>1, <2>2
<1>7. CASE Checked \/ Started \/ DelayChecked \/ Reported
  <2>1. "steps" \in Callers /\ process' = process /\ \E pc, n : GoTo("steps", pc, n)
    BY <1>7, Named DEF Checked, Started, DelayChecked, Reported
  <2>2. Active("steps")
    BY <1>7 DEF Checked, Started, DelayChecked, Reported, Answer, CommandsOK
  <2> QED BY <1>0, <1>1, <2>1, <2>2 DEF GoTo
<1>8. CASE EndStep \/ ScriptChecked
  <2>1. /\ process' = process /\ "steps" \in Callers /\ "watch" \in Callers
        /\ \A d \in Callers : d \notin {"steps", "watch"} => job'[d] = job[d]
    BY <1>0, <1>8, Named DEF EndStep, ScriptChecked
  <2>2. Active("steps") /\ Active("watch")
    BY <1>8, <2>1, Named DEF EndStep, Executing, At, ScriptChecked, Answer, CommandsOK, IdleOK, Active
  <2> QED BY <2>1, <2>2 DEF IdleOK, Active
<1>9. ASSUME NEW p \in Polls, StartPoll(p) \/ Ranged(p) \/ Removed(p) \/ Moved(p)
      PROVE  IdleOK' /\ process' = process
  <2>1. p \in Callers /\ process' = process /\ \A d \in Callers : d # p => job'[d] = job[d]
    BY <1>0, <1>9, Named DEF StartPoll, GoTo, Ranged, Removed, Moved, NextMember
  <2>2. Active(p)
    BY <1>9, Named DEF StartPoll, Ranged, Removed, Moved, Answer, CommandsOK, Active
  <2> QED BY <1>1, <2>1, <2>2
<1>10. CASE Elapse
  <2>1. \A d \in Callers : job'[d].pc = job[d].pc
    <3>1. ASSUME NEW d \in Callers
          PROVE  job'[d] = job[d] \/ job'[d] = [job[d] EXCEPT !.todo = 1]
      BY <1>10, ElapsedJobs
    <3>2. \A d \in Callers : job[d] = [pc |-> job[d].pc, todo |-> job[d].todo, list |-> job[d].list]
      BY JobTypes
    <3> QED BY <3>1, <3>2
  <2> QED BY <1>10, <2>1 DEF Elapse, IdleOK, Active
<1> QED BY <1>3, <1>4, <1>5, <1>6, <1>7, <1>8, <1>9, <1>10 DEF ProcessNext

LEMMA ClocksStep ==
  ASSUME IdleOK, ClocksOK, ProcessNext
  PROVE  ClocksOK'
<1> USE DEF ClocksOK
<1>1. ASSUME UNCHANGED <<process, overdue, late, rest>>, stock' \in [Loops -> Nat]
      PROVE  ClocksOK'
  BY <1>1
<1>2. ASSUME NEW l \in Loops,
             Arrive(l) \/ ReadStream(l) \/ NoEntry(l) \/ TakeEntry(l) \/ Commit(l) \/ Fail(l)
      PROVE  ClocksOK'
  <2>1. UNCHANGED <<process, overdue, late, rest>>
    BY <1>2 DEF Arrive, ReadStream, NoEntry, TakeEntry, Commit, Fail, timers
  <2>2. \/ stock' = stock
        \/ \E n \in Nat : stock' = [stock EXCEPT ![l] = n]
    <3>1. stock[l] \in Nat /\ stock[l] + 1 \in Nat /\ (stock[l] > 0 => stock[l] - 1 \in Nat)
      OBVIOUS
    <3>2. CASE Arrive(l)
      BY <3>1, <3>2 DEF Arrive
    <3>3. CASE TakeEntry(l)
      BY <3>1, <3>3 DEF TakeEntry
    <3>4. CASE ReadStream(l) \/ NoEntry(l) \/ Commit(l) \/ Fail(l)
      BY <3>4 DEF ReadStream, NoEntry, Commit, Fail, timers
    <3> QED BY <1>2, <3>2, <3>3, <3>4
  <2> QED BY <1>1, <2>1, <2>2
<1>3. ASSUME NEW c \in Callers, SendNext(c) \/ Answered(c) \/ (Take(c) /\ UNCHANGED timers)
      PROVE  ClocksOK'
  BY <1>1, <1>3 DEF SendNext, Answered, timers
<1>4. CASE Expire
  BY <1>4 DEF Expire
<1>5. CASE Scan \/ Cancel \/ EndStep \/ \E m \in Retries : BecomeDue(m)
  BY <1>1, <1>5 DEF Scan, Cancel, EndStep, BecomeDue
<1>6. CASE Mark
  BY <1>6 DEF Mark
<1>7. CASE EndScan
  <2>1. UNCHANGED <<process, overdue, late, stock>> /\ rest' = ScanInterval /\ process = "orchestrator"
    BY <1>7, Named DEF EndScan, IdleOK, Active, At
  <2> QED BY <2>1, Numbers
<1>8. CASE Checked \/ Started \/ DelayChecked \/ ScriptChecked \/ Reported
  BY <1>1, <1>8 DEF Checked, Started, DelayChecked, ScriptChecked, Reported
<1>9. ASSUME NEW p \in Polls, StartPoll(p)
      PROVE  ClocksOK'
  BY <1>9, Numbers DEF StartPoll
<1>10. ASSUME NEW p \in Polls, Ranged(p) \/ Removed(p)
       PROVE  ClocksOK'
  BY <1>1, <1>10 DEF Ranged, Removed
<1>11. ASSUME NEW p \in Polls, Moved(p)
       PROVE  ClocksOK'
  <2>1. UNCHANGED <<process, overdue, late, rest>> /\ "steps" \in Loops
        /\ stock' = [stock EXCEPT !["steps"] = stock["steps"] + 1]
    BY <1>11, Named DEF Moved
  <2> QED BY <1>1, <2>1
<1>12. CASE Elapse
  <2>1. /\ UNCHANGED <<process, stock, overdue>>
        /\ late' = IF overdue THEN late + 1 ELSE late
        /\ Resting => rest > 0
        /\ rest' = IF Resting THEN rest - 1 ELSE rest
    BY <1>12 DEF Elapse
  <2>2. rest' \in 0..rest
    BY <2>1, Numbers
  <2>3. late' \in Nat /\ (~overdue => late' = 0)
    BY <2>1
  <2> QED BY <2>1, <2>2, <2>3, Numbers
<1> QED BY <1>2, <1>3, <1>4, <1>5, <1>6, <1>7, <1>8, <1>9, <1>10, <1>11, <1>12 DEF ProcessNext

\* While a step is executed nobody reads, so nobody waits when a second passes.
LEMMA NobodyWaits ==
  ASSUME TimersInv, At("steps", "execute"), Elapse
  PROVE  /\ "steps" \notin pending /\ "watch" \notin pending
         /\ process = "worker" /\ job["steps"].todo = 0 /\ job["watch"].todo = 0
         /\ step.age < Limit \/ step.kind = "stubborn SCRIPT"
<1> USE DEF TimersInv
<1>1. "steps" \in Callers /\ "watch" \in Callers /\ process = "worker" /\ "worker" \in Connections
  BY Named DEF IdleOK, Active, At, Connections
<1>2. "steps" \notin reading
  BY DEF CommandsOK, At
<1>3. ~Blocked("worker")
  <2>1. ASSUME turn["worker"] \in reading
        PROVE  FALSE
    <3>1. turn["worker"] \in Loops /\ turn["worker"] # NoOne
      BY <2>1, ConnectionAssumption DEF Inv, TypeOK
    <3>2. ConnectionOf[turn["worker"]] = "worker"
      BY <1>1, <3>1 DEF Inv, FirstHasTurn
    <3>3. turn["worker"] = "steps"
      BY <3>1, <3>2, Named
    <3> QED BY <1>2, <2>1, <3>3
  <2> QED BY <2>1 DEF Blocked
<1>4. Rests("worker")
  BY <1>1, <1>3 DEF Elapse, Second
<1>5. "steps" \notin pending /\ "watch" \notin pending
  BY <1>1, <1>4, Named DEF Rests
<1>6. Waiting("steps") /\ Waiting("watch")
  BY <1>1 DEF Elapse
<1> QED BY <1>1, <1>5, <1>6, Named DEF Waiting, Active

LEMMA StepStep ==
  ASSUME TimersInv, StopInv, ProcessNext
  PROVE  StepOK' /\ StopInv'
<1> USE DEF TimersInv
<1>0. /\ DOMAIN job = Callers /\ "steps" \in Callers /\ "watch" \in Callers
      /\ job["steps"].pc \in PcsOf("steps")
  BY Named, JobTypes DEF JobsOK
<1>1. ASSUME step' = step, job'["steps"] = job["steps"], job'["watch"] = job["watch"]
      PROVE  StepOK' /\ StopInv'
  BY <1>1 DEF StepOK, StopInv, At
<1>2. ASSUME job'["steps"].pc \in {"read", "ack", "report"},
             step' \in [kind: Kinds \cup {"none"}, age: Nat, cancelled: BOOLEAN, since: Nat]
      PROVE  StepOK' /\ StopInv'
  BY <1>2 DEF StepOK, StopInv, At
<1>3. ASSUME NEW l \in Loops,
             Arrive(l) \/ ReadStream(l) \/ NoEntry(l) \/ TakeEntry(l) \/ Commit(l) \/ Fail(l)
      PROVE  StepOK' /\ StopInv'
  <2>1. CASE Arrive(l) \/ ReadStream(l) \/ NoEntry(l)
    BY <1>1, <2>1 DEF Arrive, ReadStream, NoEntry, timers, worker
  <2>2. CASE TakeEntry(l) /\ l = "steps"
    <3>1. /\ job'["steps"] = [pc |-> "check", todo |-> 1, list |-> {}]
          /\ \E set \in BOOLEAN : step' = [kind |-> "none", age |-> 0, cancelled |-> set, since |-> 0]
      BY <1>0, <2>2 DEF TakeEntry, GoTo, NoStep
    <3>2. /\ step' \in [kind: Kinds \cup {"none"}, age: Nat, cancelled: BOOLEAN, since: Nat]
          /\ step'.age = 0 /\ step'.since = 0 /\ job'["steps"].pc = "check"
      BY <3>1
    <3> QED BY <3>2 DEF StepOK, StopInv, At
  <2>3. CASE (TakeEntry(l) \/ Commit(l) \/ Fail(l)) /\ l # "steps"
    <3>1. step' = step /\ l \in Callers /\ l \notin {"steps", "watch"} /\ \E pc, n : GoTo(l, pc, n)
      BY <2>3, Named DEF TakeEntry, Commit, Fail, worker
    <3> QED BY <1>0, <1>1, <3>1 DEF GoTo
  <2>4. CASE (Commit(l) \/ Fail(l)) /\ l = "steps"
    BY <1>0, <2>4, Places DEF Commit, Fail, InTransaction
  <2> QED BY <1>3, <2>1, <2>2, <2>3, <2>4
<1>4. ASSUME NEW c \in Callers, SendNext(c) \/ Answered(c) \/ (Take(c) /\ UNCHANGED timers)
      PROVE  StepOK' /\ StopInv'
  <2>1. CASE SendNext(c) \/ (Take(c) /\ UNCHANGED timers)
    BY <1>1, <2>1 DEF SendNext, timers, worker
  <2>2. CASE Answered(c)
    <3>1. step' = step /\ \E pc, n : GoTo(c, pc, n)
      BY <2>2 DEF Answered, worker
    <3>2. CASE c = "steps"
      <4>1. At("steps", "ack")
        BY <1>0, <2>2, <3>2, Places DEF Answered, At
      <4>2. job'["steps"].pc = "read"
        BY <1>0, <2>2, <3>2, <4>1 DEF Answered, GoTo
      <4> QED BY <1>2, <3>1, <4>2 DEF StepOK
    <3>3. CASE c = "watch"
      BY <1>0, <2>2, <3>3, JobTypes, Places DEF Answered
    <3>4. CASE c \notin {"steps", "watch"}
      BY <1>0, <1>1, <3>1, <3>4 DEF GoTo
    <3> QED BY <3>2, <3>3, <3>4
  <2> QED BY <1>4, <2>1, <2>2
<1>5. CASE Expire \/ \E m \in Retries : BecomeDue(m)
  BY <1>1, <1>5 DEF Expire, BecomeDue, worker
<1>6. CASE Scan \/ Mark \/ EndScan
  <2>1. step' = step /\ "scanner" \in Callers /\ \E j : job' = [job EXCEPT !["scanner"] = j]
    BY <1>6, Named DEF Scan, Mark, EndScan, GoTo, worker
  <2> QED BY <1>0, <1>1, <2>1
<1>7. CASE Checked
  <2>1. CASE step.cancelled
    BY <1>0, <1>2, <1>7, <2>1 DEF Checked, GoTo, StepOK, worker
  <2>2. CASE ~step.cancelled
    <3>1. step' = step /\ job'["steps"].pc = "start" /\ At("steps", "check")
      BY <1>0, <1>7, <2>2 DEF Checked, GoTo, worker
    <3> QED BY <3>1 DEF StepOK, StopInv, At
  <2> QED BY <2>1, <2>2
<1>8. CASE Started
  <2>1. PICK kind \in Kinds : /\ step' = [step EXCEPT !.kind = kind]
                              /\ GoTo("steps", "execute", IF kind = "DELAY" THEN 1 ELSE 0)
    BY <1>8 DEF Started
  <2>2. /\ step'.kind = kind /\ step'.age = 0 /\ step'.since = 0
        /\ step' \in [kind: Kinds \cup {"none"}, age: Nat, cancelled: BOOLEAN, since: Nat]
    BY <1>8, <2>1 DEF Started, StepOK, At
  <2>3. job'["steps"].pc = "execute"
    BY <1>0, <2>1 DEF GoTo
  <2>4. 0 <= Limit
    BY Numbers
  <2>5. StepOK'
    BY <2>2, <2>3 DEF StepOK, At
  <2>6. StopInv'
    <3>1. ~(step'.since > 0) /\ step'.since <= 1 /\ step'.age <= Limit
      BY <2>2, <2>4
    <3> QED BY <3>1 DEF StopInv
  <2> QED BY <2>5, <2>6
<1>9. CASE Cancel
  <2>1. /\ job' = job
        /\ step'.kind = step.kind /\ step'.age = step.age /\ step'.since = step.since /\ step'.cancelled
        /\ step' \in [kind: Kinds \cup {"none"}, age: Nat, cancelled: BOOLEAN, since: Nat]
    BY <1>9 DEF Cancel, StepOK
  <2> QED BY <2>1 DEF StepOK, StopInv, At
<1>10. CASE EndStep
  <2>1. step' = step /\ job'["steps"].pc = "report"
    <3>1. step' = step /\ \E w : job' = [job EXCEPT !["steps"] = [@ EXCEPT !.pc = "report", !.todo = 1],
                                                   !["watch"].todo = w]
      BY <1>10 DEF EndStep, worker
    <3>2. job'["steps"] = [job["steps"] EXCEPT !.pc = "report", !.todo = 1]
      BY <1>0, <3>1
    <3>3. job["steps"] = [pc |-> job["steps"].pc, todo |-> job["steps"].todo,
                          list |-> job["steps"].list]
      BY <1>0, JobTypes
    <3> QED BY <3>1, <3>2, <3>3
  <2> QED BY <1>2, <2>1 DEF StepOK
<1>11. CASE DelayChecked
  <2>1. CASE step.cancelled
    BY <1>0, <1>2, <1>11, <2>1 DEF DelayChecked, GoTo, StepOK, worker
  <2>2. CASE ~step.cancelled
    <3>1. /\ step' = step /\ job'["steps"].pc = "execute" /\ job'["watch"] = job["watch"]
          /\ At("steps", "execute")
      BY <1>0, <1>11, <2>2 DEF DelayChecked, GoTo, worker
    <3> QED BY <2>2, <3>1 DEF StepOK, StopInv, At
  <2> QED BY <2>1, <2>2
<1>12. CASE ScriptChecked
  <2>1. CASE At("steps", "execute") /\ step.cancelled
    <3>1. step' = step /\ job'["steps"].pc = "report"
      BY <1>0, <1>12, <2>1 DEF ScriptChecked, worker
    <3> QED BY <1>2, <3>1 DEF StepOK
  <2>2. CASE ~(At("steps", "execute") /\ step.cancelled)
    <3>1. step' = step /\ job'["steps"] = job["steps"]
      BY <1>0, <1>12, <2>2 DEF ScriptChecked, worker
    <3> QED BY <2>2, <3>1 DEF StepOK, StopInv, At
  <2> QED BY <2>1, <2>2
<1>13. CASE Reported
  <2>1. /\ job'["steps"].pc \in {"ack", "read"}
        /\ step' = [kind |-> "none", age |-> 0, cancelled |-> FALSE, since |-> 0]
    BY <1>0, <1>13 DEF Reported, GoTo, NoStep
  <2> QED BY <1>2, <2>1
<1>14. ASSUME NEW p \in Polls, StartPoll(p) \/ Ranged(p) \/ Removed(p) \/ Moved(p)
       PROVE  StepOK' /\ StopInv'
  <2>1. /\ p \in Callers /\ p \notin {"steps", "watch"} /\ step' = step
        /\ \A d \in Callers : d # p => job'[d] = job[d]
    BY <1>0, <1>14, Named DEF StartPoll, GoTo, Ranged, Removed, Moved, NextMember, worker
  <2> QED BY <1>0, <1>1, <2>1
<1>15. CASE Elapse
  <2>1. CASE ~At("steps", "execute")
    <3>1. step' = step /\ job'["steps"] = job["steps"]
      BY <1>15, <2>1, ElapsedJobs DEF Elapse
    <3> QED BY <2>1, <3>1 DEF StepOK, StopInv, At
  <2>2. CASE At("steps", "execute")
    <3>1. /\ job["steps"].todo = 0 /\ job["watch"].todo = 0
          /\ step.age < Limit \/ step.kind = "stubborn SCRIPT"
      BY <1>15, <2>2, NobodyWaits
    <3>2. /\ step.kind \in Kinds /\ step.age \in Nat /\ step.since \in Nat
          /\ step \in [kind: Kinds \cup {"none"}, age: Nat, cancelled: BOOLEAN, since: Nat]
      BY <2>2 DEF StepOK
    <3>3. /\ step'.kind = step.kind /\ step'.cancelled = step.cancelled
          /\ step'.age = IF step.age > Limit + Grace THEN step.age ELSE step.age + 1
          /\ step'.since = IF step.cancelled THEN step.since + 1 ELSE step.since
          /\ step' \in [kind: Kinds \cup {"none"}, age: Nat, cancelled: BOOLEAN, since: Nat]
      <4>1. step' = [step EXCEPT !.age = IF step.age > Limit + Grace THEN step.age ELSE step.age + 1,
                                 !.since = IF step.cancelled THEN step.since + 1 ELSE step.since]
        BY <1>15, <2>2 DEF Elapse
      <4>2. /\ (IF step.age > Limit + Grace THEN step.age ELSE step.age + 1) \in Nat
            /\ (IF step.cancelled THEN step.since + 1 ELSE step.since) \in Nat
        BY <3>2, Numbers
      <4> QED BY <3>2, <4>1, <4>2
    <3>4. step.kind \in {"DELAY", "SCRIPT", "stubborn SCRIPT"} => step.since = 0
      <4>1. ~(step.since > 0) => step.since = 0
        BY <3>2
      <4>2. step.age < Limit => ~(step.age >= Limit)
        BY <3>2, Numbers
      <4>3. ~(job["steps"].todo = 1) /\ ~(job["watch"].todo = 1)
        <5>1. 0 # 1
          OBVIOUS
        <5> QED BY <3>1, <5>1
      <4> QED BY <2>2, <3>1, <4>1, <4>2, <4>3 DEF StopInv
    <3>5. /\ job'["steps"].pc = "execute"
          /\ step.kind = "DELAY" => job'["steps"].todo = 1 \/ step.age + 1 >= Limit
          /\ step.kind \in {"SCRIPT", "stubborn SCRIPT"} => job'["watch"].todo = 1
      <4>1. \A d \in {"steps", "watch"} :
              job[d] = [pc |-> job[d].pc, todo |-> job[d].todo, list |-> job[d].list]
        BY <1>0, JobTypes
      <4>2. CASE step.kind = "DELAY"
        BY <1>15, <2>2, <3>2, <4>1, <4>2, ElapsedJobs, Numbers DEF LooksForCancel, At
      <4>3. CASE step.kind # "DELAY"
        BY <1>15, <2>2, <4>1, <4>3, ElapsedJobs DEF At
      <4> QED BY <4>2, <4>3
    <3>6. step.age < Limit => step'.age = step.age + 1
      BY <3>2, <3>3, Numbers
    <3>7. StepOK'
      BY <3>2, <3>3, <3>5 DEF StepOK, At
    <3>8. StopInv'
      <4>1. step'.since > 0 => step'.cancelled
        <5>1. step.since > 0 => step.cancelled
          BY <2>2 DEF StopInv
        <5> QED BY <3>2, <3>3, <5>1
      <4>2. step'.kind = "DELAY" /\ step'.since > 0 => job'["steps"].todo = 1 \/ step'.age >= Limit
        BY <3>1, <3>3, <3>5, <3>6
      <4>3. step'.kind # "HTTP" => step'.since <= 1
        <5>1. step.kind = "HTTP" \/ step.since = 0
          BY <3>2, <3>4 DEF Kinds
        <5>2. step.since = 0 => step'.since <= 1
          BY <3>3
        <5> QED BY <3>3, <5>1, <5>2
      <4>4. step'.kind # "stubborn SCRIPT" => step'.age <= Limit
        <5>1. step.age < Limit => step.age + 1 <= Limit
          BY <3>2, Numbers
        <5> QED BY <3>1, <3>3, <3>6, <5>1
      <4> QED BY <3>3, <3>5, <4>1, <4>2, <4>3, <4>4 DEF StopInv
    <3> QED BY <3>7, <3>8
  <2> QED BY <2>1, <2>2
<1> QED BY <1>3, <1>4, <1>5, <1>6, <1>7, <1>8, <1>9, <1>10, <1>11, <1>12, <1>13, <1>14, <1>15
        DEF ProcessNext

LEMMA RetriesStep ==
  ASSUME TimersInv, ProcessNext
  PROVE  RetriesOK'
<1> USE DEF TimersInv
<1>0. process' = process /\ Callers # {}
  BY IdleStep, Named DEF Inv
<1>1. ASSUME UNCHANGED <<retry, lag>>
      PROVE  RetriesOK'
  BY <1>0, <1>1 DEF RetriesOK
<1>2. ASSUME NEW l \in Loops,
             Arrive(l) \/ ReadStream(l) \/ NoEntry(l) \/ TakeEntry(l) \/ Commit(l) \/ Fail(l)
      PROVE  RetriesOK'
  BY <1>1, <1>2 DEF Arrive, ReadStream, NoEntry, TakeEntry, Commit, Fail, timers, worker
<1>3. ASSUME NEW c \in Callers, SendNext(c) \/ Answered(c) \/ (Take(c) /\ UNCHANGED timers)
      PROVE  RetriesOK'
  BY <1>1, <1>3 DEF SendNext, Answered, timers, worker
<1>4. CASE Expire \/ Scan \/ Mark \/ EndScan \/ Checked \/ Started \/ Cancel \/ EndStep
           \/ DelayChecked \/ ScriptChecked
  BY <1>1, <1>4 DEF Expire, Scan, Mark, EndScan, Checked, Started, Cancel, EndStep, DelayChecked,
                    ScriptChecked, worker
<1>5. CASE Reported
  <2>1. process = "worker"
    BY <1>5, Named DEF Reported, At, IdleOK, Active
  <2>2. lag' = lag /\ (retry' = retry \/ \E m \in Retries : retry' = [retry EXCEPT ![m] = "later"])
    BY <1>5 DEF Reported
  <2> QED BY <1>0, <2>1, <2>2 DEF RetriesOK
<1>6. ASSUME NEW m \in Retries, BecomeDue(m)
      PROVE  RetriesOK'
  BY <1>0, <1>6 DEF BecomeDue, RetriesOK
<1>7. ASSUME NEW p \in Polls, StartPoll(p) \/ Ranged(p)
      PROVE  RetriesOK'
  BY <1>1, <1>7 DEF StartPoll, Ranged, worker
<1>8. ASSUME NEW p \in Polls, Removed(p) \/ Moved(p)
      PROVE  RetriesOK'
  <2> DEFINE m == CHOOSE m \in job[p].list : TRUE
  <2>1. process = "worker" /\ p \in Callers
    BY <1>8, Named DEF Removed, Moved, At, IdleOK, Active
  <2>2. \/ retry' = retry /\ lag' = lag
        \/ retry' = [retry EXCEPT ![m] = "removed"] /\ lag' = lag
        \/ retry' = [retry EXCEPT ![m] = "none"] /\ lag' = [lag EXCEPT ![m] = 0]
    BY <1>8 DEF Removed, Moved
  <2>3. retry \in [Retries -> {"none", "later", "due", "removed"}] /\ lag \in [Retries -> Nat]
    BY DEF RetriesOK
  <2> HIDE DEF m
  <2>4. /\ retry' \in [Retries -> {"none", "later", "due", "removed"}]
        /\ lag' \in [Retries -> Nat]
    BY <2>2, <2>3
  <2> QED BY <1>0, <2>1, <2>4 DEF RetriesOK
<1>9. CASE Elapse
  <2>1. retry' = retry
        /\ lag' = [m \in Retries |-> IF retry[m] \in {"due", "removed"} THEN lag[m] + 1 ELSE lag[m]]
    BY <1>9 DEF Elapse
  <2> QED BY <1>0, <2>1 DEF RetriesOK
<1> QED BY <1>2, <1>3, <1>4, <1>5, <1>6, <1>7, <1>8, <1>9 DEF ProcessNext

\* All of that is kept.
LEMMA TimersStep ==
  ASSUME TimersInv, StopInv, ProcessNext
  PROVE  TimersInv' /\ StopInv'
BY ProcessStep, Preserved, JobsStep, CommandsStep, IdleStep, ClocksStep, StepStep, RetriesStep
   DEF TimersInv, Inv

-------------------------------------------------------------------------------
(* How far a caller is from its answers.                                    *)

\* An orchestrator's transaction waits for the other loop, a scan for both, a
\* command of a worker for the loop of the steps.
LEMMA Rivalry ==
  /\ Longest("events") = Block /\ Longest("scanner") = 2 * Block
  /\ \A p \in Polls : Longest(p) = Block
<1>1. Rivals("events") = {"runs"}
  BY Named DEF Rivals, Together
<1>2. Rivals("scanner") = {"runs", "events"}
  BY Named DEF Rivals, Together
<1>3. \A p \in Polls : Rivals(p) = {"steps"}
  BY Named DEF Rivals, Together
<1>4. /\ Cardinality({"runs"}) = 1 /\ Cardinality({"steps"}) = 1
      /\ Cardinality({"runs", "events"}) = 2
  <2>1. IsFiniteSet({"runs"}) /\ Cardinality({"runs"}) = 1 /\ Cardinality({"steps"}) = 1
    BY FS_Singleton
  <2>2. {"runs", "events"} = {"runs"} \cup {"events"} /\ "events" \notin {"runs"}
    OBVIOUS
  <2>3. Cardinality({"runs"} \cup {"events"}) = Cardinality({"runs"}) + 1
    BY <2>1, <2>2, FS_AddElement
  <2> QED BY <2>1, <2>2, <2>3
<1>5. /\ Longest("events") = Block * 1 /\ Longest("scanner") = Block * 2
      /\ \A p \in Polls : Longest(p) = Block * 1
  BY <1>1, <1>2, <1>3, <1>4 DEF Longest
<1> QED BY <1>5, Numbers

LEMMA WaitTypeNext ==
  ASSUME TypeOK', NEW c \in Callers
  PROVE  Wait(c)' \in Int
<1>1. Block \in Nat
  BY ConnectionAssumption
<1>2. Spent(c)' \in Nat
  <2>1. CASE turn'[ConnectionOf[c]] \in ahead'[c] \cup {c}
    <3>1. left'[turn'[ConnectionOf[c]]] \in 0..Block
      BY <2>1 DEF TypeOK
    <3> QED BY <1>1, <2>1, <3>1 DEF Spent
  <2>2. CASE turn'[ConnectionOf[c]] \notin ahead'[c] \cup {c}
    BY <2>2 DEF Spent
  <2> QED BY <2>1, <2>2
<1>3. Reads(c)' \in Nat
  <2>1. ahead'[c] \cap reading' \in SUBSET Callers
    BY DEF TypeOK
  <2> QED BY <2>1, FS_Subset, FS_CardinalityType, ConnectionAssumption DEF Reads
<1>4. Block * Reads(c)' \in Nat
  BY <1>1, <1>3
<1> QED BY <1>2, <1>4 DEF Wait

\* No answer is further away than the bound, and none is overdue.
LEMMA AnswerBounds ==
  ASSUME Inv, NEW c \in Callers, c \notin reading
  PROVE  AnswerIn(c) \in Nat /\ AnswerIn(c) <= Longest(c) /\ Longest(c) \in Nat
<1>1. Longest(c) \in Nat
  BY Counted DEF Inv
<1>2. ASSUME c \in pending
      PROVE  Wait(c) \in Nat /\ Wait(c) <= Longest(c)
  <2>1. Wait(c) \in Nat /\ waited[c] \in Nat /\ waited[c] + Wait(c) <= Longest(c)
    BY <1>2, NothingOwed DEF Inv, TypeOK, Bounded
  <2> QED BY <1>1, <2>1
<1> QED BY <1>1, <1>2 DEF AnswerIn

\* A command comes no later than before, whatever the others do.
LEMMA Closer ==
  ASSUME Inv, [Next]_connection, NEW c \in Callers, c \in pending => c \in pending'
  PROVE  AnswerIn(c)' <= AnswerIn(c) /\ AnswerIn(c) \in Int /\ AnswerIn(c)' \in Int
<1>1. Longest(c)' = Longest(c) /\ Longest(c) \in Nat /\ Inv'
  BY Preserved, Counted DEF Inv, Longest, Rivals, Together
<1>2. Wait(c) \in Int /\ Wait(c)' \in Int
  BY <1>1, WaitType, WaitTypeNext DEF Inv
<1>3. c \in pending' => IF c \in pending THEN Wait(c)' <= Wait(c) ELSE Wait(c)' <= Longest(c)
  BY Preserved
<1> QED BY <1>1, <1>2, <1>3 DEF AnswerIn

\* A second brings one nearer that waits.
LEMMA CloserBySecond ==
  ASSUME Inv, Second, NEW c \in pending
  PROVE  AnswerIn(c)' = AnswerIn(c) - 1
BY SecondPassed DEF AnswerIn, Second

\* The same of all commands of a caller.
LEMMA AllBounds ==
  ASSUME Inv, NEW c \in Callers, c \notin reading, job[c].todo \in Nat, NEW n \in Nat, job[c].todo <= n
  PROVE  AllAnsweredIn(c) \in Nat /\ AllAnsweredIn(c) <= Longest(c) * n
<1> DEFINE t == job[c].todo
           b == Longest(c)
<1>1. b \in Nat /\ AnswerIn(c) \in Nat /\ AnswerIn(c) <= b
  BY AnswerBounds
<1>2. b * t <= b * n /\ b * t \in Nat /\ b * n \in Nat
  BY <1>1, TimesMonotone
<1>3. CASE t = 0
  BY <1>2, <1>3 DEF AllAnsweredIn
<1>4. CASE t # 0
  <2>1. b * (t - 1) = b * t - b /\ b * (t - 1) \in Nat
    BY <1>1, <1>4, TimesLess
  <2>2. AllAnsweredIn(c) = b * (t - 1) + AnswerIn(c)
    BY <1>4 DEF AllAnsweredIn
  <2> QED BY <1>1, <1>2, <2>1, <2>2
<1> QED BY <1>3, <1>4

LEMMA AllCloser ==
  ASSUME Inv, [Next]_connection, NEW c \in Callers, job'[c].todo = job[c].todo, job[c].todo \in Nat,
         c \in pending => c \in pending'
  PROVE  AllAnsweredIn(c)' <= AllAnsweredIn(c) /\ AllAnsweredIn(c)' \in Int
<1>1. /\ AnswerIn(c)' <= AnswerIn(c) /\ AnswerIn(c) \in Int /\ AnswerIn(c)' \in Int
      /\ Longest(c)' = Longest(c) /\ Longest(c) \in Nat
  BY Closer, Counted DEF Inv, Longest, Rivals, Together
<1> DEFINE x == Longest(c) * (job[c].todo - 1)
<1>2. x \in Int /\ (Longest(c) * (job[c].todo - 1))' = x
  BY <1>1
<1>3. /\ AllAnsweredIn(c) = IF job[c].todo = 0 THEN 0 ELSE x + AnswerIn(c)
      /\ AllAnsweredIn(c)' = IF job[c].todo = 0 THEN 0 ELSE x + AnswerIn(c)'
  BY <1>2 DEF AllAnsweredIn
<1> HIDE DEF x
<1> QED BY <1>1, <1>2, <1>3

\* An answer leaves no more than the time of the next commands.
LEMMA OneAnswered ==
  ASSUME Inv, NEW c \in Callers, c \notin reading, job[c].todo \in Nat, job[c].todo > 0,
         Answer(c), job'[c].todo = job[c].todo - 1
  PROVE  AllAnsweredIn(c)' <= AllAnsweredIn(c) /\ AllAnsweredIn(c)' \in Int
<1> DEFINE t == job[c].todo
           b == Longest(c)
<1>1. b \in Nat /\ AnswerIn(c) \in Nat /\ b' = b /\ AnswerIn(c)' = b
  BY AnswerBounds DEF AnswerIn, Answer, Longest, Rivals, Together
<1>2. AllAnsweredIn(c) = b * (t - 1) + AnswerIn(c) /\ b * (t - 1) \in Nat
  BY <1>1 DEF AllAnsweredIn
<1>3. CASE t = 1
  <2>1. AllAnsweredIn(c)' = 0
    BY <1>3 DEF AllAnsweredIn
  <2> HIDE DEF b, t
  <2> QED BY <1>1, <1>2, <2>1
<1>4. CASE t # 1
  <2>1. AllAnsweredIn(c)' = b * ((t - 1) - 1) + b
    BY <1>1, <1>4 DEF AllAnsweredIn
  <2>2. b * ((t - 1) - 1) = b * (t - 1) - b
    BY <1>1, TimesLess
  <2> HIDE DEF b, t
  <2> QED BY <1>1, <1>2, <2>1, <2>2
<1> QED BY <1>3, <1>4

\* A second brings all commands nearer of a caller that waits for the first.
LEMMA AllCloserBySecond ==
  ASSUME Inv, Second, NEW c \in pending, job[c].todo \in Nat \ {0}, job'[c].todo = job[c].todo
  PROVE  AllAnsweredIn(c)' <= AllAnsweredIn(c) - 1 /\ AllAnsweredIn(c)' \in Int
<1>1. /\ AnswerIn(c)' = AnswerIn(c) - 1 /\ c \in Callers /\ Longest(c)' = Longest(c)
      /\ AnswerIn(c) \in Int /\ Longest(c) \in Nat
  BY CloserBySecond, WaitType, Counted DEF Inv, TypeOK, AnswerIn, Longest, Rivals, Together
<1> DEFINE x == Longest(c) * (job[c].todo - 1)
<1>2. x \in Int /\ (Longest(c) * (job[c].todo - 1))' = x
  BY <1>1
<1>3. AllAnsweredIn(c) = x + AnswerIn(c) /\ AllAnsweredIn(c)' = x + AnswerIn(c)'
  BY <1>2 DEF AllAnsweredIn
<1> HIDE DEF x
<1> QED BY <1>1, <1>2, <1>3

-------------------------------------------------------------------------------
(* OverdueIsMarked.                                                         *)

\* The parts of MarkedIn.
LEMMA MarkedParts ==
  ASSUME TimersInv
  PROVE  /\ "scanner" \in Callers /\ "events" \in Callers
         /\ RowHeldFor \in Nat /\ RowHeldFor <= LongestHold
         /\ LongestHold \in Nat /\ 2 * Batch * Block \in Nat /\ ScanInterval \in Nat
         /\ MarkLimit = ScanInterval + 2 * LongestHold + 2 * Batch * Block
         /\ At("scanner", "update") =>
              /\ AfterScan \in Nat
              /\ AfterScan <= 2 * Batch * Block + ScanInterval + LongestHold
              /\ job["scanner"].todo = 0 /\ "scanner" \notin pending
              /\ Cardinality(job["scanner"].list) \in 0..Batch
         /\ At("scanner", "rest") => job["scanner"].todo = 0 /\ "scanner" \notin pending
         /\ AllAnsweredIn("scanner") \in Nat
         /\ At("scanner", "publish") => AllAnsweredIn("scanner") <= 2 * Batch * Block
         /\ At("scanner", "rest") \/ At("scanner", "update") \/ At("scanner", "publish")
<1> USE DEF TimersInv
<1>1. "scanner" \in Callers /\ "events" \in Callers /\ "scanner" \notin Loops
  BY Named
<1>2. LongestHold \in Nat /\ 2 * Batch * Block \in Nat /\ ScanInterval \in Nat
  BY Numbers DEF LongestHold
<1>3. MarkLimit = ScanInterval + 2 * LongestHold + 2 * Batch * Block
  BY Numbers DEF MarkLimit, LongestHold
<1>4. RowHeldFor \in Nat /\ RowHeldFor <= LongestHold
  <2>1. CASE At("events", "handleOverdue")
    <3>1. "events" \notin reading
      BY <2>1 DEF CommandsOK, At
    <3>2. job["events"].todo \in Nat /\ job["events"].todo <= MaxCommands
      BY <1>1, <2>1, JobTypes DEF Fits, At
    <3>3. /\ AllAnsweredIn("events") \in Nat
          /\ AllAnsweredIn("events") <= Longest("events") * MaxCommands
      BY <1>1, <3>1, <3>2, AllBounds, Numbers
    <3>4. Longest("events") * MaxCommands = LongestHold
      BY Rivalry, Numbers DEF LongestHold
    <3> QED BY <2>1, <3>3, <3>4 DEF RowHeldFor
  <2>2. CASE ~At("events", "handleOverdue")
    BY <1>2, <2>2 DEF RowHeldFor
  <2> QED BY <2>1, <2>2
<1>5. Fits("scanner", job["scanner"]) /\ job["scanner"].todo \in Nat
      /\ job["scanner"].pc \in {"rest", "update", "publish"}
  BY <1>1, JobTypes, Places
<1>6. ASSUME At("scanner", "update")
      PROVE  /\ AfterScan \in Nat
             /\ AfterScan <= 2 * Batch * Block + ScanInterval + LongestHold
             /\ Cardinality(job["scanner"].list) \in 0..Batch
  <2> DEFINE n == Cardinality(job["scanner"].list)
  <2>1. n \in 0..Batch
    BY <1>1, <1>6, JobTypes DEF At
  <2>2. Block * n <= Block * Batch /\ Block * n \in Nat
    BY <2>1, Numbers, TimesMonotone
  <2>3. AfterScan = 0 \/ AfterScan = 2 * Block * n + ScanInterval + LongestHold
    BY DEF AfterScan
  <2> DEFINE x == 2 * Block * n
             y == 2 * Batch * Block
  <2>4. x = 2 * (Block * n) /\ y = 2 * (Block * Batch) /\ Block * Batch \in Nat
    BY <2>1, Numbers
  <2>5. x \in Nat /\ x <= y
    BY <2>2, <2>4
  <2>6. y \in Nat /\ (AfterScan = 0 \/ AfterScan = x + ScanInterval + LongestHold)
    BY <1>2, <2>3
  <2> HIDE DEF x, y
  <2>7. AfterScan \in Nat /\ AfterScan <= y + ScanInterval + LongestHold
    BY <1>2, <2>5, <2>6
  <2> QED BY <2>1, <2>7 DEF y
<1>7. At("scanner", "update") \/ At("scanner", "rest") =>
        job["scanner"].todo = 0 /\ "scanner" \notin pending
  BY <1>1, <1>5, Silent DEF Fits, At
<1>8. "scanner" \notin reading
  BY <1>1 DEF Inv, TypeOK
<1>9. AllAnsweredIn("scanner") \in Nat
  BY <1>1, <1>5, <1>8, AllBounds
<1>10. ASSUME At("scanner", "publish")
       PROVE  AllAnsweredIn("scanner") <= 2 * Batch * Block
  <2>1. job["scanner"].todo <= Batch
    BY <1>5, <1>10 DEF Fits, At
  <2>2. AllAnsweredIn("scanner") <= Longest("scanner") * Batch
    BY <1>1, <1>5, <1>8, <2>1, AllBounds, Numbers
  <2>3. Longest("scanner") * Batch = 2 * Batch * Block
    BY Rivalry, Numbers
  <2> QED BY <2>2, <2>3
<1> QED BY <1>1, <1>2, <1>3, <1>4, <1>5, <1>6, <1>7, <1>9, <1>10 DEF At

\* It is never further to the mark than MarkLimit.
LEMMA MarkedBounded ==
  ASSUME TimersInv, process = "orchestrator"
  PROVE  MarkedIn \in Nat /\ MarkedIn <= MarkLimit
<1>1. rest \in Nat /\ rest <= ScanInterval
  BY Numbers DEF TimersInv, ClocksOK
<1>2. CASE At("scanner", "rest")
  BY <1>1, <1>2, MarkedParts DEF MarkedIn
<1>3. CASE At("scanner", "update")
  <2>1. MarkedIn = RowHeldFor + AfterScan
    BY <1>3 DEF MarkedIn, At
  <2> QED BY <1>3, <2>1, MarkedParts
<1>4. CASE At("scanner", "publish")
  <2>1. MarkedIn = AllAnsweredIn("scanner") + ScanInterval + LongestHold
    BY <1>4 DEF MarkedIn, At
  <2> QED BY <1>4, <2>1, MarkedParts
<1> QED BY <1>2, <1>3, <1>4, MarkedParts

\* It comes no later when nothing happens to the scanner, the row it waits for
\* is held no longer and its events take no longer.
LEMMA MarkedCloser ==
  ASSUME TimersInv, job'["scanner"] = job["scanner"], rest' = rest,
         At("scanner", "update") => RowHeldFor' <= RowHeldFor /\ RowHeldFor' \in Int,
         At("scanner", "publish") => /\ AllAnsweredIn("scanner")' <= AllAnsweredIn("scanner")
                                     /\ AllAnsweredIn("scanner")' \in Int
  PROVE  MarkedIn' <= MarkedIn /\ MarkedIn' \in Int
<1>1. AfterScan' = AfterScan /\ LongestHold' = LongestHold
  BY DEF AfterScan, LongestHold
<1>2. CASE At("scanner", "rest")
  <2>1. MarkedIn = rest + LongestHold /\ MarkedIn' = rest + LongestHold /\ rest \in Nat
    BY <1>1, <1>2, Numbers DEF MarkedIn, At, TimersInv, ClocksOK
  <2> QED BY <2>1, MarkedParts
<1>3. CASE At("scanner", "update")
  <2>1. MarkedIn = RowHeldFor + AfterScan /\ MarkedIn' = RowHeldFor' + AfterScan
    BY <1>1, <1>3 DEF MarkedIn, At
  <2> QED BY <1>3, <2>1, MarkedParts
<1>4. CASE At("scanner", "publish")
  <2>1. /\ MarkedIn = AllAnsweredIn("scanner") + ScanInterval + LongestHold
        /\ MarkedIn' = AllAnsweredIn("scanner")' + ScanInterval + LongestHold
    BY <1>1, <1>4 DEF MarkedIn, At
  <2> QED BY <1>4, <2>1, MarkedParts
<1> QED BY <1>2, <1>3, <1>4, MarkedParts

\* A step that leaves the scanner alone, its command unanswered, and the row
\* locked by the same transaction as before, or none.
LEMMA MarkedKept ==
  ASSUME TimersInv, [Next]_connection, job'["scanner"] = job["scanner"], rest' = rest,
         "scanner" \in pending => "scanner" \in pending',
         \/ job'["events"] = job["events"] /\ ("events" \in pending => "events" \in pending')
         \/ job'["events"].pc # "handleOverdue"
         \/ /\ job["events"].todo > 0 /\ Answer("events") /\ At("events", "handleOverdue")
            /\ job'["events"].todo = job["events"].todo - 1
  PROVE  MarkedIn' <= MarkedIn /\ MarkedIn' \in Int
<1> USE DEF TimersInv
<1>1. /\ "scanner" \in Callers /\ job["scanner"].todo \in Nat
      /\ "events" \in Callers /\ job["events"].todo \in Nat
  BY Named, JobTypes
<1>2. AllAnsweredIn("scanner")' <= AllAnsweredIn("scanner") /\ AllAnsweredIn("scanner")' \in Int
  BY <1>1, AllCloser
<1>3. RowHeldFor' <= RowHeldFor /\ RowHeldFor' \in Int
  <2>1. RowHeldFor \in Nat
    BY MarkedParts
  <2>2. CASE job'["events"].pc # "handleOverdue"
    BY <2>1, <2>2 DEF RowHeldFor, At
  <2>3. CASE job'["events"] = job["events"] /\ ("events" \in pending => "events" \in pending')
    <3>1. AllAnsweredIn("events")' <= AllAnsweredIn("events") /\ AllAnsweredIn("events")' \in Int
      BY <1>1, <2>3, AllCloser
    <3> QED BY <2>1, <2>3, <3>1 DEF RowHeldFor, At
  <2>4. CASE /\ job["events"].todo > 0 /\ Answer("events") /\ At("events", "handleOverdue")
             /\ job'["events"].todo = job["events"].todo - 1
    <3>1. "events" \notin reading
      BY <2>4 DEF CommandsOK, At
    <3>2. AllAnsweredIn("events")' <= AllAnsweredIn("events") /\ AllAnsweredIn("events")' \in Int
      BY <1>1, <2>4, <3>1, OneAnswered
    <3>3. RowHeldFor = AllAnsweredIn("events")
      BY <2>4 DEF RowHeldFor
    <3>4. RowHeldFor' = AllAnsweredIn("events")' \/ RowHeldFor' = 0
      BY DEF RowHeldFor
    <3> QED BY <2>1, <3>2, <3>3, <3>4
  <2> QED BY <2>2, <2>3, <2>4
<1> QED BY <1>2, <1>3, MarkedCloser

\* The same for a step of the scanner.
LEMMA ScannerMarks ==
  ASSUME TimersInv, overdue, Scan \/ (Mark /\ overdue') \/ EndScan
         \/ (Answered("scanner") /\ At("scanner", "publish"))
  PROVE  MarkedIn' <= MarkedIn /\ MarkedIn' \in Int
<1> USE DEF TimersInv
<1>0. /\ "scanner" \in Callers /\ DOMAIN job = Callers /\ "events" \in Callers
      /\ job["scanner"].todo \in Nat /\ process = "orchestrator" /\ rest \in Nat
      /\ [Next]_connection
  <2>1. [Next]_connection
    BY Named DEF Scan, Mark, EndScan, Answered, Next
  <2> QED BY <2>1, Named, JobTypes, Numbers DEF JobsOK, ClocksOK
<1>1. CASE Scan
  <2>1. PICK n \in 1..Batch : job' = [job EXCEPT !["scanner"] = [pc |-> "update", todo |-> 0,
                                                                list |-> 1..n]]
    BY <1>1 DEF Scan
  <2>2. /\ job'["scanner"] = [pc |-> "update", todo |-> 0, list |-> 1..n]
        /\ job'["events"] = job["events"] /\ connection' = connection /\ rest = 0
        /\ At("scanner", "rest")
    BY <1>0, <1>1, <2>1 DEF Scan
  <2>3. RowHeldFor' = RowHeldFor
    BY <2>2 DEF RowHeldFor, AllAnsweredIn, AnswerIn, At, connection, Wait, Reads, Spent, Longest,
                Rivals, Together
  <2>4. 1 \in job'["scanner"].list
    BY <2>1, <2>2, Numbers
  <2>5. AfterScan' = 0
    BY <2>4 DEF AfterScan
  <2>7. MarkedIn = rest + LongestHold
    BY <2>2 DEF MarkedIn, At
  <2>6. MarkedIn' = RowHeldFor' + AfterScan'
    BY <2>2 DEF MarkedIn, At
  <2> QED BY <2>2, <2>3, <2>5, <2>6, <2>7, MarkedParts
<1>2. CASE Mark /\ overdue'
  <2> DEFINE n == Cardinality(job["scanner"].list)
             w == 2 * Block * n
  <2>1. /\ 1 \notin job["scanner"].list /\ At("scanner", "update")
        /\ connection' = connection /\ job'["scanner"] = [pc |-> "publish", todo |-> n, list |-> {}]
    BY <1>0, <1>2 DEF Mark, GoTo
  <2>2. n \in Nat /\ "scanner" \notin pending
    BY <2>1, MarkedParts, Numbers
  <2>3. w \in Nat /\ Longest("scanner") * n = w /\ Longest("scanner") \in Nat
    BY <2>2, Rivalry, Numbers
  <2>4. AllAnsweredIn("scanner")' = w
    <3>1. AnswerIn("scanner")' = Longest("scanner") /\ Longest("scanner")' = Longest("scanner")
      BY <2>1, <2>2 DEF AnswerIn, connection, Longest, Rivals, Together
    <3>2. CASE n = 0
      BY <2>1, <2>3, <3>2 DEF AllAnsweredIn
    <3>3. CASE n # 0
      <4>1. AllAnsweredIn("scanner")' = Longest("scanner") * (n - 1) + Longest("scanner")
        BY <2>1, <3>1, <3>3 DEF AllAnsweredIn
      <4>2. Longest("scanner") * (n - 1) = Longest("scanner") * n - Longest("scanner")
        BY <2>2, <2>3, TimesLess
      <4> HIDE DEF n, w
      <4> QED BY <2>3, <4>1, <4>2
    <3> QED BY <3>2, <3>3
  <2>5. AfterScan = w + ScanInterval + LongestHold
    BY <2>1 DEF AfterScan
  <2>6. MarkedIn = RowHeldFor + AfterScan
    BY <2>1 DEF MarkedIn, At
  <2>7. MarkedIn' = w + ScanInterval + LongestHold
    BY <2>1, <2>4 DEF MarkedIn, At, LongestHold
  <2> HIDE DEF w
  <2> QED BY <2>3, <2>5, <2>6, <2>7, MarkedParts
<1>3. CASE EndScan
  <2>1. /\ At("scanner", "publish") /\ job["scanner"].todo = 0
        /\ job'["scanner"].pc = "rest" /\ rest' = ScanInterval
    BY <1>0, <1>3 DEF EndScan, GoTo
  <2>2. MarkedIn = 0 + ScanInterval + LongestHold
    BY <2>1 DEF MarkedIn, AllAnsweredIn, At
  <2>3. MarkedIn' = ScanInterval + LongestHold
    BY <2>1 DEF MarkedIn, At, LongestHold
  <2> QED BY <2>2, <2>3, MarkedParts
<1>4. CASE Answered("scanner") /\ At("scanner", "publish")
  <2>1. /\ Answer("scanner") /\ job["scanner"].todo > 0
        /\ job'["scanner"] = [pc |-> "publish", todo |-> job["scanner"].todo - 1, list |-> {}]
    BY <1>0, <1>4 DEF Answered, GoTo, At
  <2>2. "scanner" \notin reading
    BY <1>4 DEF CommandsOK, At
  <2>3. AllAnsweredIn("scanner")' <= AllAnsweredIn("scanner") /\ AllAnsweredIn("scanner")' \in Int
    BY <1>0, <2>1, <2>2, OneAnswered
  <2>4. /\ MarkedIn = AllAnsweredIn("scanner") + ScanInterval + LongestHold
        /\ MarkedIn' = AllAnsweredIn("scanner")' + ScanInterval + LongestHold
    BY <1>4, <2>1 DEF MarkedIn, At, LongestHold
  <2> QED BY <2>3, <2>4, MarkedParts
<1> QED BY <1>1, <1>2, <1>3, <1>4

\* A second brings the mark nearer.
LEMMA NearerMark ==
  ASSUME TimersInv, overdue, Elapse
  PROVE  MarkedIn' <= MarkedIn - 1 /\ MarkedIn' \in Int
<1> USE DEF TimersInv
<1>0. /\ "scanner" \in Callers /\ "events" \in Callers /\ process = "orchestrator" /\ rest \in Nat
      /\ job'["scanner"] = job["scanner"] /\ job'["events"] = job["events"]
      /\ LongestHold' = LongestHold /\ AfterScan' = AfterScan /\ Second
  <2>1. job'["scanner"] = job["scanner"] /\ job'["events"] = job["events"]
    BY Named, ElapsedJobs
  <2>2. LongestHold' = LongestHold /\ AfterScan' = AfterScan
    BY <2>1 DEF LongestHold, AfterScan
  <2>3. process = "orchestrator" /\ rest \in Nat
    BY Numbers DEF ClocksOK
  <2> QED BY <2>1, <2>2, <2>3, Named DEF Elapse
<1>1. Waiting("scanner") /\ Active("scanner") /\ Waiting("events") /\ Active("events")
  BY <1>0, Named DEF Elapse, Active
<1>2. CASE At("scanner", "rest")
  <2>1. rest' = rest - 1
    BY <1>2 DEF Elapse, Resting
  <2>2. MarkedIn = rest + LongestHold /\ MarkedIn' = rest' + LongestHold
    BY <1>0, <1>2 DEF MarkedIn, At
  <2> QED BY <1>0, <2>1, <2>2, MarkedParts
<1>3. CASE At("scanner", "update")
  <2>1. At("events", "handleOverdue")
    BY <1>1, <1>3, MarkedParts, Named DEF Waiting, RowLocked, At
  <2>2. "events" \in pending /\ "events" \notin reading
    BY <1>1, <2>1, Named DEF Waiting, CommandsOK, At
  <2>3. job["events"].todo \in Nat \ {0}
    <3>1. job["events"].todo \in Nat
      BY <1>0, JobTypes
    <3>2. job["events"].todo > 0
      BY <2>2 DEF CommandsOK
    <3> QED BY <3>1, <3>2
  <2>4. AllAnsweredIn("events")' <= AllAnsweredIn("events") - 1 /\ AllAnsweredIn("events")' \in Int
    BY <1>0, <2>2, <2>3, AllCloserBySecond
  <2>5. RowHeldFor = AllAnsweredIn("events") /\ RowHeldFor' = AllAnsweredIn("events")'
    BY <1>0, <2>1 DEF RowHeldFor, At
  <2>6. MarkedIn = RowHeldFor + AfterScan /\ MarkedIn' = RowHeldFor' + AfterScan
    BY <1>0, <1>3 DEF MarkedIn, At
  <2> QED BY <1>3, <2>4, <2>5, <2>6, MarkedParts
<1>4. CASE At("scanner", "publish")
  <2>1. "scanner" \in pending /\ "scanner" \notin reading
    BY <1>1, <1>4, Named DEF Waiting, CommandsOK, At
  <2>2. job["scanner"].todo \in Nat \ {0}
    <3>1. job["scanner"].todo \in Nat
      BY <1>0, JobTypes
    <3>2. job["scanner"].todo > 0
      BY <2>1 DEF CommandsOK
    <3> QED BY <3>1, <3>2
  <2>3. AllAnsweredIn("scanner")' <= AllAnsweredIn("scanner") - 1 /\ AllAnsweredIn("scanner")' \in Int
    BY <1>0, <2>1, <2>2, AllCloserBySecond
  <2>4. /\ MarkedIn = AllAnsweredIn("scanner") + ScanInterval + LongestHold
        /\ MarkedIn' = AllAnsweredIn("scanner")' + ScanInterval + LongestHold
    BY <1>0, <1>4 DEF MarkedIn, At
  <2> QED BY <2>3, <2>4, MarkedParts
<1> QED BY <1>2, <1>3, <1>4, MarkedParts

LEMMA Transitive ==
  ASSUME NEW k \in Int, NEW m \in Int, NEW n \in Int, k <= m, m <= n
  PROVE  k <= n
  OBVIOUS

\* Time that has passed and time that is left: less is left, or a second has passed.
LEMMA NoLater ==
  ASSUME NEW past \in Int, NEW left1 \in Int, NEW left2 \in Int, NEW limit \in Int,
         past + left1 <= limit
  PROVE  /\ left2 <= left1 => past + left2 <= limit
         /\ left2 <= left1 - 1 => past + 1 + left2 <= limit
  OBVIOUS

\* So a run past its timeout is always near enough to its mark.
LEMMA MarkStep ==
  ASSUME TimersInv, MarkInv, ProcessNext
  PROVE  MarkInv'
<1> USE DEF TimersInv
<1>0. [Next]_connection /\ process' = process
  BY ProcessStep, IdleStep DEF Inv
<1>1. ClocksOK'
  BY ClocksStep
<1> SUFFICES ASSUME overdue'
             PROVE  late' + MarkedIn' <= MarkLimit
  BY DEF MarkInv, MarkLimit
<1>2. /\ process = "orchestrator" /\ ~Active("steps") /\ ~Active("watch")
      /\ \A p \in Polls : ~Active(p)
  BY <1>0, <1>1, Named DEF ClocksOK, Active
<1>3. MarkedIn \in Nat /\ MarkedIn <= MarkLimit /\ late \in Nat /\ MarkLimit \in Nat
  BY <1>2, MarkedBounded, MarkedParts DEF ClocksOK
<1>4. ASSUME UNCHANGED <<overdue, late>>, MarkedIn' <= MarkedIn, MarkedIn' \in Int
      PROVE  late' + MarkedIn' <= MarkLimit
  <2>1. overdue
    BY <1>4
  <2>2. late + MarkedIn <= MarkLimit
    BY <2>1 DEF MarkInv
  <2>3. late' = late /\ MarkedIn' <= MarkedIn /\ MarkedIn' \in Int
    BY <1>4
  <2>4. MarkedIn \in Int /\ MarkLimit \in Int /\ late \in Int
    BY <1>3
  <2>5. late + MarkedIn' <= MarkLimit
    BY <2>2, <2>3, <2>4, NoLater
  <2> QED BY <2>3, <2>5
<1>5. /\ "scanner" \in Callers /\ "events" \in Callers /\ DOMAIN job = Callers
      /\ "scanner" \notin Loops /\ pending \subseteq Callers
      /\ job["scanner"].todo \in Nat /\ job["scanner"].pc \in {"rest", "update", "publish"}
  BY Named, Places, JobTypes DEF JobsOK, Inv, TypeOK
<1>6. \A c \in Callers \ {"scanner"} : Answer(c) => ("scanner" \in pending => "scanner" \in pending')
  BY DEF Answer
<1>7. ASSUME NEW l \in Loops, Arrive(l) \/ ReadStream(l) \/ NoEntry(l) \/ Commit(l) \/ Fail(l)
      PROVE  late' + MarkedIn' <= MarkLimit
  <2>1. UNCHANGED <<overdue, late, rest>>
    BY <1>7 DEF Arrive, ReadStream, NoEntry, Commit, Fail, timers
  <2>2. job'["scanner"] = job["scanner"]
    BY <1>5, <1>7 DEF Arrive, ReadStream, NoEntry, Commit, Fail, timers, GoTo
  <2>3. "scanner" \in pending => "scanner" \in pending'
    BY <1>5, <1>7 DEF Arrive, ReadStream, NoEntry, Commit, Fail, connection, Send, Answer
  <2>4. \/ job'["events"] = job["events"] /\ ("events" \in pending => "events" \in pending')
        \/ job'["events"].pc # "handleOverdue"
    <3>1. CASE Arrive(l) \/ ReadStream(l)
      BY <3>1 DEF Arrive, ReadStream, connection, timers, Send
    <3>2. CASE NoEntry(l)
      BY <3>2 DEF NoEntry, timers, Answer, At
    <3>3. CASE Commit(l) \/ Fail(l)
      <4>1. /\ l \in Callers /\ pending' = pending
            /\ \E pc \in {"ack", "read"}, n \in {0, 1} :
                 job' = [job EXCEPT ![l] = [pc |-> pc, todo |-> n, list |-> {}]]
        BY <3>3, Named DEF Commit, Fail, GoTo, connection
      <4> QED BY <1>5, <4>1
    <3> QED BY <1>7, <3>1, <3>2, <3>3
  <2>5. MarkedIn' <= MarkedIn /\ MarkedIn' \in Int
    BY <1>0, <2>1, <2>2, <2>3, <2>4, MarkedKept
  <2> QED BY <1>4, <2>1, <2>5
<1>8. ASSUME NEW l \in Loops, TakeEntry(l)
      PROVE  late' + MarkedIn' <= MarkLimit
  <2>1. l # "steps" /\ Answer(l) /\ l \in Callers /\ l # "scanner"
    BY <1>2, <1>5, <1>8, Named DEF TakeEntry, Answer, CommandsOK
  <2>2. PICK n \in 0..MaxCommands, pc \in {"handle", "handleOverdue"} :
             /\ pc = "handleOverdue" => l = "events" /\ ~At("scanner", "update")
             /\ job' = [job EXCEPT ![l] = [pc |-> pc, todo |-> n, list |-> {}]]
    BY <1>8, <2>1 DEF TakeEntry, GoTo
  <2>3. /\ UNCHANGED <<overdue, late, rest>> /\ job'["scanner"] = job["scanner"]
        /\ "scanner" \in pending => "scanner" \in pending'
    BY <1>5, <1>6, <1>8, <2>1, <2>2 DEF TakeEntry
  <2>4. CASE pc = "handleOverdue"
    <3>1. AllAnsweredIn("scanner")' <= AllAnsweredIn("scanner") /\ AllAnsweredIn("scanner")' \in Int
      BY <1>0, <1>5, <2>3, AllCloser
    <3>2. MarkedIn' <= MarkedIn /\ MarkedIn' \in Int
      BY <2>2, <2>3, <2>4, <3>1, MarkedCloser
    <3> QED BY <1>4, <2>3, <3>2
  <2>5. CASE pc = "handle"
    <3>1. \/ job'["events"] = job["events"] /\ ("events" \in pending => "events" \in pending')
          \/ job'["events"].pc # "handleOverdue"
      BY <1>5, <2>1, <2>2, <2>5 DEF Answer
    <3>2. MarkedIn' <= MarkedIn /\ MarkedIn' \in Int
      BY <1>0, <2>3, <3>1, MarkedKept
    <3> QED BY <1>4, <2>3, <3>2
  <2> QED BY <2>2, <2>4, <2>5
<1>9. ASSUME NEW c \in Callers, SendNext(c) \/ (Take(c) /\ UNCHANGED timers)
      PROVE  late' + MarkedIn' <= MarkLimit
  <2>1. /\ UNCHANGED <<overdue, late, rest>> /\ job' = job /\ pending \subseteq pending'
    BY <1>9 DEF SendNext, timers, Send, Take
  <2>2. MarkedIn' <= MarkedIn /\ MarkedIn' \in Int
    BY <1>0, <2>1, MarkedKept
  <2> QED BY <1>4, <2>1, <2>2
<1>10. ASSUME NEW c \in Callers, Answered(c)
       PROVE  late' + MarkedIn' <= MarkLimit
  <2>1. UNCHANGED <<overdue, late, rest>> /\ Answer(c)
    BY <1>10 DEF Answered
  <2>2. CASE c = "scanner"
    <3>1. At("scanner", "publish") /\ overdue
      BY <1>5, <1>10, <2>1, <2>2 DEF Answered, At
    <3>2. MarkedIn' <= MarkedIn /\ MarkedIn' \in Int
      BY <1>10, <2>2, <3>1, ScannerMarks
    <3> QED BY <1>4, <2>1, <3>2
  <2>3. CASE c # "scanner"
    <3>1. /\ job'["scanner"] = job["scanner"]
          /\ "scanner" \in pending => "scanner" \in pending'
      BY <1>5, <1>6, <1>10, <2>1, <2>3 DEF Answered, GoTo
    <3>2. \/ job'["events"] = job["events"] /\ ("events" \in pending => "events" \in pending')
          \/ job'["events"].pc # "handleOverdue"
          \/ /\ job["events"].todo > 0 /\ Answer("events") /\ At("events", "handleOverdue")
             /\ job'["events"].todo = job["events"].todo - 1
      <4>1. CASE c = "events"
        BY <1>5, <1>10, <2>1, <4>1 DEF Answered, GoTo, At
      <4>2. CASE c # "events"
        BY <1>5, <1>10, <2>1, <4>2 DEF Answered, GoTo, Answer
      <4> QED BY <4>1, <4>2
    <3>3. MarkedIn' <= MarkedIn /\ MarkedIn' \in Int
      BY <1>0, <2>1, <3>1, <3>2, MarkedKept
    <3> QED BY <1>4, <2>1, <3>3
  <2> QED BY <2>2, <2>3
<1>11. CASE Expire
  <2>1. /\ late' = 0 /\ rest' = rest /\ job' = job /\ pending' = pending
    BY <1>11 DEF Expire, connection
  <2>2. MarkedIn' <= MarkedIn /\ MarkedIn' \in Int
    BY <1>0, <2>1, MarkedKept
  <2>3. MarkedIn \in Int /\ MarkLimit \in Int /\ MarkedIn <= MarkLimit
    BY <1>3
  <2>4. MarkedIn' <= MarkLimit
    BY <2>2, <2>3, Transitive
  <2> QED BY <2>1, <2>2, <2>4
<1>12. CASE Scan \/ Mark \/ EndScan
  <2>1. overdue /\ UNCHANGED <<overdue, late>>
    BY <1>12 DEF Scan, Mark, EndScan
  <2>2. MarkedIn' <= MarkedIn /\ MarkedIn' \in Int
    BY <1>12, <2>1, ScannerMarks
  <2> QED BY <1>4, <2>1, <2>2
<1>13. CASE Checked \/ Started \/ Cancel \/ EndStep \/ DelayChecked \/ ScriptChecked \/ Reported
  <2>1. "watch" \notin pending
    BY <1>2 DEF CommandsOK
  <2>2. job["steps"].pc \in {"read", "rest"}
    BY <1>2, Named DEF IdleOK
  <2> QED BY <1>2, <1>13, <2>1, <2>2
          DEF Checked, Started, Cancel, EndStep, Executing, DelayChecked, ScriptChecked, Reported, At,
              Answer
<1>14. ASSUME NEW m \in Retries, BecomeDue(m)
       PROVE  late' + MarkedIn' <= MarkLimit
  BY <1>2, <1>14 DEF BecomeDue, RetriesOK
<1>15. ASSUME NEW p \in Polls, StartPoll(p) \/ Ranged(p) \/ Removed(p) \/ Moved(p)
       PROVE  late' + MarkedIn' <= MarkLimit
  <2>1. job[p].pc \in {"read", "rest"}
    BY <1>2, Named DEF IdleOK
  <2> QED BY <1>2, <1>15, <2>1 DEF StartPoll, Ranged, Removed, Moved, At
<1>16. CASE Elapse
  <2>1. overdue /\ late' = late + 1
    BY <1>16 DEF Elapse
  <2>2. MarkedIn' <= MarkedIn - 1 /\ MarkedIn' \in Int
    BY <1>16, <2>1, NearerMark
  <2>3. MarkedIn \in Int /\ MarkLimit \in Int /\ late \in Int /\ late + MarkedIn <= MarkLimit
    BY <1>3, <2>1 DEF MarkInv
  <2>4. late + 1 + MarkedIn' <= MarkLimit
    BY <2>2, <2>3, NoLater
  <2> QED BY <2>1, <2>4
<1> QED BY <1>7, <1>8, <1>9, <1>10, <1>11, <1>12, <1>13, <1>14, <1>15, <1>16 DEF ProcessNext

-------------------------------------------------------------------------------
(* RetriesAreMoved.                                                         *)

\* What a bound on the members of a poll comes to, and how the delay grows.
LEMMA Delays ==
  /\ MostMembers \in Nat /\ MostMembers <= PollLimit
  /\ \A n \in Nat : n <= Cardinality(Retries) /\ n <= PollLimit => n <= MostMembers
  /\ 2 * Block * MostMembers \in Nat /\ PollLength = Block + 2 * Block * MostMembers
  /\ PollLength \in Nat /\ PollPeriod \in Nat /\ PollPeriod = PollInterval + PollLength
  /\ \A k \in Nat : Delay(k) \in Nat
  /\ \A k, l \in Nat : k <= l => Delay(k) <= Delay(l)
  /\ \A k \in Nat : k >= PollLimit => Delay(k) = PollPeriod + Delay(k - PollLimit)
  /\ Retries # {} => /\ Cardinality(Retries) - 1 \in Nat /\ RetryLimit \in Nat
                     /\ RetryLimit = PollPeriod + Delay(Cardinality(Retries) - 1)
<1>1. /\ MostMembers \in Nat /\ MostMembers <= PollLimit
      /\ \A n \in Nat : n <= Cardinality(Retries) /\ n <= PollLimit => n <= MostMembers
  BY Numbers DEF MostMembers
<1>2. 2 * Block * MostMembers \in Nat
  BY <1>1, Numbers
<1>3. PollLength \in Nat /\ PollPeriod \in Nat
  BY <1>2, Numbers DEF PollLength, PollPeriod
<1>4. \A k \in Nat : k \div PollLimit \in Nat
  BY Numbers
<1>5. \A k, l \in Nat : k <= l => k \div PollLimit <= l \div PollLimit
  BY Numbers
<1>6. ASSUME NEW k \in Nat, k >= PollLimit
      PROVE  k - PollLimit \in Nat /\ k \div PollLimit = (k - PollLimit) \div PollLimit + 1
  BY <1>6, Numbers
<1>7. \A k \in Nat : Delay(k) \in Nat
  BY <1>3, <1>4 DEF Delay
<1>8. ASSUME NEW k \in Nat, NEW l \in Nat, k <= l
      PROVE  Delay(k) <= Delay(l)
  <2>1. k \div PollLimit \in Nat /\ l \div PollLimit \in Nat
        /\ k \div PollLimit <= l \div PollLimit
    BY <1>4, <1>5, <1>8
  <2>2. PollPeriod * (k \div PollLimit) <= PollPeriod * (l \div PollLimit)
    BY <1>3, <2>1, TimesMonotone
  <2> QED BY <1>3, <2>1, <2>2 DEF Delay
<1>9. ASSUME NEW k \in Nat, k >= PollLimit
      PROVE  Delay(k) = PollPeriod + Delay(k - PollLimit)
  <2> DEFINE q == (k - PollLimit) \div PollLimit
  <2>1. q \in Nat /\ k \div PollLimit = q + 1
    BY <1>4, <1>6, <1>9
  <2>2. Delay(k) = (q + 1) * PollPeriod /\ Delay(k - PollLimit) = q * PollPeriod
    BY <2>1 DEF Delay
  <2> HIDE DEF q
  <2> QED BY <1>3, <2>1, <2>2
<1>10. ASSUME Retries # {}
       PROVE  /\ Cardinality(Retries) - 1 \in Nat /\ RetryLimit \in Nat
              /\ RetryLimit = PollPeriod + Delay(Cardinality(Retries) - 1)
  <2> DEFINE q == (Cardinality(Retries) - 1) \div PollLimit
  <2>1. Cardinality(Retries) - 1 \in Nat
    BY <1>10, Numbers, FS_EmptySet
  <2>2. q \in Nat
    BY <1>4, <2>1
  <2>3. RetryLimit = (q + 1) * PollPeriod /\ Delay(Cardinality(Retries) - 1) = q * PollPeriod
    BY DEF RetryLimit, Delay
  <2> HIDE DEF q
  <2> QED BY <1>3, <2>1, <2>2, <2>3
<1> QED BY <1>1, <1>2, <1>3, <1>7, <1>8, <1>9, <1>10 DEF PollLength, PollPeriod

\* Fewer older retries put one off for less; all the others are the most.
LEMMA FewerAreFaster ==
  ASSUME NEW T \in SUBSET Retries, NEW S \in SUBSET T
  PROVE  /\ IsFiniteSet(T) /\ Cardinality(S) \in Nat /\ Cardinality(T) \in Nat
         /\ Delay(Cardinality(S)) \in Nat /\ Delay(Cardinality(T)) \in Nat
         /\ Delay(Cardinality(S)) <= Delay(Cardinality(T))
         /\ \A m \in Retries \ T : Delay(Cardinality(T)) <= Delay(Cardinality(Retries) - 1)
<1>1. IsFiniteSet(T) /\ IsFiniteSet(S) /\ Cardinality(S) <= Cardinality(T)
  <2>1. IsFiniteSet(T)
    BY Numbers, FS_Subset
  <2> QED BY <2>1, FS_Subset
<1>2. Cardinality(S) \in Nat /\ Cardinality(T) \in Nat
  BY <1>1, FS_CardinalityType
<1>3. ASSUME NEW m \in Retries \ T
      PROVE  Delay(Cardinality(T)) <= Delay(Cardinality(Retries) - 1)
  <2>1. /\ IsFiniteSet(Retries \ {m}) /\ Cardinality(Retries \ {m}) = Cardinality(Retries) - 1
        /\ T \subseteq Retries \ {m}
    BY Numbers, FS_RemoveElement
  <2>2. Cardinality(T) <= Cardinality(Retries) - 1
    BY <2>1, FS_Subset
  <2>3. Cardinality(Retries) - 1 \in Nat
    BY Delays
  <2> QED BY <1>2, <2>2, <2>3, Delays
<1> QED BY <1>1, <1>2, <1>3, Delays

\* No retry becomes due, and those that are wait no longer.
NothingComes == \A n \in Retries : retry'[n] = "due" => retry[n] = "due" /\ lag'[n] = lag[n]

LEMMA OlderKept ==
  ASSUME NothingComes, NEW m \in Retries, lag'[m] = lag[m]
  PROVE  Older(m)' \subseteq Older(m)
BY DEF NothingComes, Older, Due

\* The two commands of each of n members, in each place of a poll.
LEMMA PollArithmetic ==
  ASSUME NEW n \in Nat \ {0}, NEW c \in Nat, n <= c, NEW a \in Nat
  PROVE  /\ 2 * Block * n \in Nat /\ 2 * Block * c \in Nat
         /\ Block <= a + (2 * Block * n - Block) /\ Block <= a + 2 * Block * c
         /\ 0 <= a + (2 * Block * n - 2 * Block)
         /\ n # 1 => Block <= a + (2 * Block * n - 2 * Block)
         /\ Block + (2 * Block * n - Block) <= a + 2 * Block * c
         /\ Block + (2 * Block * n - 2 * Block) <= a + (2 * Block * n - Block)
         /\ Block + (2 * Block * (n - 1) - Block) <= a + (2 * Block * n - 2 * Block)
         /\ Block + (2 * Block * (n - 1) - Block) <= a + (2 * Block * n - Block)
<1> DEFINE b == Block * n
           d == Block * c
<1>1. Block \in Nat /\ b \in Nat /\ d \in Nat
  BY Numbers
<1>2. 2 * Block * n = 2 * b /\ 2 * Block * c = 2 * d /\ 2 * Block * (n - 1) = 2 * b - 2 * Block
  BY Numbers
<1>3. b <= d /\ Block * 1 <= b /\ (n # 1 => Block * 2 <= b)
  BY <1>1, TimesMonotone
<1>4. Block <= b /\ (n # 1 => 2 * Block <= b)
  BY <1>1, <1>3
<1> HIDE DEF b, d
<1> QED BY <1>1, <1>2, <1>3, <1>4

\* What a poll at work is.
LEMMA PollTypes ==
  ASSUME TimersInv, NEW p \in Polls, job[p].pc \in {"range", "zrem", "xadd"}
  PROVE  /\ p \in Callers /\ p \notin reading /\ job[p].todo = 1 /\ Active(p)
         /\ AnswerIn(p) \in Nat /\ AnswerIn(p) <= Block
         /\ AfterAnswer(p) \in Int /\ PollEndsIn(p) \in Int
         /\ job[p].pc \in {"zrem", "xadd"} =>
              /\ job[p].list \subseteq Retries /\ IsFiniteSet(job[p].list)
              /\ Cardinality(job[p].list) \in Nat \ {0}
              /\ Cardinality(job[p].list) <= Cardinality(Retries)
              /\ Current(p) \in job[p].list
         /\ \A m \in Retries :
              /\ Afterwards(m, p) \in Nat /\ MovedIn(m, p) \in Int
              /\ Older(m) \subseteq Retries \ {m} /\ Delay(Cardinality(Older(m))) \in Nat
              /\ Delay(Cardinality(Older(m) \ job[p].list)) \in Nat
<1> USE DEF TimersInv
<1>1. p \in Callers /\ p \notin Loops
  BY Named
<1>2. p \notin reading
  BY <1>1 DEF Inv, TypeOK
<1>3. job[p].todo = 1 /\ Active(p)
  BY <1>1, JobTypes DEF Fits, IdleOK
<1>4. AnswerIn(p) \in Nat /\ AnswerIn(p) <= Block
  BY <1>1, <1>2, AnswerBounds, Rivalry
<1>5. ASSUME job[p].pc \in {"zrem", "xadd"}
      PROVE  /\ job[p].list \subseteq Retries /\ IsFiniteSet(job[p].list)
             /\ Cardinality(job[p].list) \in Nat \ {0}
             /\ Cardinality(job[p].list) <= Cardinality(Retries)
             /\ Current(p) \in job[p].list
  <2>1. job[p].list # {} /\ job[p].list \subseteq Retries
    BY <1>1, <1>5, JobTypes
  <2>2. IsFiniteSet(job[p].list) /\ Cardinality(job[p].list) <= Cardinality(Retries)
    BY <2>1, Numbers, FS_Subset
  <2>3. Cardinality(job[p].list) \in Nat \ {0}
    BY <2>1, <2>2, FS_CardinalityType, FS_EmptySet
  <2> QED BY <2>1, <2>2, <2>3 DEF Current
<1>6. AfterAnswer(p) \in Int
  <2> DEFINE n == Cardinality(job[p].list)
  <2>1. CASE At(p, "range")
    <3>1. AfterAnswer(p) = 2 * Block * MostMembers
      BY <2>1 DEF AfterAnswer, At
    <3> QED BY <3>1, Delays
  <2>2. CASE job[p].pc \in {"zrem", "xadd"}
    <3>1. 2 * Block * n \in Int /\ Block \in Int
      BY <1>5, <2>2, Numbers
    <3>2. 2 * Block * n - Block \in Int /\ 2 * Block * n - 2 * Block \in Int
      BY <3>1
    <3> QED BY <2>2, <3>2 DEF AfterAnswer, At
  <2> QED BY <2>1, <2>2 DEF At
<1>7. PollEndsIn(p) \in Int
  BY <1>4, <1>6 DEF PollEndsIn
<1>8. ASSUME NEW m \in Retries
      PROVE  /\ Afterwards(m, p) \in Nat /\ MovedIn(m, p) \in Int
             /\ Older(m) \subseteq Retries \ {m} /\ Delay(Cardinality(Older(m))) \in Nat
             /\ Delay(Cardinality(Older(m) \ job[p].list)) \in Nat
  <2>1. Older(m) \subseteq Retries \ {m}
    BY DEF Older, Due
  <2>2. /\ Delay(Cardinality(Older(m))) \in Nat
        /\ Delay(Cardinality(Older(m) \ job[p].list)) \in Nat
    BY <2>1, FewerAreFaster
  <2>3. Afterwards(m, p) \in Nat
    BY <2>2, Delays DEF Afterwards
  <2> QED BY <1>7, <2>1, <2>2, <2>3 DEF MovedIn
<1> QED BY <1>1, <1>2, <1>3, <1>4, <1>5, <1>6, <1>7, <1>8

\* A poll that gets no answer is no further from its end.
LEMMA PollKept ==
  ASSUME TimersInv, [Next]_connection, NEW p \in Polls, job[p].pc \in {"range", "zrem", "xadd"},
         job'[p] = job[p], p \in pending => p \in pending'
  PROVE  /\ AnswerIn(p)' <= AnswerIn(p) /\ AnswerIn(p)' \in Int
         /\ PollEndsIn(p)' <= PollEndsIn(p) /\ PollEndsIn(p)' \in Int
<1>1. AnswerIn(p)' <= AnswerIn(p) /\ AnswerIn(p)' \in Int /\ AnswerIn(p) \in Int
  BY Named, Closer DEF TimersInv
<1>2. AfterAnswer(p)' = AfterAnswer(p) /\ AfterAnswer(p) \in Int
  BY PollTypes DEF AfterAnswer, At
<1> QED BY <1>1, <1>2 DEF PollEndsIn

\* A second brings every poll at work nearer to its end.
LEMMA PollNearer ==
  ASSUME TimersInv, Elapse, NEW p \in Polls, job[p].pc \in {"range", "zrem", "xadd"}
  PROVE  /\ AnswerIn(p)' = AnswerIn(p) - 1 /\ PollEndsIn(p)' = PollEndsIn(p) - 1
         /\ job'[p] = job[p]
<1>1. p \in pending /\ job'[p] = job[p] /\ Second /\ AnswerIn(p) \in Int
  <2>1. p \notin {"steps", "watch", "scanner"} /\ p \in Callers
    BY Named
  <2>2. job'[p] = job[p] /\ Second /\ Waiting(p)
    BY <2>1, ElapsedJobs DEF TimersInv, Elapse
  <2>3. job[p].todo = 1 /\ Active(p) /\ AnswerIn(p) \in Int
    BY PollTypes
  <2> QED BY <2>1, <2>2, <2>3 DEF Waiting
<1>2. AnswerIn(p)' = AnswerIn(p) - 1
  BY <1>1, CloserBySecond DEF TimersInv
<1>3. AfterAnswer(p)' = AfterAnswer(p) /\ AfterAnswer(p) \in Int
  BY <1>1, PollTypes DEF AfterAnswer, At
<1> QED BY <1>1, <1>2, <1>3 DEF PollEndsIn

\* A retry is put off for no longer by a poll that is left alone, nor by the next.
LEMMA NotPutOff ==
  ASSUME TimersInv, NEW m \in Retries, lag'[m] = lag[m], Older(m)' \subseteq Older(m)
  PROVE  /\ \A p \in Polls :
              job'[p] = job[p] => /\ Afterwards(m, p)' <= Afterwards(m, p)
                                  /\ Afterwards(m, p)' \in Nat /\ Afterwards(m, p) \in Nat
         /\ rest' = rest => /\ NextMovesIn(m)' <= NextMovesIn(m)
                            /\ NextMovesIn(m)' \in Int /\ NextMovesIn(m) \in Int
<1>1. Older(m) \subseteq Retries
  BY DEF Older, Due
<1>2. /\ Delay(Cardinality(Older(m)')) <= Delay(Cardinality(Older(m)))
      /\ Delay(Cardinality(Older(m)')) \in Nat /\ Delay(Cardinality(Older(m))) \in Nat
  BY <1>1, FewerAreFaster
<1>3. ASSUME NEW list
      PROVE  /\ Delay(Cardinality(Older(m)' \ list)) <= Delay(Cardinality(Older(m) \ list))
             /\ Delay(Cardinality(Older(m)' \ list)) \in Nat
             /\ Delay(Cardinality(Older(m) \ list)) \in Nat
  <2>1. Older(m)' \ list \in SUBSET (Older(m) \ list) /\ Older(m) \ list \in SUBSET Retries
    BY <1>1
  <2> QED BY <2>1, FewerAreFaster
<1>4. ASSUME NEW p \in Polls, job'[p] = job[p]
      PROVE  /\ Afterwards(m, p)' <= Afterwards(m, p)
             /\ Afterwards(m, p)' \in Nat /\ Afterwards(m, p) \in Nat
  <2>1. CASE At(p, "range")
    BY <1>2, <1>4, <2>1 DEF Afterwards, At, Delay
  <2>2. CASE ~At(p, "range") /\ m \in job[p].list
    BY <1>4, <2>2 DEF Afterwards, At
  <2>3. CASE ~At(p, "range") /\ m \notin job[p].list
    <3>1. /\ Afterwards(m, p) = PollPeriod + Delay(Cardinality(Older(m) \ job[p].list))
          /\ Afterwards(m, p)' = PollPeriod + Delay(Cardinality(Older(m)' \ job[p].list))
      BY <1>4, <2>3 DEF Afterwards, At, Delay
    <3>2. /\ Delay(Cardinality(Older(m)' \ job[p].list)) <= Delay(Cardinality(Older(m) \ job[p].list))
          /\ Delay(Cardinality(Older(m)' \ job[p].list)) \in Nat
          /\ Delay(Cardinality(Older(m) \ job[p].list)) \in Nat
      BY <1>3
    <3> QED BY <3>1, <3>2, Delays
  <2> QED BY <2>1, <2>2, <2>3
<1>5. ASSUME rest' = rest
      PROVE  /\ NextMovesIn(m)' <= NextMovesIn(m)
             /\ NextMovesIn(m)' \in Int /\ NextMovesIn(m) \in Int
  <2>1. rest \in Int
    BY Numbers DEF TimersInv, ClocksOK
  <2>2. NextMovesIn(m)' = rest + PollLength + Delay(Cardinality(Older(m)'))
    BY <1>5 DEF NextMovesIn, Delay
  <2> QED BY <1>2, <2>1, <2>2, Delays DEF NextMovesIn
<1> QED BY <1>4, <1>5

\* A poll that is left alone keeps what it has found and what it has removed.
LEMMA PollStill ==
  ASSUME TimersInv, ProcessNext, NEW m \in Retries, lag'[m] = lag[m], NEW p \in Polls,
         job'[p] = job[p], p \in pending => p \in pending'
  PROVE  /\ Older(m)' \subseteq Older(m) /\ FoundBy(m, p) => FoundBy(m, p)'
         /\ KeptBy(m, p) => KeptBy(m, p)'
<1>1. [Next]_connection /\ lag[m] \in Int /\ RetryLimit \in Int
  BY ProcessStep, Delays DEF TimersInv, RetriesOK
<1>2. ASSUME Older(m)' \subseteq Older(m), FoundBy(m, p)
      PROVE  FoundBy(m, p)'
  <2>1. job[p].pc \in {"range", "zrem", "xadd"} /\ lag[m] + MovedIn(m, p) <= RetryLimit
    BY <1>2 DEF FoundBy
  <2>2. PollEndsIn(p)' <= PollEndsIn(p) /\ PollEndsIn(p)' \in Int /\ PollEndsIn(p) \in Int
    BY <1>1, <2>1, PollKept, PollTypes
  <2>3. /\ Afterwards(m, p)' <= Afterwards(m, p) /\ Afterwards(m, p)' \in Nat
        /\ Afterwards(m, p) \in Nat
    BY <1>2, NotPutOff
  <2>4. /\ MovedIn(m, p)' <= MovedIn(m, p) /\ MovedIn(m, p)' \in Int /\ MovedIn(m, p) \in Int
    BY <2>2, <2>3 DEF MovedIn
  <2>5. lag[m] + MovedIn(m, p)' <= RetryLimit
    BY <1>1, <2>1, <2>4, NoLater
  <2> QED BY <1>2, <2>5 DEF FoundBy, At, RetryLimit
<1>3. ASSUME KeptBy(m, p)
      PROVE  KeptBy(m, p)'
  <2>1. job[p].pc \in {"range", "zrem", "xadd"} /\ lag[m] + AnswerIn(p) <= RetryLimit
    BY <1>3 DEF KeptBy, At
  <2>2. AnswerIn(p)' <= AnswerIn(p) /\ AnswerIn(p)' \in Int /\ AnswerIn(p) \in Int
    BY <1>1, <2>1, PollKept, PollTypes
  <2>3. lag[m] + AnswerIn(p)' <= RetryLimit
    BY <1>1, <2>1, <2>2, NoLater
  <2> QED BY <1>3, <2>3 DEF KeptBy, At, RetryLimit, Current
<1> QED BY <1>2, <1>3

\* When only p moves, all the others do.
LEMMA OthersStill ==
  ASSUME TimersInv, ProcessNext, NEW m \in Retries, lag'[m] = lag[m], NEW p,
         \A q \in Polls \ {p} : job'[q] = job[q] /\ (q \in pending => q \in pending')
  PROVE  /\ Older(m)' \subseteq Older(m) /\ rest' = rest /\ Found(m)
              => Found(m)' \/ (p \in Polls /\ FoundBy(m, p))
         /\ Kept(m) => Kept(m)' \/ (p \in Polls /\ KeptBy(m, p))
<1>1. \A q \in Polls \ {p} :
        /\ Older(m)' \subseteq Older(m) /\ FoundBy(m, q) => FoundBy(m, q)'
        /\ KeptBy(m, q) => KeptBy(m, q)'
  BY PollStill
<1>2. ASSUME Older(m)' \subseteq Older(m), rest' = rest, lag[m] + NextMovesIn(m) <= RetryLimit
      PROVE  (lag[m] + NextMovesIn(m) <= RetryLimit)'
  <2>1. /\ NextMovesIn(m)' <= NextMovesIn(m)
        /\ NextMovesIn(m)' \in Int /\ NextMovesIn(m) \in Int
    BY <1>2, NotPutOff
  <2>2. lag[m] \in Int /\ RetryLimit \in Int
    BY Delays DEF TimersInv, RetriesOK
  <2>3. lag[m] + NextMovesIn(m)' <= RetryLimit
    BY <1>2, <2>1, <2>2, NoLater
  <2> QED BY <2>3 DEF RetryLimit
<1>3. ASSUME Older(m)' \subseteq Older(m), rest' = rest, Found(m)
      PROVE  Found(m)' \/ (p \in Polls /\ FoundBy(m, p))
  <2>1. CASE \E q \in Polls : FoundBy(m, q)
    <3>1. PICK q \in Polls : FoundBy(m, q)
      BY <2>1
    <3>2. q # p => FoundBy(m, q)'
      BY <1>1, <1>3, <3>1
    <3> QED BY <3>1, <3>2 DEF Found
  <2>2. CASE lag[m] + NextMovesIn(m) <= RetryLimit
    BY <1>2, <1>3, <2>2 DEF Found
  <2> QED BY <1>3, <2>1, <2>2 DEF Found
<1>4. ASSUME Kept(m)
      PROVE  Kept(m)' \/ (p \in Polls /\ KeptBy(m, p))
  <2>1. PICK q \in Polls : KeptBy(m, q)
    BY <1>4 DEF Kept
  <2>2. q # p => KeptBy(m, q)'
    BY <1>1, <2>1
  <2> QED BY <2>1, <2>2 DEF Kept
<1> QED BY <1>3, <1>4

\* A step that no poll takes part in.
LEMMA MoveKept ==
  ASSUME TimersInv, MoveInv, ProcessNext, lag' = lag, rest' = rest,
         \A q \in Polls : job'[q] = job[q] /\ (q \in pending => q \in pending'),
         \A m \in Retries : retry'[m] = retry[m] \/ (retry[m] = "none" /\ retry'[m] = "later")
  PROVE  MoveInv'
<1>0. NothingComes
  BY DEF NothingComes
<1>1. ASSUME NEW m \in Retries
      PROVE  (Found(m) => Found(m)') /\ (Kept(m) => Kept(m)')
  <2>1. NoOne \notin Polls
    BY Named, ConnectionAssumption
  <2> QED BY <1>0, <2>1, OthersStill, OlderKept
<1>2. ASSUME NEW p \in Polls, At(p, "xadd")'
      PROVE  /\ At(p, "xadd") /\ Current(p)' = Current(p) /\ Current(p) \in Retries
             /\ retry[Current(p)] = "removed"
  <2>1. At(p, "xadd") /\ Current(p)' = Current(p)
    BY <1>2 DEF At, Current
  <2> QED BY <2>1, PollTypes DEF At, MoveInv
<1>3. \A p \in Polls : At(p, "xadd")' => retry'[Current(p)'] = "removed"
  BY <1>2
<1>4. \A p, q \in Polls : At(p, "xadd")' /\ At(q, "xadd")' /\ p # q => Current(p)' # Current(q)'
  BY <1>2 DEF MoveInv
<1>5. \A m \in Retries : /\ retry'[m] = "due" => Found(m)'
                         /\ retry'[m] = "removed" => Kept(m)'
                         /\ retry'[m] \in {"none", "later"} => lag'[m] = 0
  BY <1>1 DEF MoveInv
<1> QED BY <1>3, <1>4, <1>5 DEF MoveInv

\* A poll that adds a member and is left alone goes on with it.
LEMMA StillAdds ==
  ASSUME TimersInv, MoveInv, NEW p \in Polls, job'[p] = job[p], At(p, "xadd")'
  PROVE  /\ At(p, "xadd") /\ Current(p)' = Current(p) /\ Current(p) \in Retries
         /\ retry[Current(p)] = "removed"
<1>1. At(p, "xadd") /\ Current(p)' = Current(p)
  BY DEF At, Current
<1> QED BY <1>1, PollTypes DEF At, MoveInv

\* A new poll comes in time for what the timer was to bring in time: it has every
\* due retry in its list.
LEMMA StartPollMoves ==
  ASSUME TimersInv, MoveInv, ProcessNext, NEW p \in Polls, StartPoll(p)
  PROVE  MoveInv'
<1>1. /\ job'[p] = [pc |-> "range", todo |-> 1, list |-> Due] /\ job[p].pc = "rest"
      /\ \A q \in Polls \ {p} : job'[q] = job[q]
      /\ pending' = pending /\ rest = 0 /\ rest' = PollInterval /\ retry' = retry /\ lag' = lag
  BY Named DEF StartPoll, connection, worker, TimersInv, JobsOK, At
<1>2. PollEndsIn(p)' = PollLength
  <2>1. p \in Callers /\ p # "watch" /\ p \notin reading
    BY Named DEF TimersInv, Inv, TypeOK
  <2>2. job[p].todo = 0
    BY <1>1, <2>1, JobTypes DEF TimersInv, Fits
  <2>3. p \notin pending
    BY <1>1, <2>1, <2>2, Silent DEF TimersInv, At
  <2>4. AnswerIn(p)' = Block
    BY <1>1, <2>3, Rivalry DEF AnswerIn, Longest, Rivals, Together
  <2> QED BY <1>1, <2>4 DEF PollEndsIn, AfterAnswer, At, PollLength, MostMembers
<1>3. NothingComes
  BY <1>1 DEF NothingComes
<1>4. ASSUME NEW m \in Retries
      PROVE  /\ retry[m] = "due" /\ Found(m) => Found(m)'
             /\ Kept(m) => Kept(m)'
  <2>1. \A q \in Polls \ {p} : (FoundBy(m, q) => FoundBy(m, q)') /\ (KeptBy(m, q) => KeptBy(m, q)')
    BY <1>1, <1>3, PollStill, OlderKept
  <2>2. ~FoundBy(m, p) /\ ~KeptBy(m, p)
    BY <1>1 DEF FoundBy, KeptBy, At
  <2>3. ASSUME retry[m] = "due", lag[m] + NextMovesIn(m) <= RetryLimit
        PROVE  FoundBy(m, p)'
    <3>1. Older(m)' = Older(m) /\ Older(m) \subseteq Retries
      BY <1>1 DEF Older, Due
    <3>2. Delay(Cardinality(Older(m))) \in Nat /\ PollLength \in Nat
      BY <3>1, FewerAreFaster, Delays
    <3>3. MovedIn(m, p)' = PollLength + Delay(Cardinality(Older(m)))
      <4>1. Afterwards(m, p)' = Delay(Cardinality(Older(m)))
        <5>1. At(p, "range")'
          BY <1>1 DEF At
        <5> QED BY <3>1, <5>1 DEF Afterwards, Delay
      <4> QED BY <1>2, <4>1 DEF MovedIn
    <3>4. NextMovesIn(m) = PollLength + Delay(Cardinality(Older(m)))
      BY <1>1, <3>2 DEF NextMovesIn
    <3>5. m \in Due
      BY <2>3 DEF Due
    <3> QED BY <1>1, <2>3, <3>3, <3>4, <3>5 DEF FoundBy, At, RetryLimit
  <2> QED BY <2>1, <2>2, <2>3 DEF Found, Kept
<1>5. ASSUME NEW q \in Polls, At(q, "xadd")'
      PROVE  q # p /\ job'[q] = job[q]
  BY <1>1, <1>5 DEF At
<1>6. \A q \in Polls : At(q, "xadd")' => retry'[Current(q)'] = "removed"
  BY <1>1, <1>5, StillAdds
<1>7. \A q, r \in Polls : At(q, "xadd")' /\ At(r, "xadd")' /\ q # r => Current(q)' # Current(r)'
  BY <1>5, StillAdds DEF MoveInv
<1> QED BY <1>1, <1>4, <1>6, <1>7 DEF MoveInv

\* What a poll's answer leaves alone.
LEMMA PollAnswered ==
  ASSUME TimersInv, NEW p \in Polls, Answer(p)
  PROVE  /\ \A q \in Polls \ {p} : q \in pending => q \in pending'
         /\ AnswerIn(p)' = Block
BY Named, Rivalry DEF Answer, AnswerIn, Longest, Rivals, Together

\* A retry that is not among the first ones has as many of them before it as a
\* list can have, and no longer when the poll has ended.
LEMMA LeftForLater ==
  ASSUME NEW m \in Retries, NEW members \in SUBSET Due, NEW list \in FirstOf(members),
         m \in members \ list
  PROVE  /\ Cardinality(list) = PollLimit
         /\ Delay(Cardinality(Older(m))) = PollPeriod + Delay(Cardinality(Older(m) \ list))
<1>1. list \subseteq Older(m) /\ Cardinality(list) = PollLimit /\ Older(m) \subseteq Retries
  BY DEF FirstOf, Older, Due
<1>2. IsFiniteSet(Older(m)) /\ Cardinality(Older(m)) \in Nat
  BY <1>1, FewerAreFaster
<1>3. Older(m) \cap list = list
  BY <1>1
<1>4. Cardinality(Older(m) \ list) = Cardinality(Older(m)) - PollLimit
  BY <1>1, <1>2, <1>3, FS_Difference
<1>5. Cardinality(Older(m)) >= PollLimit
  BY <1>1, <1>2, FS_Subset
<1> QED BY <1>1, <1>2, <1>4, <1>5, Delays

\* The answer has the first of the due ones that the poll has asked for.
LEMMA RangedMoves ==
  ASSUME TimersInv, MoveInv, ProcessNext, NEW p \in Polls, Ranged(p)
  PROVE  MoveInv'
<1>0. PICK list \in FirstOf(job[p].list \cap Due) : NextMember(p, list)
  BY DEF Ranged
<1>1. /\ IF list = {} THEN job'[p] = [pc |-> "rest", todo |-> 0, list |-> {}]
         ELSE job'[p] = [pc |-> "zrem", todo |-> 1, list |-> list]
      /\ \A q \in Polls \ {p} : job'[q] = job[q]
      /\ list \subseteq Retries /\ IsFiniteSet(list)
      /\ Cardinality(list) \in Nat /\ Cardinality(list) <= MostMembers
  <2>1. list \in SUBSET Retries /\ Cardinality(list) <= PollLimit
    BY DEF FirstOf, Due
  <2>2. /\ IF list = {} THEN job'[p] = [pc |-> "rest", todo |-> 0, list |-> {}]
           ELSE job'[p] = [pc |-> "zrem", todo |-> 1, list |-> list]
        /\ \A q \in Polls \ {p} : job'[q] = job[q]
    BY <1>0, <2>1, GoesOn, Named DEF TimersInv
  <2>3. IsFiniteSet(list) /\ Cardinality(list) <= Cardinality(Retries)
    BY <2>1, Numbers, FS_Subset
  <2>4. Cardinality(list) \in Nat
    BY <2>3, FS_CardinalityType
  <2> QED BY <2>1, <2>2, <2>3, <2>4, Delays
<1>2. /\ At(p, "range") /\ rest' = rest /\ retry' = retry /\ lag' = lag
      /\ \A q \in Polls \ {p} : q \in pending => q \in pending'
      /\ AnswerIn(p)' = Block /\ AnswerIn(p) \in Nat
  BY PollAnswered, PollTypes DEF Ranged, worker, At
<1>3. NothingComes
  BY <1>2 DEF NothingComes
<1>4. ASSUME NEW m \in Retries, retry[m] = "due"
      PROVE  Found(m)'
  <2>1. Found(m)' \/ FoundBy(m, p)
    BY <1>1, <1>2, <1>3, <1>4, OthersStill, OlderKept DEF MoveInv
  <2>2. ASSUME FoundBy(m, p)
        PROVE  FoundBy(m, p)'
    <3> DEFINE n == Cardinality(list)
    <3>1. m \in job[p].list \cap Due /\ lag[m] + MovedIn(m, p) <= RetryLimit
      BY <1>2, <1>4, <2>2 DEF FoundBy, Due
    <3>2. list # {}
      <4>1. Cardinality({}) = 0 /\ PollLimit # 0
        BY FS_EmptySet, Numbers
      <4> QED BY <3>1, <4>1 DEF FirstOf
    <3>3. job'[p] = [pc |-> "zrem", todo |-> 1, list |-> list]
      BY <1>1, <3>2
    <3>4. n \in Nat \ {0} /\ n <= MostMembers
      BY <1>1, <3>2, FS_EmptySet
    <3>5. PollEndsIn(p) = AnswerIn(p) + 2 * Block * MostMembers
      BY <1>2 DEF PollEndsIn, AfterAnswer, At
    <3>6. PollEndsIn(p)' = Block + (2 * Block * n - Block)
      BY <1>2, <3>3 DEF PollEndsIn, AfterAnswer, At
    <3>7. PollEndsIn(p)' <= PollEndsIn(p) /\ PollEndsIn(p)' \in Int /\ PollEndsIn(p) \in Int
      <4>1. /\ 2 * Block * MostMembers \in Nat /\ 2 * Block * n \in Nat
            /\ Block + (2 * Block * n - Block) <= AnswerIn(p) + 2 * Block * MostMembers
        BY <1>2, <3>4, PollArithmetic, Delays
      <4> HIDE DEF n
      <4>2. Block + (2 * Block * n - Block) \in Int /\ AnswerIn(p) + 2 * Block * MostMembers \in Int
        BY <1>2, <4>1, Numbers
      <4> QED BY <3>5, <3>6, <4>1, <4>2
    <3>8. Afterwards(m, p)' <= Afterwards(m, p) /\ Afterwards(m, p)' \in Int
          /\ Afterwards(m, p) \in Int
      <4>1. Afterwards(m, p) = Delay(Cardinality(Older(m))) /\ Older(m)' = Older(m)
        <5>1. Older(m)' = Older(m)
          BY <1>2 DEF Older, Due
        <5>2. Afterwards(m, p) = Delay(Cardinality(Older(m)))
          BY <1>2 DEF Afterwards, At
        <5> QED BY <5>1, <5>2
      <4>2. /\ Delay(Cardinality(Older(m))) \in Nat
            /\ Delay(Cardinality(Older(m) \ list)) \in Nat
        <5>1. Older(m) \in SUBSET Retries /\ Older(m) \ list \in SUBSET Older(m)
          BY DEF Older, Due
        <5> QED BY <5>1, FewerAreFaster
      <4>3. CASE m \in list
        <5>1. Afterwards(m, p)' = 0
          BY <3>3, <4>3 DEF Afterwards, At
        <5> QED BY <4>1, <4>2, <5>1
      <4>4. CASE m \notin list
        <5>1. Delay(Cardinality(Older(m))) = PollPeriod + Delay(Cardinality(Older(m) \ list))
          <6>1. job[p].list \cap Due \in SUBSET Due /\ m \in (job[p].list \cap Due) \ list
            BY <3>1, <4>4
          <6> QED BY <6>1, LeftForLater
        <5>2. Afterwards(m, p)' = PollPeriod + Delay(Cardinality(Older(m) \ list))
          BY <3>3, <4>1, <4>4 DEF Afterwards, At, Delay
        <5> QED BY <4>1, <4>2, <5>1, <5>2
      <4> QED BY <4>3, <4>4
    <3>9. lag[m] \in Int /\ RetryLimit \in Int
      BY Delays DEF TimersInv, RetriesOK
    <3>10. MovedIn(m, p)' <= MovedIn(m, p) /\ MovedIn(m, p)' \in Int /\ MovedIn(m, p) \in Int
      BY <3>7, <3>8 DEF MovedIn
    <3>11. lag[m] + MovedIn(m, p)' <= RetryLimit
      BY <3>1, <3>9, <3>10, NoLater
    <3> QED BY <1>2, <3>3, <3>11 DEF FoundBy, At, RetryLimit
  <2> QED BY <2>1, <2>2 DEF Found
<1>5. ASSUME NEW m \in Retries, retry[m] = "removed"
      PROVE  Kept(m)'
  <2>1. ~KeptBy(m, p)
    BY <1>2 DEF KeptBy, At
  <2> QED BY <1>1, <1>2, <1>3, <1>5, <2>1, OthersStill, OlderKept DEF MoveInv
<1>6. ASSUME NEW q \in Polls, At(q, "xadd")'
      PROVE  q # p /\ job'[q] = job[q]
  BY <1>1, <1>6 DEF At
<1>7. \A q \in Polls : At(q, "xadd")' => retry'[Current(q)'] = "removed"
  BY <1>2, <1>6, StillAdds
<1>8. \A q, r \in Polls : At(q, "xadd")' /\ At(r, "xadd")' /\ q # r => Current(q)' # Current(r)'
  BY <1>6, StillAdds DEF MoveInv
<1> QED BY <1>2, <1>4, <1>5, <1>7, <1>8 DEF MoveInv

\* A poll that is through with a member comes to the next ones in time, or leaves
\* them to the next poll in time.
LEMMA NextInTime ==
  ASSUME TimersInv, NothingComes, NEW p \in Polls, Answer(p), job[p].pc \in {"zrem", "xadd"},
         NextMember(p, job[p].list \ {Current(p)}), retry'[Current(p)] # "due", rest' = rest,
         NEW m \in Retries, retry[m] = "due", m # Current(p), lag'[m] = lag[m], FoundBy(m, p)
  PROVE  Found(m)'
<1> DEFINE n == Cardinality(job[p].list)
           others == job[p].list \ {Current(p)}
<1>1. /\ others \subseteq Retries /\ n \in Nat \ {0} /\ n <= Cardinality(Retries)
      /\ Cardinality(others) = n - 1 /\ (m \in others <=> m \in job[p].list)
  <2>1. /\ job[p].list \subseteq Retries /\ IsFiniteSet(job[p].list) /\ Current(p) \in job[p].list
        /\ n \in Nat \ {0} /\ n <= Cardinality(Retries)
    BY PollTypes
  <2>2. Cardinality(others) = n - 1
    BY <2>1, FS_RemoveElement
  <2> QED BY <2>1, <2>2
<1>2. IF others = {} THEN job'[p] = [pc |-> "rest", todo |-> 0, list |-> {}]
      ELSE job'[p] = [pc |-> "zrem", todo |-> 1, list |-> others]
  BY <1>1, GoesOn DEF TimersInv
<1>3. /\ AnswerIn(p) \in Nat
      /\ \/ PollEndsIn(p) = AnswerIn(p) + (2 * Block * n - Block)
         \/ PollEndsIn(p) = AnswerIn(p) + (2 * Block * n - 2 * Block)
  BY PollTypes DEF PollEndsIn, AfterAnswer, At
<1>4. /\ lag[m] + MovedIn(m, p) <= RetryLimit /\ lag[m] \in Int /\ RetryLimit \in Int
      /\ PollEndsIn(p) \in Int /\ Afterwards(m, p) \in Nat /\ MovedIn(m, p) \in Int
  <2>1. RetryLimit \in Int /\ lag[m] \in Int
    BY Delays DEF TimersInv, RetriesOK
  <2>2. PollEndsIn(p) \in Int /\ Afterwards(m, p) \in Nat /\ MovedIn(m, p) \in Int
    BY PollTypes
  <2> QED BY <2>1, <2>2 DEF FoundBy
<1>5. /\ Delay(Cardinality(Older(m)' \ others)) <= Delay(Cardinality(Older(m) \ job[p].list))
      /\ Delay(Cardinality(Older(m)' \ others)) \in Nat
      /\ Delay(Cardinality(Older(m) \ job[p].list)) \in Nat
  <2>1. Older(m)' \subseteq Older(m) /\ Older(m) \subseteq Retries
    <3>1. Older(m) \subseteq Retries
      BY DEF Older, Due
    <3> QED BY <3>1, OlderKept
  <2>2. Current(p) \notin Older(m)'
    BY DEF Older, Due
  <2>3. /\ Older(m)' \ others \in SUBSET (Older(m) \ job[p].list)
        /\ Older(m) \ job[p].list \in SUBSET Retries
    BY <2>1, <2>2
  <2> QED BY <2>3, FewerAreFaster
<1>6. 0 <= PollEndsIn(p)
  <2>1. Block <= AnswerIn(p) + (2 * Block * n - Block) /\ 0 <= AnswerIn(p) + (2 * Block * n - 2 * Block)
    BY <1>1, <1>3, PollArithmetic
  <2> QED BY <1>3, <1>4, <2>1, Numbers
<1>7. CASE others = {}
  <2>1. m \notin job[p].list /\ Older(m)' \ others = Older(m)'
    BY <1>1, <1>7
  <2>2. Afterwards(m, p) = PollPeriod + Delay(Cardinality(Older(m) \ job[p].list))
    BY <2>1 DEF Afterwards, At
  <2>3. NextMovesIn(m)' = rest + PollLength + Delay(Cardinality(Older(m)'))
    BY DEF NextMovesIn, Delay
  <2>4. rest \in Nat /\ rest <= PollInterval
    <3>1. process = "worker"
      BY DEF TimersInv, RetriesOK
    <3> QED BY <3>1, Numbers DEF TimersInv, ClocksOK
  <2>5. /\ PollPeriod = PollInterval + PollLength /\ PollLength \in Nat /\ PollInterval \in Nat
    BY Delays, Numbers
  <2> DEFINE d == Delay(Cardinality(Older(m)'))
             e == Delay(Cardinality(Older(m) \ job[p].list))
  <2>8. d <= e /\ d \in Nat /\ e \in Nat /\ NextMovesIn(m)' = rest + PollLength + d
        /\ MovedIn(m, p) = PollEndsIn(p) + (PollPeriod + e)
    BY <1>5, <2>1, <2>2, <2>3 DEF MovedIn
  <2> HIDE DEF others, d, e
  <2>6. /\ NextMovesIn(m)' <= MovedIn(m, p) /\ NextMovesIn(m)' \in Int
    BY <1>4, <1>6, <2>4, <2>5, <2>8
  <2>7. lag[m] + NextMovesIn(m)' <= RetryLimit
    BY <1>4, <2>6, NoLater
  <2> QED BY <2>7 DEF Found, RetryLimit
<1>8. CASE others # {}
  <2>1. job'[p] = [pc |-> "zrem", todo |-> 1, list |-> others]
    BY <1>2, <1>8
  <2>2. PollEndsIn(p)' = Block + (2 * Block * (n - 1) - Block)
    BY <1>1, <2>1, PollAnswered DEF PollEndsIn, AfterAnswer, At
  <2>3. Afterwards(m, p)' <= Afterwards(m, p) /\ Afterwards(m, p)' \in Nat
    <3>1. CASE m \in others
      <4>1. Afterwards(m, p)' = 0
        BY <2>1, <3>1 DEF Afterwards, At
      <4> QED BY <1>4, <4>1
    <3>2. CASE m \notin others
      <4>1. /\ Afterwards(m, p) = PollPeriod + Delay(Cardinality(Older(m) \ job[p].list))
            /\ Afterwards(m, p)' = PollPeriod + Delay(Cardinality(Older(m)' \ others))
        BY <1>1, <2>1, <3>2 DEF Afterwards, At, Delay
      <4> QED BY <1>5, <4>1, Delays
    <3> QED BY <3>1, <3>2
  <2> HIDE DEF others
  <2>4. PollEndsIn(p)' <= PollEndsIn(p)
    BY <1>1, <1>3, <2>2, PollArithmetic, Numbers
  <2>5. PollEndsIn(p)' \in Int
    <3>1. 2 * Block * (n - 1) \in Int
      BY <1>1, Numbers
    <3> QED BY <2>2, <3>1, Numbers
  <2>6. MovedIn(m, p)' <= MovedIn(m, p) /\ MovedIn(m, p)' \in Int
    BY <1>4, <2>3, <2>4, <2>5 DEF MovedIn
  <2>7. lag[m] + MovedIn(m, p)' <= RetryLimit
    BY <1>4, <2>6, NoLater
  <2> QED BY <2>1, <2>7 DEF Found, FoundBy, At, RetryLimit
<1> QED BY <1>7, <1>8

\* It does so, or rests.
LEMMA NextPlace ==
  ASSUME TimersInv, NEW p \in Polls, job[p].list \subseteq Retries,
         NextMember(p, job[p].list \ {Current(p)})
  PROVE  job'[p].pc # "xadd" /\ \A q \in Polls \ {p} : job'[q] = job[q]
<1> DEFINE others == job[p].list \ {Current(p)}
<1>1. others \in SUBSET Retries /\ NextMember(p, others) /\ JobsOK
  BY DEF TimersInv
<1> HIDE DEF others
<1>2. /\ IF others = {} THEN job'[p] = [pc |-> "rest", todo |-> 0, list |-> {}]
         ELSE job'[p] = [pc |-> "zrem", todo |-> 1, list |-> others]
      /\ \A q \in Callers : q # p => job'[q] = job[q]
  BY <1>1, GoesOn
<1> QED BY <1>2, Named

\* A due member can wait for one more command.
LEMMA TimeForOneMore ==
  ASSUME TimersInv, MoveInv, NEW m \in Retries, retry[m] = "due"
  PROVE  lag[m] + Block <= RetryLimit
<1>0. lag[m] \in Int /\ RetryLimit \in Int /\ Block \in Int
  BY Numbers, Delays DEF TimersInv, RetriesOK
<1>1. Found(m)
  BY DEF MoveInv
<1>2. ASSUME lag[m] + NextMovesIn(m) <= RetryLimit
      PROVE  lag[m] + Block <= RetryLimit
  <2>1. PollLength \in Nat /\ Block <= PollLength /\ rest \in Nat
    BY Delays, Numbers DEF TimersInv, ClocksOK
  <2>2. Older(m) \subseteq Retries
    BY DEF Older, Due
  <2>3. Delay(Cardinality(Older(m))) \in Nat
    BY <2>2, FewerAreFaster
  <2>4. Block <= NextMovesIn(m) /\ NextMovesIn(m) \in Int
    BY <1>0, <2>1, <2>3 DEF NextMovesIn
  <2> QED BY <1>0, <1>2, <2>4, NoLater
<1>3. ASSUME NEW p \in Polls, FoundBy(m, p)
      PROVE  lag[m] + Block <= RetryLimit
  <2> DEFINE n == Cardinality(job[p].list)
  <2>1. job[p].pc \in {"range", "zrem", "xadd"} /\ lag[m] + MovedIn(m, p) <= RetryLimit
    BY <1>3 DEF FoundBy
  <2>2. /\ AnswerIn(p) \in Nat /\ PollEndsIn(p) \in Int /\ MovedIn(m, p) \in Int
        /\ Afterwards(m, p) \in Nat /\ Delay(Cardinality(Older(m) \ job[p].list)) \in Nat
    BY <2>1, PollTypes
  <2>3. Block <= MovedIn(m, p)
    <3>1. CASE At(p, "range")
      <4>1. PollEndsIn(p) = AnswerIn(p) + 2 * Block * MostMembers
        BY <3>1 DEF PollEndsIn, AfterAnswer, At
      <4>2. MostMembers \in Nat \ {0}
        <5>1. Cardinality(Retries) \in Nat \ {0}
          BY Numbers, FS_EmptySet
        <5> QED BY <5>1, Numbers DEF MostMembers
      <4>3. Block <= PollEndsIn(p)
        BY <2>2, <4>1, <4>2, PollArithmetic
      <4> QED BY <1>0, <2>2, <4>3 DEF MovedIn
    <3>2. CASE At(p, "zrem")
      <4>1. PollEndsIn(p) = AnswerIn(p) + (2 * Block * n - Block)
        BY <3>2 DEF PollEndsIn, AfterAnswer, At
      <4>2. n \in Nat \ {0}
        BY <3>2, PollTypes DEF At
      <4>3. Block <= PollEndsIn(p)
        BY <2>2, <4>1, <4>2, PollArithmetic
      <4> QED BY <1>0, <2>2, <4>3 DEF MovedIn
    <3>3. CASE At(p, "xadd") /\ m \in job[p].list
      <4>1. PollEndsIn(p) = AnswerIn(p) + (2 * Block * n - 2 * Block)
        BY <3>3 DEF PollEndsIn, AfterAnswer, At
      <4>2. n \in Nat \ {0} /\ IsFiniteSet(job[p].list) /\ Current(p) \in job[p].list
        BY <3>3, PollTypes DEF At
      <4>3. m # Current(p)
        BY <3>3 DEF MoveInv
      <4>4. n # 1
        <5>1. Cardinality(job[p].list \ {m}) = n - 1 /\ IsFiniteSet(job[p].list \ {m})
          BY <3>3, <4>2, FS_RemoveElement
        <5>2. job[p].list \ {m} # {}
          BY <4>2, <4>3
        <5>3. Cardinality(job[p].list \ {m}) # 0
          BY <5>1, <5>2, FS_EmptySet
        <5> QED BY <5>1, <5>3
      <4> HIDE DEF n
      <4>5. Block <= AnswerIn(p) + (2 * Block * n - 2 * Block)
        BY <2>2, <4>2, <4>4, PollArithmetic
      <4> QED BY <1>0, <2>2, <4>1, <4>5 DEF MovedIn
    <3>4. CASE At(p, "xadd") /\ m \notin job[p].list
      <4>1. PollEndsIn(p) = AnswerIn(p) + (2 * Block * n - 2 * Block)
        BY <3>4 DEF PollEndsIn, AfterAnswer, At
      <4>2. n \in Nat \ {0}
        BY <3>4, PollTypes DEF At
      <4>3. 0 <= PollEndsIn(p)
        BY <2>2, <4>1, <4>2, PollArithmetic
      <4>4. Block <= Afterwards(m, p)
        <5>1. Afterwards(m, p) = PollPeriod + Delay(Cardinality(Older(m) \ job[p].list))
          BY <3>4 DEF Afterwards, At
        <5>2. Block <= PollPeriod /\ PollPeriod \in Nat
          BY Delays, Numbers
        <5> QED BY <1>0, <2>2, <5>1, <5>2
      <4> QED BY <1>0, <2>2, <4>3, <4>4 DEF MovedIn
    <3> QED BY <2>1, <3>1, <3>2, <3>3, <3>4 DEF At
  <2> QED BY <1>0, <2>1, <2>2, <2>3, NoLater
<1> QED BY <1>1, <1>2, <1>3 DEF Found

\* A poll removes a member that is still due, or leaves it to the one that has.
LEMMA RemovedMoves ==
  ASSUME TimersInv, MoveInv, ProcessNext, NEW p \in Polls, Removed(p)
  PROVE  MoveInv'
<1> DEFINE n == Cardinality(job[p].list)
<1>1. /\ At(p, "zrem") /\ Answer(p) /\ rest' = rest /\ lag' = lag
      /\ \A q \in Polls \ {p} : q \in pending => q \in pending'
      /\ AnswerIn(p)' = Block
  BY PollAnswered DEF Removed
<1>0. NothingComes
  <2>1. \A m \in Retries : retry'[m] = retry[m] \/ retry'[m] = "removed"
    BY DEF Removed, TimersInv, RetriesOK
  <2> QED BY <1>1, <2>1 DEF NothingComes
<1>2. /\ job[p].list \subseteq Retries /\ n \in Nat \ {0} /\ n <= Cardinality(Retries)
      /\ Current(p) \in Retries /\ AnswerIn(p) \in Nat /\ p \in Callers /\ DOMAIN job = Callers
      /\ DOMAIN retry = Retries /\ RetryLimit \in Int
  BY <1>1, PollTypes, Delays DEF At, TimersInv, JobsOK, RetriesOK
<1>3. CASE retry[Current(p)] = "due"
  <2>1. /\ retry' = [retry EXCEPT ![Current(p)] = "removed"]
        /\ job' = [job EXCEPT ![p].pc = "xadd"]
    BY <1>3 DEF Removed, Current
  <2>2. /\ job'[p].pc = "xadd" /\ job'[p].list = job[p].list
        /\ \A q \in Polls \ {p} : job'[q] = job[q]
    <3>1. job[p] = [pc |-> job[p].pc, todo |-> job[p].todo, list |-> job[p].list]
      BY <1>2, JobTypes DEF TimersInv
    <3> QED BY <1>2, <2>1, <3>1
  <2>3. Current(p)' = Current(p)
    BY <2>2 DEF Current
  <2>4. ASSUME NEW m \in Retries, m = Current(p)
        PROVE  Kept(m)'
    <3>1. lag[m] + Block <= RetryLimit
      BY <1>3, <2>4, TimeForOneMore
    <3>2. (lag[m] + AnswerIn(p) <= RetryLimit)'
      BY <1>1, <3>1 DEF RetryLimit
    <3>3. KeptBy(m, p)'
      BY <2>2, <2>3, <2>4, <3>2 DEF KeptBy, At
    <3> QED BY <3>3 DEF Kept
  <2>5. ASSUME NEW m \in Retries, m # Current(p), retry[m] = "due"
        PROVE  Found(m)'
    <3>1. Found(m)' \/ FoundBy(m, p)
      BY <1>0, <1>1, <2>2, <2>5, OthersStill, OlderKept DEF MoveInv
    <3>2. ASSUME FoundBy(m, p)
          PROVE  FoundBy(m, p)'
      <4>1. PollEndsIn(p) = AnswerIn(p) + (2 * Block * n - Block) /\ PollEndsIn(p) \in Int
        BY <1>1, PollTypes DEF PollEndsIn, AfterAnswer, At
      <4>2. PollEndsIn(p)' = Block + (2 * Block * n - 2 * Block)
        BY <1>1, <2>2 DEF PollEndsIn, AfterAnswer, At
      <4>3. PollEndsIn(p)' <= PollEndsIn(p)
        BY <1>2, <4>1, <4>2, PollArithmetic, Numbers
      <4>4. PollEndsIn(p)' \in Int
        <5>1. 2 * Block * n \in Int /\ 2 * Block \in Int
          BY <1>2, Numbers
        <5> QED BY <4>2, <5>1, Numbers
      <4>5. lag[m] \in Int /\ lag[m] + MovedIn(m, p) <= RetryLimit
        BY <3>2 DEF FoundBy, TimersInv, RetriesOK
      <4>6. /\ Afterwards(m, p)' <= Afterwards(m, p)
            /\ Afterwards(m, p)' \in Int /\ Afterwards(m, p) \in Int
        <5>1. Older(m)' \subseteq Older(m) /\ Older(m) \subseteq Retries
          <6>1. Older(m) \subseteq Retries
            BY DEF Older, Due
          <6> QED BY <1>0, <1>1, <6>1, OlderKept
        <5>2. /\ Delay(Cardinality(Older(m)' \ job[p].list)) <= Delay(Cardinality(Older(m) \ job[p].list))
              /\ Delay(Cardinality(Older(m)' \ job[p].list)) \in Nat
              /\ Delay(Cardinality(Older(m) \ job[p].list)) \in Nat
          <6>1. /\ Older(m)' \ job[p].list \in SUBSET (Older(m) \ job[p].list)
                /\ Older(m) \ job[p].list \in SUBSET Retries
            BY <5>1
          <6> QED BY <6>1, FewerAreFaster
        <5>3. CASE m \in job[p].list
          BY <1>1, <2>2, <5>3 DEF Afterwards, At
        <5>4. CASE m \notin job[p].list
          <6>1. /\ Afterwards(m, p) = PollPeriod + Delay(Cardinality(Older(m) \ job[p].list))
                /\ Afterwards(m, p)' = PollPeriod + Delay(Cardinality(Older(m)' \ job[p].list))
            BY <1>1, <2>2, <5>4 DEF Afterwards, At, Delay
          <6> QED BY <5>2, <6>1, Delays
        <5> QED BY <5>3, <5>4
      <4>7. MovedIn(m, p)' <= MovedIn(m, p) /\ MovedIn(m, p)' \in Int /\ MovedIn(m, p) \in Int
        BY <4>1, <4>3, <4>4, <4>6 DEF MovedIn
      <4>8. lag[m] + MovedIn(m, p)' <= RetryLimit
        BY <1>2, <4>5, <4>7, NoLater
      <4> QED BY <1>1, <2>2, <4>8 DEF FoundBy, At, RetryLimit
    <3> QED BY <3>1, <3>2 DEF Found
  <2>6. ASSUME NEW m \in Retries, retry[m] = "removed"
        PROVE  Kept(m)'
    <3>1. ~KeptBy(m, p)
      BY <1>1 DEF KeptBy, At
    <3> QED BY <1>0, <1>1, <2>2, <2>6, <3>1, OthersStill, OlderKept DEF MoveInv
  <2>7. \A m \in Retries : /\ m # Current(p) => retry'[m] = retry[m]
                           /\ m = Current(p) => retry'[m] = "removed"
    BY <1>2, <2>1
  <2>8. ASSUME NEW q \in Polls, At(q, "xadd")', q # p
        PROVE  /\ At(q, "xadd") /\ Current(q)' = Current(q) /\ Current(q) \in Retries
               /\ retry[Current(q)] = "removed" /\ Current(q) # Current(p)
    BY <1>3, <2>2, <2>8, StillAdds
  <2>9. \A q \in Polls : At(q, "xadd")' => retry'[Current(q)'] = "removed"
    <3>1. retry'[Current(p)'] = "removed"
      BY <1>2, <2>3, <2>7
    <3> QED BY <2>7, <2>8, <3>1
  <2>10. \A q, r \in Polls : At(q, "xadd")' /\ At(r, "xadd")' /\ q # r => Current(q)' # Current(r)'
    BY <2>3, <2>8 DEF MoveInv
  <2>11. \A m \in Retries : /\ retry'[m] = "due" => Found(m)'
                            /\ retry'[m] = "removed" => Kept(m)'
                            /\ retry'[m] \in {"none", "later"} => lag'[m] = 0
    <3>1. \A m \in Retries : retry[m] \in {"none", "later"} => lag[m] = 0
      BY DEF MoveInv
    <3>2. ASSUME NEW m \in Retries
          PROVE  /\ retry'[m] = "due" => Found(m)'
                 /\ retry'[m] = "removed" => Kept(m)'
                 /\ retry'[m] \in {"none", "later"} => lag'[m] = 0
      <4>1. CASE m = Current(p)
        BY <2>4, <2>7, <4>1
      <4>2. CASE m # Current(p)
        BY <1>1, <2>5, <2>6, <2>7, <3>1, <4>2
      <4> QED BY <4>1, <4>2
    <3> QED BY <3>2
  <2> QED BY <2>9, <2>10, <2>11 DEF MoveInv
<1>4. CASE retry[Current(p)] # "due"
  <2>1. retry' = retry /\ NextMember(p, job[p].list \ {Current(p)})
    BY <1>4 DEF Removed, Current
  <2>2. /\ job'[p].pc # "xadd" /\ \A q \in Polls \ {p} : job'[q] = job[q]
    BY <1>2, <2>1, NextPlace
  <2>3. ASSUME NEW m \in Retries, retry[m] = "due"
        PROVE  Found(m)'
    <3>1. Found(m)' \/ FoundBy(m, p)
      BY <1>0, <1>1, <2>2, <2>3, OthersStill, OlderKept DEF MoveInv
    <3>2. FoundBy(m, p) => Found(m)'
      BY <1>0, <1>1, <1>4, <2>1, <2>3, NextInTime DEF At
    <3> QED BY <3>1, <3>2
  <2>4. ASSUME NEW m \in Retries, retry[m] = "removed"
        PROVE  Kept(m)'
    <3>1. ~KeptBy(m, p)
      BY <1>1 DEF KeptBy, At
    <3> QED BY <1>0, <1>1, <2>2, <2>4, <3>1, OthersStill, OlderKept DEF MoveInv
  <2>5. ASSUME NEW q \in Polls, At(q, "xadd")'
        PROVE  q # p /\ job'[q] = job[q]
    BY <2>2, <2>5 DEF At
  <2>6. \A q \in Polls : At(q, "xadd")' => retry'[Current(q)'] = "removed"
    BY <2>1, <2>5, StillAdds
  <2>7. \A q, r \in Polls : At(q, "xadd")' /\ At(r, "xadd")' /\ q # r => Current(q)' # Current(r)'
    BY <2>5, StillAdds DEF MoveInv
  <2> QED BY <1>1, <2>1, <2>3, <2>4, <2>6, <2>7 DEF MoveInv
<1> QED BY <1>3, <1>4

\* It adds the member that it alone has removed.
LEMMA MovedMoves ==
  ASSUME TimersInv, MoveInv, ProcessNext, NEW p \in Polls, Moved(p)
  PROVE  MoveInv'
<1>1. /\ At(p, "xadd") /\ Answer(p) /\ rest' = rest
      /\ lag' = [lag EXCEPT ![Current(p)] = 0] /\ retry' = [retry EXCEPT ![Current(p)] = "none"]
      /\ NextMember(p, job[p].list \ {Current(p)})
      /\ \A q \in Polls \ {p} : q \in pending => q \in pending'
  BY PollAnswered DEF Moved, Current
<1>2. /\ job[p].list \subseteq Retries /\ Current(p) \in Retries
      /\ DOMAIN retry = Retries /\ DOMAIN lag = Retries /\ retry[Current(p)] = "removed"
  BY <1>1, PollTypes DEF At, TimersInv, RetriesOK, MoveInv
<1>3. \A m \in Retries : /\ m # Current(p) => retry'[m] = retry[m] /\ lag'[m] = lag[m]
                         /\ m = Current(p) => retry'[m] = "none" /\ lag'[m] = 0
  BY <1>1, <1>2
<1>4. /\ job'[p].pc # "xadd" /\ \A q \in Polls \ {p} : job'[q] = job[q]
  BY <1>1, <1>2, NextPlace
<1>0. NothingComes
  BY <1>3 DEF NothingComes
<1>5. ASSUME NEW m \in Retries, m # Current(p), retry[m] = "due"
      PROVE  Found(m)'
  <2>1. Found(m)' \/ FoundBy(m, p)
    BY <1>0, <1>1, <1>3, <1>4, <1>5, OthersStill, OlderKept DEF MoveInv
  <2>2. retry'[Current(p)] # "due"
    BY <1>2, <1>3
  <2>3. FoundBy(m, p) => Found(m)'
    BY <1>0, <1>1, <1>3, <1>5, <2>2, NextInTime DEF At
  <2> QED BY <2>1, <2>3
<1>6. ASSUME NEW m \in Retries, m # Current(p), retry[m] = "removed"
      PROVE  Kept(m)'
  <2>1. ~KeptBy(m, p)
    BY <1>6 DEF KeptBy
  <2> QED BY <1>0, <1>1, <1>3, <1>4, <1>6, <2>1, OthersStill, OlderKept DEF MoveInv
<1>7. ASSUME NEW q \in Polls, At(q, "xadd")'
      PROVE  /\ q # p /\ At(q, "xadd") /\ Current(q)' = Current(q) /\ Current(q) \in Retries
             /\ retry[Current(q)] = "removed" /\ Current(q) # Current(p)
  <2>1. q # p /\ job'[q] = job[q]
    BY <1>4, <1>7 DEF At
  <2> QED BY <1>1, <1>7, <2>1, StillAdds DEF MoveInv
<1>8. \A q \in Polls : At(q, "xadd")' => retry'[Current(q)'] = "removed"
  BY <1>3, <1>7
<1>9. \A q, r \in Polls : At(q, "xadd")' /\ At(r, "xadd")' /\ q # r => Current(q)' # Current(r)'
  BY <1>7 DEF MoveInv
<1>10. \A m \in Retries : /\ retry'[m] = "due" => Found(m)'
                          /\ retry'[m] = "removed" => Kept(m)'
                          /\ retry'[m] \in {"none", "later"} => lag'[m] = 0
  BY <1>3, <1>5, <1>6 DEF MoveInv
<1> QED BY <1>8, <1>9, <1>10 DEF MoveInv

\* A second that a retry waits is one less of what is left.
LEMMA ElapsedMoves ==
  ASSUME TimersInv, MoveInv, Elapse
  PROVE  MoveInv'
<1>1. retry' = retry
      /\ \A m \in Retries :
           lag'[m] = IF retry[m] \in {"due", "removed"} THEN lag[m] + 1 ELSE lag[m]
  BY DEF Elapse
<1>2. \A p \in Polls : job'[p] = job[p]
  BY Named, ElapsedJobs DEF TimersInv
<1>3. \A m \in Retries : lag[m] \in Int
  BY DEF TimersInv, RetriesOK
<1>4. /\ Retries # {} => RetryLimit \in Int
      /\ RetryLimit' = RetryLimit
  BY Delays DEF RetryLimit
<1>5. ASSUME NEW m \in Retries, retry[m] = "due"
      PROVE  Found(m)'
  <2>0. Older(m)' = Older(m) /\ Older(m) \subseteq Retries
    <3>1. ASSUME NEW n \in Retries, retry[n] = "due"
          PROVE  lag'[n] >= lag'[m] <=> lag[n] >= lag[m]
      BY <1>1, <1>3, <1>5, <3>1
    <3> QED BY <1>1, <3>1 DEF Older, Due
  <2>1. ASSUME NEW p \in Polls, FoundBy(m, p)
        PROVE  FoundBy(m, p)'
    <3>1. job[p].pc \in {"range", "zrem", "xadd"} /\ lag[m] + MovedIn(m, p) <= RetryLimit
      BY <2>1 DEF FoundBy
    <3>2. PollEndsIn(p)' = PollEndsIn(p) - 1 /\ PollEndsIn(p) \in Int /\ Afterwards(m, p) \in Int
      <4>1. PollEndsIn(p)' = PollEndsIn(p) - 1
        BY <3>1, PollNearer
      <4>2. PollEndsIn(p) \in Int /\ Afterwards(m, p) \in Nat
        BY <3>1, PollTypes
      <4> QED BY <4>1, <4>2
    <3>3. Afterwards(m, p)' = Afterwards(m, p)
      BY <1>2, <2>0 DEF Afterwards, At, Delay
    <3>4. /\ MovedIn(m, p)' \in Int /\ MovedIn(m, p)' <= MovedIn(m, p) - 1
          /\ MovedIn(m, p) \in Int
      BY <3>2, <3>3 DEF MovedIn
    <3>5. lag[m] + 1 + MovedIn(m, p)' <= RetryLimit
      BY <1>3, <1>4, <3>1, <3>4, NoLater
    <3>6. (lag[m] + MovedIn(m, p) <= RetryLimit)'
      BY <1>1, <1>4, <1>5, <3>5
    <3> QED BY <1>2, <2>1, <3>6 DEF FoundBy, At
  <2>2. ASSUME lag[m] + NextMovesIn(m) <= RetryLimit
        PROVE  (lag[m] + NextMovesIn(m) <= RetryLimit)'
    <3>1. rest' = rest - 1 /\ rest \in Int
      <4>1. process = "worker"
        BY <1>5 DEF TimersInv, RetriesOK
      <4>2. rest \in Int
        BY Numbers DEF TimersInv, ClocksOK
      <4> QED BY <4>1, <4>2 DEF Elapse, Resting
    <3>2. Delay(Cardinality(Older(m))) \in Int /\ PollLength \in Int
      BY <2>0, FewerAreFaster, Delays
    <3>3. NextMovesIn(m)' = rest' + PollLength + Delay(Cardinality(Older(m)))
      BY <2>0 DEF NextMovesIn, Delay
    <3>4. /\ NextMovesIn(m)' \in Int /\ NextMovesIn(m)' <= NextMovesIn(m) - 1
          /\ NextMovesIn(m) \in Int
      BY <3>1, <3>2, <3>3 DEF NextMovesIn
    <3>5. lag[m] + 1 + NextMovesIn(m)' <= RetryLimit
      BY <1>3, <1>4, <2>2, <3>4, NoLater
    <3> QED BY <1>1, <1>4, <1>5, <3>5
  <2> QED BY <1>5, <2>1, <2>2 DEF MoveInv, Found
<1>6. ASSUME NEW m \in Retries, retry[m] = "removed"
      PROVE  Kept(m)'
  <2>1. PICK p \in Polls : KeptBy(m, p)
    BY <1>6 DEF MoveInv, Kept
  <2>2. job[p].pc \in {"range", "zrem", "xadd"} /\ lag[m] + AnswerIn(p) <= RetryLimit
    BY <2>1 DEF KeptBy, At
  <2>3. AnswerIn(p)' = AnswerIn(p) - 1 /\ AnswerIn(p) \in Int
    BY <2>2, PollNearer, PollTypes
  <2>4. AnswerIn(p)' \in Int /\ AnswerIn(p)' <= AnswerIn(p) - 1
    BY <2>3
  <2>5. lag[m] + 1 + AnswerIn(p)' <= RetryLimit
    BY <1>3, <1>4, <2>2, <2>3, <2>4, NoLater
  <2>6. (lag[m] + AnswerIn(p) <= RetryLimit)'
    BY <1>1, <1>4, <1>6, <2>5
  <2>7. KeptBy(m, p)'
    BY <1>2, <2>1, <2>6 DEF KeptBy, At, Current
  <2> QED BY <2>7 DEF Kept
<1>7. \A p \in Polls : At(p, "xadd")' => retry'[Current(p)'] = "removed"
  BY <1>1, <1>2, StillAdds
<1>8. \A p, q \in Polls : At(p, "xadd")' /\ At(q, "xadd")' /\ p # q => Current(p)' # Current(q)'
  BY <1>2, StillAdds DEF MoveInv
<1>9. \A m \in Retries : retry'[m] \in {"none", "later"} => lag'[m] = 0
  BY <1>1 DEF MoveInv
<1> QED BY <1>1, <1>5, <1>6, <1>7, <1>8, <1>9 DEF MoveInv

\* A retry that becomes due has all the time there is.
LEMMA DueMoves ==
  ASSUME TimersInv, MoveInv, ProcessNext, NEW m \in Retries, BecomeDue(m)
  PROVE  MoveInv'
<1>1. /\ retry' = [retry EXCEPT ![m] = "due"] /\ lag' = [lag EXCEPT ![m] = 0]
      /\ job' = job /\ rest' = rest /\ pending' = pending /\ retry[m] = "later"
  BY DEF BecomeDue, connection
<1>2. \A k \in Retries : /\ k # m => retry'[k] = retry[k] /\ lag'[k] = lag[k]
                         /\ k = m => retry'[k] = "due" /\ lag'[k] = 0
  BY <1>1 DEF TimersInv, RetriesOK
<1>3. ASSUME NEW k \in Retries, lag'[k] = 0
      PROVE  Found(k)'
  <2>1. rest \in Nat /\ rest <= PollInterval
    BY <1>1, Numbers DEF TimersInv, ClocksOK, RetriesOK
  <2>2. Older(k)' \in SUBSET Retries /\ k \in Retries \ Older(k)'
    BY DEF Older, Due
  <2>3. /\ Delay(Cardinality(Older(k)')) \in Nat
        /\ Delay(Cardinality(Older(k)')) <= Delay(Cardinality(Retries) - 1)
    BY <2>2, FewerAreFaster
  <2>4. NextMovesIn(k)' = rest + PollLength + Delay(Cardinality(Older(k)'))
    BY <1>1 DEF NextMovesIn, Delay
  <2>5. /\ RetryLimit = PollInterval + PollLength + Delay(Cardinality(Retries) - 1)
        /\ RetryLimit \in Nat /\ PollLength \in Nat /\ PollInterval \in Nat
        /\ Delay(Cardinality(Retries) - 1) \in Nat
    BY Delays, Numbers
  <2>6. 0 + NextMovesIn(k)' <= RetryLimit
    BY <2>1, <2>3, <2>4, <2>5
  <2>7. (lag[k] + NextMovesIn(k) <= RetryLimit)'
    BY <1>3, <2>6 DEF RetryLimit
  <2> QED BY <2>7 DEF Found
<1>4. ASSUME NEW k \in Retries, k # m
      PROVE  (Found(k) => Found(k)') /\ (Kept(k) => Kept(k)')
  <2>0. \A q \in Polls : job'[q] = job[q] /\ (q \in pending => q \in pending')
    BY <1>1
  <2>1. lag'[k] = lag[k] /\ NoOne \notin Polls
    BY <1>2, <1>4, Named, ConnectionAssumption
  <2>2. Kept(k) => Kept(k)'
    BY <2>0, <2>1, OthersStill
  <2>3. CASE lag[k] = 0
    BY <1>3, <2>1, <2>2, <2>3
  <2>4. CASE lag[k] # 0
    <3>1. Older(k)' \subseteq Older(k)
      <4>1. lag'[m] < lag'[k]
        BY <1>2, <2>1, <2>4 DEF TimersInv, RetriesOK
      <4> QED BY <1>2, <2>1, <4>1 DEF Older, Due, TimersInv, RetriesOK
    <3> QED BY <1>1, <2>0, <2>1, <2>2, <3>1, OthersStill
  <2> QED BY <2>3, <2>4
<1>5. \A k \in Retries : /\ retry'[k] = "due" => Found(k)'
                         /\ retry'[k] = "removed" => Kept(k)'
                         /\ retry'[k] \in {"none", "later"} => lag'[k] = 0
  BY <1>2, <1>3, <1>4 DEF MoveInv
<1>6. \A p \in Polls : At(p, "xadd")' => retry'[Current(p)'] = "removed"
  BY <1>1, <1>2, StillAdds
<1>7. \A p, q \in Polls : At(p, "xadd")' /\ At(q, "xadd")' /\ p # q => Current(p)' # Current(q)'
  BY <1>1, StillAdds DEF MoveInv
<1> QED BY <1>5, <1>6, <1>7 DEF MoveInv

\* So every retry is always near enough to its stream.
LEMMA MoveStep ==
  ASSUME TimersInv, MoveInv, ProcessNext
  PROVE  MoveInv'
<1>0. /\ \A p \in Polls : p \in Callers /\ p \notin {"runs", "events", "scanner", "steps", "watch"}
      /\ DOMAIN job = Callers
  BY Named DEF TimersInv, JobsOK
<1>1. ASSUME NEW c, c \notin Polls, lag' = lag, rest' = rest,
             retry' = retry \/ \E m \in Retries : retry[m] = "none" /\ retry' = [retry EXCEPT ![m] = "later"],
             \A p \in Polls : job'[p] = job[p],
             pending \subseteq pending' \/ Answer(c)
      PROVE  MoveInv'
  <2>1. \A p \in Polls : p \in pending => p \in pending'
    BY <1>1 DEF Answer
  <2>2. \A m \in Retries : retry'[m] = retry[m] \/ (retry[m] = "none" /\ retry'[m] = "later")
    BY <1>1 DEF TimersInv, RetriesOK
  <2> QED BY <1>1, <2>1, <2>2, MoveKept
<1>2. ASSUME NEW l \in Loops,
             Arrive(l) \/ ReadStream(l) \/ NoEntry(l) \/ TakeEntry(l) \/ Commit(l) \/ Fail(l)
      PROVE  MoveInv'
  <2>0. l \notin Polls
    BY Named
  <2>1. UNCHANGED <<retry, lag, rest>>
    BY <1>2 DEF Arrive, ReadStream, NoEntry, TakeEntry, Commit, Fail, timers, worker
  <2>2. pending \subseteq pending' \/ Answer(l)
    BY <1>2 DEF Arrive, ReadStream, NoEntry, TakeEntry, Commit, Fail, connection, Send
  <2>3. job' = job \/ \E j : job' = [job EXCEPT ![l] = j]
    BY <1>2 DEF Arrive, ReadStream, NoEntry, TakeEntry, Commit, Fail, timers, GoTo
  <2>4. \A p \in Polls : job'[p] = job[p]
    BY <1>0, <2>0, <2>3
  <2> QED BY <1>1, <2>0, <2>1, <2>2, <2>4
<1>3. ASSUME NEW c \in Callers, SendNext(c) \/ (Take(c) /\ UNCHANGED timers)
      PROVE  MoveInv'
  <2>1. UNCHANGED <<retry, lag, rest, job>> /\ pending \subseteq pending'
    BY <1>3 DEF SendNext, timers, worker, Send, Take
  <2> QED BY <1>0, <1>1, <2>1, ConnectionAssumption
<1>4. ASSUME NEW c \in Callers, Answered(c)
      PROVE  MoveInv'
  <2>1. c \notin Polls
    <3>1. job[c].pc \in PcsOf(c)
      BY JobTypes DEF TimersInv
    <3>2. job[c].pc \in {"handle", "handleOverdue", "publish", "ack"}
      BY <1>4 DEF Answered
    <3> QED BY <3>1, <3>2, Places
  <2>2. UNCHANGED <<retry, lag, rest>> /\ Answer(c) /\ \A p \in Polls : job'[p] = job[p]
    BY <1>0, <1>4, <2>1 DEF Answered, worker, GoTo
  <2> QED BY <1>1, <2>1, <2>2
<1>5. CASE Expire \/ Scan \/ Mark \/ Cancel \/ EndStep
  <2>1. UNCHANGED <<retry, lag, rest>> /\ pending' = pending
    BY <1>5 DEF Expire, Scan, Mark, Cancel, EndStep, worker, connection
  <2>2. \A p \in Polls : job'[p] = job[p]
    BY <1>0, <1>5 DEF Expire, Scan, Mark, Cancel, EndStep, GoTo
  <2> QED BY <1>0, <1>1, <2>1, <2>2
<1>6. CASE EndScan
  <2>1. /\ At("scanner", "publish") /\ lag' = lag /\ retry' = retry
        /\ \A p \in Polls : job'[p] = job[p]
    BY <1>0, <1>6 DEF EndScan, GoTo, worker
  <2>2. process = "orchestrator" /\ \A p \in Polls : ~Active(p)
    BY <2>1, Named DEF TimersInv, IdleOK, Active, At
  <2>3. \A m \in Retries : retry'[m] = "none"
    BY <2>1, <2>2 DEF TimersInv, RetriesOK
  <2>4. \A p \in Polls : ~At(p, "xadd")'
    BY <1>0, <2>1, <2>2 DEF TimersInv, IdleOK, At
  <2>5. \A m \in Retries : lag'[m] = 0
    BY <2>1, <2>3 DEF MoveInv
  <2> QED BY <2>3, <2>4, <2>5 DEF MoveInv
<1>7. CASE Checked \/ Started \/ DelayChecked \/ Reported
  <2>1. lag' = lag /\ rest' = rest /\ Answer("steps") /\ "steps" \notin Polls
    BY <1>0, <1>7 DEF Checked, Started, DelayChecked, Reported, worker
  <2>2. \E j : job' = [job EXCEPT !["steps"] = j]
    BY <1>7 DEF Checked, Started, DelayChecked, Reported, GoTo
  <2>3. \A p \in Polls : job'[p] = job[p]
    BY <1>0, <2>2
  <2>4. retry' = retry
        \/ \E m \in Retries : retry[m] = "none" /\ retry' = [retry EXCEPT ![m] = "later"]
    BY <1>7 DEF Checked, Started, DelayChecked, Reported, worker
  <2> QED BY <1>1, <2>1, <2>3, <2>4
<1>8. CASE ScriptChecked
  <2>1. UNCHANGED <<retry, lag, rest>> /\ Answer("watch") /\ "watch" \notin Polls
    BY <1>0, <1>8 DEF ScriptChecked, worker
  <2>2. \A p \in Polls : job'[p] = job[p]
    BY <1>0, <1>8 DEF ScriptChecked
  <2> QED BY <1>1, <2>1, <2>2
<1> QED BY <1>2, <1>3, <1>4, <1>5, <1>6, <1>7, <1>8, DueMoves, StartPollMoves, RangedMoves,
           RemovedMoves, MovedMoves, ElapsedMoves DEF ProcessNext

-------------------------------------------------------------------------------

ProcessInv == TimersInv /\ StopInv /\ MarkInv /\ MoveInv

\* At the start nothing is sent, overdue, due or executed.
LEMMA ProcessInitially ==
  ASSUME ProcessInit
  PROVE  ProcessInv
<1>1. Inv
  BY Initially DEF ProcessInit
<1>2. /\ pending = {} /\ reading = {} /\ DOMAIN job = Callers
      /\ \A c \in Callers : job[c] = [pc |-> IF c \in Loops THEN "read" ELSE "rest", todo |-> 0,
                                      list |-> {}]
  BY DEF ProcessInit, Init
<1>3. JobsOK
  <2>1. \A c \in Callers : IF c \in Loops THEN "read" \in PcsOf(c) ELSE "rest" \in PcsOf(c)
    BY Named, Places
  <2>2. ASSUME NEW c \in Callers
        PROVE  Fits(c, job[c])
    BY <1>2, <2>1 DEF Fits, Job
  <2> QED BY <1>2, <2>2 DEF JobsOK
<1>4. CommandsOK
  BY <1>2 DEF CommandsOK
<1>5. IdleOK
  BY <1>2 DEF IdleOK
<1>6. ClocksOK
  <2>1. rest \in 0..(IF process = "worker" THEN PollInterval ELSE ScanInterval)
    BY Numbers DEF ProcessInit
  <2> QED BY <2>1 DEF ProcessInit, ClocksOK
<1>7. ~At("steps", "execute") /\ job["steps"].pc = "read"
  BY <1>2, Named DEF At
<1>8. StepOK
  BY <1>7 DEF ProcessInit, StepOK, NoStep
<1>9. RetriesOK
  BY DEF ProcessInit, RetriesOK
<1>10. StopInv
  BY <1>7 DEF StopInv
<1>11. MarkInv
  BY DEF ProcessInit, MarkInv
<1>12. MoveInv
  BY <1>2, Named DEF ProcessInit, MoveInv, At
<1> QED BY <1>1, <1>3, <1>4, <1>5, <1>6, <1>8, <1>9, <1>10, <1>11, <1>12 DEF ProcessInv, TimersInv

LEMMA ProcessUnchanged ==
  ASSUME ProcessInv, UNCHANGED vars
  PROVE  ProcessInv'
<1>1. /\ UNCHANGED connection
      /\ UNCHANGED <<process, job, stock, overdue, late, rest, step, retry, lag>>
  BY DEF vars, timers, worker
<1>2. Inv'
  BY <1>1, Preserved DEF ProcessInv, TimersInv
<1>3. JobsOK' /\ CommandsOK' /\ IdleOK' /\ ClocksOK' /\ StepOK' /\ RetriesOK'
  BY <1>1 DEF ProcessInv, TimersInv, JobsOK, Fits, Job, CommandsOK, Active, At, IdleOK, ClocksOK,
              StepOK, RetriesOK, connection
<1>4. StopInv'
  BY <1>1 DEF ProcessInv, StopInv, At
<1>5. \A c \in Callers : AnswerIn(c)' = AnswerIn(c)
  BY <1>1 DEF AnswerIn, Wait, Reads, Spent, Longest, Rivals, Together, connection
<1>6. MarkInv'
  BY <1>1, <1>5, Named DEF ProcessInv, MarkInv, MarkedIn, RowHeldFor, AfterScan, AllAnsweredIn,
              LongestHold, MarkLimit, At, Longest, Rivals, Together
<1>7. \A m \in Retries, p \in Polls : MovedIn(m, p)' = MovedIn(m, p)
  <2>1. \A m \in Retries : Older(m)' = Older(m)
    BY <1>1 DEF Older, Due
  <2>2. \A m \in Retries, p \in Polls : Afterwards(m, p)' = Afterwards(m, p)
    BY <1>1, <2>1 DEF Afterwards, At, Delay
  <2>3. \A p \in Polls : PollEndsIn(p)' = PollEndsIn(p)
    BY <1>1, <1>5, Named DEF PollEndsIn, AfterAnswer, At
  <2> QED BY <2>2, <2>3 DEF MovedIn
<1>8. \A m \in Retries : NextMovesIn(m)' = NextMovesIn(m)
  BY <1>1 DEF NextMovesIn, Older, Due, Delay
<1>9. \A m \in Retries : (Found(m) => Found(m)') /\ (Kept(m) => Kept(m)')
  BY <1>1, <1>5, <1>7, <1>8, Named DEF Found, FoundBy, Kept, KeptBy, Current, RetryLimit, At
<1>10. MoveInv'
  BY <1>1, <1>9 DEF ProcessInv, MoveInv, Current, At
<1> QED BY <1>2, <1>3, <1>4, <1>6, <1>10 DEF ProcessInv, TimersInv

LEMMA ProcessInvariance == ProcessSpec => []ProcessInv
<1>1. ProcessInit => ProcessInv
  BY ProcessInitially
<1>2. ProcessInv /\ [ProcessNext]_vars => ProcessInv'
  BY ProcessUnchanged, TimersStep, MarkStep, MoveStep DEF ProcessInv
<1> QED BY <1>1, <1>2, PTL DEF ProcessSpec

\* scanTimeouts marks a run within the interval, the publications of one scan and
\* two transactions, whatever else the orchestrator's connection has to do.
THEOREM RunsAreMarkedInTime == ProcessSpec => []OverdueIsMarked
<1>1. ProcessInv => OverdueIsMarked
  <2> SUFFICES ASSUME ProcessInv
               PROVE  late <= MarkLimit
    BY DEF OverdueIsMarked, MarkLimit
  <2>1. late \in Nat /\ MarkLimit \in Nat
    BY MarkedParts, Numbers DEF ProcessInv, TimersInv, ClocksOK
  <2>2. CASE overdue
    <3>1. process = "orchestrator" /\ late + MarkedIn <= MarkLimit
      BY <2>2 DEF ProcessInv, TimersInv, ClocksOK, MarkInv
    <3>2. MarkedIn \in Nat
      BY <3>1, MarkedBounded DEF ProcessInv
    <3> QED BY <2>1, <3>1, <3>2
  <2>3. CASE ~overdue
    BY <2>1, <2>3 DEF ProcessInv, TimersInv, ClocksOK
  <2> QED BY <2>2, <2>3
<1> QED BY <1>1, ProcessInvariance, PTL

\* pollDelayed brings a due retry to its stream although each poll reads the clock
\* before its command has its turn and finds no more than PollLimit retries, and
\* however many polls overlap: within an interval and a longest poll for each
\* PollLimit of all the retries there are.
THEOREM RetriesAreMovedInTime == ProcessSpec => []RetriesAreMoved
<1>1. ProcessInv => RetriesAreMoved
  <2> SUFFICES ASSUME ProcessInv, NEW m \in Retries
               PROVE  lag[m] <= RetryLimit
    BY DEF RetriesAreMoved, RetryLimit
  <2>1. lag[m] \in Nat /\ RetryLimit \in Nat /\ Block \in Nat
    BY Numbers, Delays DEF ProcessInv, TimersInv, RetriesOK
  <2>2. CASE retry[m] = "due"
    BY <2>1, <2>2, TimeForOneMore DEF ProcessInv
  <2>3. CASE retry[m] = "removed"
    <3>1. PICK p \in Polls : At(p, "xadd") /\ lag[m] + AnswerIn(p) <= RetryLimit
      BY <2>3 DEF ProcessInv, MoveInv, Kept, KeptBy
    <3>2. AnswerIn(p) \in Nat
      BY <3>1, PollTypes DEF ProcessInv, At
    <3> QED BY <2>1, <3>1, <3>2
  <2>4. CASE retry[m] \in {"none", "later"}
    BY <2>1, <2>4 DEF ProcessInv, MoveInv
  <2> QED BY <2>2, <2>3, <2>4 DEF ProcessInv, TimersInv, RetriesOK
<1> QED BY <1>1, ProcessInvariance, PTL

\* A worker stops a cancelled delay or script within a second, whatever the script
\* does with its signals; without a cancel it stops a delay, an HTTP request and a
\* script that SIGTERM ends at their limit.  It promises nothing of a script that
\* ignores SIGTERM and is not cancelled: there is no SIGKILL after the timeout.
THEOREM StepsStop == ProcessSpec => []StepsStopInTime
<1>1. ProcessInv => StepsStopInTime
  BY DEF ProcessInv, StopInv, StepsStopInTime
<1> QED BY <1>1, ProcessInvariance, PTL

===============================================================================
