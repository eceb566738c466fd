---------------------------- MODULE RedisConnection ----------------------------
(***************************************************************************)
(* The Redis connections of the processes.  Each process has one: whatever *)
(* its loops and timers send is executed in the order it was sent, and an  *)
(* XREADGROUP with BLOCK holds up everything behind it until an entry      *)
(* arrives or its time is over.  Only blocking reads take time; the time   *)
(* spent in the database and in the process is not the connection's.       *)
(***************************************************************************)
EXTENDS Integers, FiniteSets

CONSTANTS
  Callers,        \* the loops and timers of all processes
  Loops,          \* those that read a stream
  ConnectionOf,   \* the connection of each caller
  Block,          \* the seconds a read blocks
  NoOne

ASSUME ConnectionAssumption ==
  /\ IsFiniteSet(Callers) /\ Loops \subseteq Callers /\ NoOne \notin Callers
  /\ DOMAIN ConnectionOf = Callers /\ Block \in Nat

VARIABLES
  pending,   \* callers whose command is not answered; each awaits it
  reading,   \* those whose command is a blocking read
  ahead,     \* whose commands were sent before, on the same connection
  turn,      \* the caller whose command a connection is executing
  left,      \* the seconds a read may still block
  waited     \* the seconds since the command was sent

connection == <<pending, reading, ahead, turn, left, waited>>

Connections == {ConnectionOf[c] : c \in Callers}
Together(c) == {d \in Callers : ConnectionOf[d] = ConnectionOf[c]}

Init ==
  /\ pending = {} /\ reading = {}
  /\ ahead = [c \in Callers |-> {}]
  /\ turn = [k \in Connections |-> NoOne]
  /\ left = [c \in Callers |-> Block] /\ waited = [c \in Callers |-> 0]

\* A caller sends a command, or a loop its XREADGROUP.
Send(c, isRead) ==
  /\ c \notin pending
  /\ isRead => c \in Loops
  /\ pending' = pending \cup {c}
  /\ reading' = IF isRead THEN reading \cup {c} ELSE reading
  /\ ahead' = [ahead EXCEPT ![c] = pending \cap Together(c)]
  /\ left' = [left EXCEPT ![c] = Block] /\ waited' = [waited EXCEPT ![c] = 0]
  /\ UNCHANGED turn

\* Mutant: any command of a connection may be next.
TakeAny(c) ==
  /\ c \in pending /\ turn[ConnectionOf[c]] = NoOne
  /\ turn' = [turn EXCEPT ![ConnectionOf[c]] = c]
  /\ UNCHANGED <<pending, reading, ahead, left, waited>>

\* Redis takes the oldest command of a connection.
Take(c) ==
  /\ c \in pending /\ ahead[c] = {} /\ turn[ConnectionOf[c]] = NoOne
  /\ turn' = [turn EXCEPT ![ConnectionOf[c]] = c]
  /\ UNCHANGED <<pending, reading, ahead, left, waited>>

\* It answers: a command at once, a read when an entry arrives or no time is left.
Answer(c) ==
  /\ c \in pending /\ turn[ConnectionOf[c]] = c
  /\ pending' = pending \ {c} /\ reading' = reading \ {c}
  /\ ahead' = [d \in Callers |-> ahead[d] \ {c}]
  /\ turn' = [turn EXCEPT ![ConnectionOf[c]] = NoOne]
  /\ left' = [left EXCEPT ![c] = Block] /\ waited' = [waited EXCEPT ![c] = 0]

\* A second passes when every connection rests or blocks.
Blocked(k) == turn[k] \in reading /\ left[turn[k]] > 0
Rests(k) == \A c \in pending : ConnectionOf[c] # k

Second ==
  /\ \A k \in Connections : Rests(k) \/ Blocked(k)
  /\ left' = [c \in Callers |-> IF turn[ConnectionOf[c]] = c THEN left[c] - 1 ELSE left[c]]
  /\ waited' = [c \in Callers |-> IF c \in pending THEN waited[c] + 1 ELSE waited[c]]
  /\ UNCHANGED <<pending, reading, ahead, turn>>

Next ==
  \/ \E c \in Callers : (\E isRead \in BOOLEAN : Send(c, isRead)) \/ Take(c) \/ Answer(c)
  \/ Second

Spec == Init /\ [][Next]_connection

-------------------------------------------------------------------------------

\* Every variable keeps its type.
TypeOK ==
  /\ pending \subseteq Callers /\ reading \subseteq pending \cap Loops
  /\ ahead \in [Callers -> SUBSET Callers]
  /\ turn \in [Connections -> Callers \cup {NoOne}]
  /\ left \in [Callers -> 0..Block] /\ waited \in [Callers -> Nat]

\* The other loops of a caller's process.
Rivals(c) == (Loops \cap Together(c)) \ {c}

\* However many callers share a connection, a command waits for no more than
\* one blocking read of each other loop of its process: one that comes back
\* and reads again queues up behind it.
WaitIsBounded ==
  \A c \in pending \ reading : waited[c] <= Block * Cardinality(Rivals(c))

=============================================================================
