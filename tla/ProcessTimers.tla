----------------------------- MODULE ProcessTimers -----------------------------
(***************************************************************************)
(* What the loops and timers of an orchestrator or a worker do with their  *)
(* one Redis connection, second by second.                                 *)
(*                                                                         *)
(* Orchestrator: two loops read a stream each, queue and publish inside a  *)
(* transaction and acknowledge; the timeout scanner updates overdue runs,  *)
(* publishes an event for each and rests.                                  *)
(* Worker: a loop reads a stream and executes a step, which looks for the  *)
(* cancel key each second; every PollInterval another poll of the delayed  *)
(* messages starts, whether or not the last one has ended.                 *)
(*                                                                         *)
(* Statements and everything else inside a process take no time: what is   *)
(* left is the delay the code itself causes.                               *)
(***************************************************************************)
EXTENDS RedisConnection

CONSTANTS
  Polls,          \* polls that may be under way at once; one must be left to start
  Retries,        \* delayed messages
  ScanInterval,   \* intervalMs of the scanner, in seconds
  PollInterval,   \* of pollDelayed
  PollLimit,      \* LIMIT 0, 100 of its ZRANGEBYSCORE
  MaxCommands,    \* commands in a transaction of handleStepEvent or startRun
  Batch,          \* runs a scan finds overdue
  Limit,          \* duration_ms of a DELAY, timeout_sec of the other steps
  Grace,          \* seconds a step may go on after its limit: requirements.md 7.4
  MaxEntries      \* bound on the entries that wait in a stream

ASSUME TimersAssumption ==
  /\ Callers = {"runs", "events", "scanner", "steps", "watch"} \cup Polls
  /\ Polls \cap {"runs", "events", "scanner", "steps", "watch"} = {} /\ IsFiniteSet(Retries)
  /\ Loops = {"runs", "events", "steps"}
  /\ \A c \in Callers : ConnectionOf[c] =
       IF c \in {"runs", "events", "scanner"} THEN "orchestrator" ELSE "worker"
  /\ {ScanInterval, PollInterval, PollLimit, MaxCommands, Batch, Limit, MaxEntries}
       \subseteq Nat \ {0}
  /\ Grace \in Nat

VARIABLES
  process,   \* the process that is followed, never changed
  job,       \* of each caller: where it is and the commands it has still to send
  stock,     \* entries not delivered, by the loop that reads the stream
  overdue,   \* a run has passed its timeout and is not marked; late: for how long
  late,
  rest,      \* until the next scan, or the next poll
  step,      \* the step a worker executes
  retry,     \* each delayed message, and the seconds since it became due
  lag

worker == <<step, retry, lag>>
timers == <<process, job, stock, overdue, late, rest, worker>>
vars == <<connection, timers>>

Active(c) == ConnectionOf[c] = process
At(c, pc) == job[c].pc = pc
GoTo(c, pc, todo) == job' = [job EXCEPT ![c] = [pc |-> pc, todo |-> todo, list |-> {}]]

\* cancelled: the cancel key of its run is set; since: for how many seconds.
NoStep == [kind |-> "none", age |-> 0, cancelled |-> FALSE, since |-> 0]

ProcessInit ==
  /\ Init
  /\ process \in {"orchestrator", "worker"}
  /\ job = [c \in Callers |-> [pc |-> IF c \in Loops THEN "read" ELSE "rest", todo |-> 0,
                               list |-> {}]]
  /\ stock = [l \in Loops |-> 0]
  /\ overdue = FALSE /\ late = 0
  /\ rest = IF process = "worker" THEN PollInterval ELSE ScanInterval
  /\ step = NoStep
  /\ retry = [m \in Retries |-> "none"] /\ lag = [m \in Retries |-> 0]

-------------------------------------------------------------------------------
(* The loops of both processes.                                             *)

\* Another process adds an entry.
Arrive(l) ==
  /\ Active(l) /\ stock[l] < MaxEntries
  /\ stock' = [stock EXCEPT ![l] = @ + 1]
  /\ UNCHANGED <<connection, process, job, overdue, late, rest, worker>>

\* dequeue: XREADGROUP ... COUNT 1 BLOCK.
ReadStream(l) ==
  /\ Active(l) /\ At(l, "read")
  /\ Send(l, TRUE)
  /\ UNCHANGED timers

\* Nothing has come: the loop reads again.
NoEntry(l) ==
  /\ At(l, "read") /\ stock[l] = 0 /\ left[l] = 0
  /\ Answer(l)
  /\ UNCHANGED timers

\* An orchestrator opens a transaction with n commands in it, of an overdue run
\* (unless the scanner is the first to wait for its row) or another; a worker
\* asks for the cancel key, which may have been set before.
TakeEntry(l) ==
  /\ At(l, "read") /\ stock[l] > 0
  /\ Answer(l)
  /\ stock' = [stock EXCEPT ![l] = @ - 1]
  /\ IF l = "steps"
     THEN /\ GoTo(l, "check", 1)
          /\ \E set \in BOOLEAN : step' = [NoStep EXCEPT !.cancelled = set]
     ELSE /\ \E n \in 0..MaxCommands, pc \in {"handle", "handleOverdue"} :
               /\ pc = "handleOverdue" => l = "events" /\ ~At("scanner", "update")
               /\ GoTo(l, pc, n)
          /\ UNCHANGED step
  /\ UNCHANGED <<process, overdue, late, rest, retry, lag>>

\* A caller sends its next command.
SendNext(c) ==
  /\ Active(c) /\ job[c].todo > 0
  /\ Send(c, FALSE)
  /\ UNCHANGED timers

\* The commands of a transaction, of a scan, and XACK.
Answered(c) ==
  /\ job[c].pc \in {"handle", "handleOverdue", "publish", "ack"} /\ job[c].todo > 0
  /\ Answer(c)
  /\ IF At(c, "ack") THEN GoTo(c, "read", 0) ELSE GoTo(c, job[c].pc, job[c].todo - 1)
  /\ UNCHANGED <<process, stock, overdue, late, rest, worker>>

InTransaction(l) == l \notin pending /\ job[l].pc \in {"handle", "handleOverdue"}

\* COMMIT, then XACK ...
Commit(l) ==
  /\ InTransaction(l) /\ job[l].todo = 0
  /\ GoTo(l, "ack", 1)
  /\ UNCHANGED <<connection, process, stock, overdue, late, rest, worker>>

\* ... or ROLLBACK, and the entry stays unacknowledged.
Fail(l) ==
  /\ InTransaction(l)
  /\ GoTo(l, "read", 0)
  /\ UNCHANGED <<connection, process, stock, overdue, late, rest, worker>>

-------------------------------------------------------------------------------
(* scanTimeouts.                                                            *)

\* A run passes its timeout.
Expire ==
  /\ process = "orchestrator" /\ ~overdue
  /\ overdue' = TRUE /\ late' = 0
  /\ UNCHANGED <<connection, process, job, stock, rest, worker>>

\* The sub-select: todo is the number of runs it finds.
Scan ==
  /\ process = "orchestrator" /\ At("scanner", "rest") /\ rest = 0
  /\ \E n \in (IF overdue THEN 1 ELSE 0)..Batch :
       job' = [job EXCEPT !["scanner"] =
                 [pc |-> "update", todo |-> 0, list |-> IF overdue THEN 1..n ELSE 2..(n + 1)]]
  /\ UNCHANGED <<connection, process, stock, overdue, late, rest, worker>>

\* Mutant: the row stays locked until XACK.
RowLockedUntilAck == job["events"].pc \in {"handleOverdue", "ack"} /\ job["scanner"].list # {}

\* handleStepEvent holds the row of a run that the scan has found.
RowLocked == job["events"].pc = "handleOverdue" /\ job["scanner"].list # {}

\* The UPDATE waits for a transaction that has locked one of them.
Mark ==
  /\ At("scanner", "update") /\ ~RowLocked
  /\ overdue' = (overdue /\ 1 \notin job["scanner"].list) /\ late' = IF overdue' THEN late ELSE 0
  /\ GoTo("scanner", "publish", Cardinality(job["scanner"].list))
  /\ UNCHANGED <<connection, process, stock, rest, worker>>

\* The next scan starts a while after this one has ended.
EndScan ==
  /\ At("scanner", "publish") /\ job["scanner"].todo = 0
  /\ GoTo("scanner", "rest", 0)
  /\ rest' = ScanInterval
  /\ UNCHANGED <<connection, process, stock, overdue, late, worker>>

-------------------------------------------------------------------------------
(* A step in a worker.                                                      *)

Kinds == {"DELAY", "HTTP", "SCRIPT", "stubborn SCRIPT"}

\* EXISTS before the step; PUBLISH of STEP_STARTED; then the step begins.
Checked ==
  /\ At("steps", "check")
  /\ Answer("steps")
  /\ IF step.cancelled THEN GoTo("steps", "ack", 1) ELSE GoTo("steps", "start", 1)
  /\ UNCHANGED <<process, stock, overdue, late, rest, worker>>

Started ==
  /\ At("steps", "start")
  /\ Answer("steps")
  /\ \E kind \in Kinds :
       /\ step' = [step EXCEPT !.kind = kind]
       /\ GoTo("steps", "execute", IF kind = "DELAY" THEN 1 ELSE 0)
  /\ UNCHANGED <<process, stock, overdue, late, rest, retry, lag>>

\* The key is set when the cancel has been committed.
Cancel ==
  /\ process = "worker" /\ job["steps"].pc \in {"check", "start", "execute"} /\ ~step.cancelled
  /\ step' = [step EXCEPT !.cancelled = TRUE]
  /\ UNCHANGED <<connection, process, job, stock, overdue, late, rest, retry, lag>>

Executing == At("steps", "execute") /\ "steps" \notin pending

\* A response arrives or is aborted, a script ends or is sent SIGTERM by the
\* timeout or for its output, a delay is over.  The interval of a script ends
\* with it; a command it has sent is still answered.
EndStep ==
  /\ Executing
  /\ step.kind # "DELAY" \/ step.age >= Limit
  /\ job' = [job EXCEPT !["steps"] = [@ EXCEPT !.pc = "report", !.todo = 1],
                        !["watch"].todo = IF "watch" \in pending THEN @ ELSE 0]
  /\ UNCHANGED <<connection, process, stock, overdue, late, rest, worker>>

\* executeDelay looks for the key before each second of sleep.
DelayChecked ==
  /\ At("steps", "execute") /\ step.kind = "DELAY"
  /\ Answer("steps")
  /\ IF step.cancelled THEN GoTo("steps", "report", 1) ELSE GoTo("steps", "execute", 0)
  /\ UNCHANGED <<process, stock, overdue, late, rest, worker>>

\* executeScript looks for it in an interval of its own, and kills the child.
ScriptChecked ==
  /\ Answer("watch")
  /\ LET killed == At("steps", "execute") /\ step.cancelled IN
     job' = [job EXCEPT !["watch"].todo = 0,
                        !["steps"] = IF killed THEN [@ EXCEPT !.pc = "report", !.todo = 1] ELSE @]
  /\ UNCHANGED <<process, stock, overdue, late, rest, worker>>

\* XADD of the outcome, or ZADD of a retry; an error there ends the handling.
\* A retry is a member of its own, with its run, step and attempt: none that a
\* poll still has in its list.
Reported ==
  /\ At("steps", "report")
  /\ Answer("steps")
  /\ \/ GoTo("steps", "ack", 1) /\ UNCHANGED retry
     \/ GoTo("steps", "read", 0) /\ UNCHANGED retry
     \/ GoTo("steps", "ack", 1)
        /\ \E m \in Retries :
             /\ retry[m] = "none" /\ \A p \in Polls : m \notin job[p].list
             /\ retry' = [retry EXCEPT ![m] = "later"]
  /\ step' = NoStep
  /\ UNCHANGED <<process, stock, overdue, late, rest, lag>>

-------------------------------------------------------------------------------
(* pollDelayed.                                                             *)

\* The backoff of a retry is over.
BecomeDue(m) ==
  /\ retry[m] = "later"
  /\ retry' = [retry EXCEPT ![m] = "due"] /\ lag' = [lag EXCEPT ![m] = 0]
  /\ UNCHANGED <<connection, process, job, stock, overdue, late, rest, step>>

Due == {m \in Retries : retry[m] = "due"}

\* setInterval starts a poll although others are under way.  What is due is
\* decided here, before the command waits for its turn on the connection.
StartPoll(p) ==
  /\ process = "worker" /\ rest = 0 /\ At(p, "rest")
  /\ job' = [job EXCEPT ![p] = [pc |-> "range", todo |-> 1, list |-> Due]]
  /\ rest' = PollInterval
  /\ UNCHANGED <<connection, process, stock, overdue, late, worker>>

\* The poll goes on with the next member of its list, if there is one.
NextMember(p, list) ==
  job' = [job EXCEPT ![p] = IF list = {} THEN [pc |-> "rest", todo |-> 0, list |-> {}]
                            ELSE [pc |-> "zrem", todo |-> 1, list |-> list]]

\* The members that ZRANGEBYSCORE may return of those that are there: the first
\* to become due, PollLimit of them or all.
FirstOf(members) ==
  {list \in SUBSET members :
     /\ Cardinality(list) <= PollLimit
     /\ list # members => Cardinality(list) = PollLimit
     /\ \A m \in list, n \in members \ list : lag[m] >= lag[n]}

\* ZRANGEBYSCORE, of what was due at the start and has not been removed since.
Ranged(p) ==
  /\ At(p, "range")
  /\ Answer(p)
  /\ \E list \in FirstOf(job[p].list \cap Due) : NextMember(p, list)
  /\ UNCHANGED <<process, stock, overdue, late, rest, worker>>

\* Mutant: the answer of ZREM is read the wrong way round.
RemovedSwapped(p) ==
  LET m == CHOOSE m \in job[p].list : TRUE IN
  /\ At(p, "zrem")
  /\ Answer(p)
  /\ IF retry[m] = "due"
     THEN NextMember(p, job[p].list \ {m}) /\ retry' = [retry EXCEPT ![m] = "removed"]
     ELSE job' = [job EXCEPT ![p].pc = "xadd"] /\ UNCHANGED retry
  /\ UNCHANGED <<process, stock, overdue, late, rest, step, lag>>

\* ZREM: another poll may have been first.
Removed(p) ==
  LET m == CHOOSE m \in job[p].list : TRUE IN
  /\ At(p, "zrem")
  /\ Answer(p)
  /\ IF retry[m] = "due"
     THEN /\ retry' = [retry EXCEPT ![m] = "removed"]
          /\ job' = [job EXCEPT ![p].pc = "xadd"]
     ELSE NextMember(p, job[p].list \ {m}) /\ UNCHANGED retry
  /\ UNCHANGED <<process, stock, overdue, late, rest, step, lag>>

\* XADD.
Moved(p) ==
  LET m == CHOOSE m \in job[p].list : TRUE IN
  /\ At(p, "xadd")
  /\ Answer(p)
  /\ retry' = [retry EXCEPT ![m] = "none"] /\ lag' = [lag EXCEPT ![m] = 0]
  /\ stock' = [stock EXCEPT !["steps"] = @ + 1]
  /\ NextMember(p, job[p].list \ {m})
  /\ UNCHANGED <<process, overdue, late, rest, step>>

-------------------------------------------------------------------------------

\* Nobody has anything to do before time passes.
Waiting(c) ==
  \/ c \in pending \/ ~Active(c)
  \/ c = "scanner" /\ (At(c, "rest") \/ (At(c, "update") /\ RowLocked))
  \/ c = "steps" /\ At(c, "execute") /\ job[c].todo = 0
       /\ (step.age < Limit \/ step.kind = "stubborn SCRIPT")
  \/ c \in Polls \cup {"watch"} /\ job[c].todo = 0

Resting == process = "worker" \/ At("scanner", "rest")

\* Mutant: a delay sleeps in one go.
LooksForCancelNever(age) == FALSE

\* A delay is awake each second and a script looked at.
LooksForCancel(age) == age < Limit

\* A second passes: for the clocks of the timers, of the step and of the
\* properties.
Elapse ==
  /\ \A c \in Callers : Waiting(c)
  /\ Resting => rest > 0
  /\ Second
  /\ rest' = IF Resting THEN rest - 1 ELSE rest
  /\ late' = IF overdue THEN late + 1 ELSE late
  /\ LET on == At("steps", "execute") IN
     /\ step' = IF ~on THEN step
                ELSE [step EXCEPT !.age = IF @ > Limit + Grace THEN @ ELSE @ + 1,
                                  !.since = IF step.cancelled THEN @ + 1 ELSE @]
     /\ job' = [job EXCEPT
          !["steps"].todo = IF on /\ step.kind = "DELAY" /\ LooksForCancel(step.age + 1)
                            THEN 1 ELSE @,
          !["watch"].todo = IF on /\ step.kind \in {"SCRIPT", "stubborn SCRIPT"} THEN 1 ELSE @]
  /\ lag' = [m \in Retries |-> IF retry[m] \in {"due", "removed"} THEN lag[m] + 1 ELSE lag[m]]
  /\ UNCHANGED <<process, stock, overdue, retry>>

ProcessNext ==
  \/ \E l \in Loops : Arrive(l) \/ ReadStream(l) \/ NoEntry(l) \/ TakeEntry(l) \/ Commit(l) \/ Fail(l)
  \/ \E c \in Callers : SendNext(c) \/ Answered(c) \/ (Take(c) /\ UNCHANGED timers)
  \/ Expire \/ Scan \/ Mark \/ EndScan
  \/ Checked \/ Started \/ Cancel \/ EndStep \/ DelayChecked \/ ScriptChecked \/ Reported
  \/ \E m \in Retries : BecomeDue(m)
  \/ \E p \in Polls : StartPoll(p) \/ Ranged(p) \/ Removed(p) \/ Moved(p)
  \/ Elapse

ProcessSpec == ProcessInit /\ [][ProcessNext]_vars

-------------------------------------------------------------------------------

\* requirements.md 1.5 asks for 5 seconds.  What the code gives: a run past its
\* timeout is marked when the scan under way has waited for a row, has published
\* its events, each behind one read of both loops, has rested, and the next one
\* has waited for the row of the run, whose transaction waits for the other loop.
OverdueIsMarked ==
  late <= ScanInterval + 2 * MaxCommands * Block + 2 * Batch * Block

\* The members that one poll finds at most, and its length: its ZRANGEBYSCORE and a
\* ZREM and an XADD for each member, each behind one read.
MostMembers == IF Cardinality(Retries) <= PollLimit THEN Cardinality(Retries) ELSE PollLimit
PollLength == Block + 2 * Block * MostMembers
PollPeriod == PollInterval + PollLength

\* A due retry reaches the stream although the commands of its poll queue up
\* behind the reads of the same worker, although it may become due just after a
\* poll has read the clock, and although each poll that starts finds no more than
\* PollLimit of those that are due: the last of them waits for a poll more for
\* each PollLimit that are before it.
RetriesAreMoved ==
  \A m \in Retries :
    lag[m] <= ((Cardinality(Retries) - 1) \div PollLimit + 1) * PollPeriod

\* A step that looks for the cancel key stops within a second of the cancel: a
\* DELAY, and a SCRIPT, which is then killed whatever it does with its signals.
\* Without a cancel, a DELAY, an HTTP request and a script that SIGTERM ends stop
\* at their own limit; nothing stops a script that ignores SIGTERM.
StepsStopInTime ==
  At("steps", "execute") =>
    /\ step.kind # "HTTP" => step.since <= 1
    /\ step.kind # "stubborn SCRIPT" => step.age <= Limit

\* requirements.md 7.4: a step that exceeds its configured timeout is stopped
\* within 5 seconds.  The timeout of a script is a SIGTERM and nothing after it,
\* so one that ignores the signal goes on.
OverlongStepsStop == At("steps", "execute") => step.age <= Limit + Grace

=============================================================================
