------------------------------- MODULE Scheduler -------------------------------
(***************************************************************************)
(* Cron schedules: users create, change and delete them through the API,   *)
(* and each scheduler replica runs ticks, transactions that lock the due   *)
(* schedules (FOR UPDATE SKIP LOCKED), insert and queue a run for each and *)
(* advance next_run_at.                                                    *)
(*                                                                         *)
(* clock is the clock of PostgreSQL.  A replica and the API read a clock   *)
(* of their own, up to Behind behind it and up to Ahead ahead of it.       *)
(***************************************************************************)
EXTENDS Naturals, FiniteSets

CONSTANTS
  Schedules, Replicas,
  Exprs,        \* the cron expressions in use
  NextOf,       \* NextOf[e][t]: the first instant of expression e after t
  Horizon,      \* the last instant of the clock
  Behind, Ahead,
  BatchLimit,   \* LIMIT of the query, 100 in the code
  MaxRuns,      \* runs ever inserted for a schedule
  MaxFaults     \* ticks that fail

\* What a clock may show.
Times == 0..(Horizon + Ahead)

ASSUME SchedulerConstants ==
  /\ Horizon \in Nat /\ Behind \in Nat /\ Ahead \in Nat
  /\ Exprs # {} /\ BatchLimit \in Nat \ {0} /\ MaxRuns \in Nat /\ MaxFaults \in Nat

\* cron-parser returns an instant after the given one, and skips none.
ASSUME CronAssumption ==
  /\ NextOf \in [Exprs -> [Times -> Nat]]
  /\ \A e \in Exprs, t \in Times :
       /\ t < NextOf[e][t]
       /\ \A u \in Times : t <= u /\ u < NextOf[e][t] => NextOf[e][u] = NextOf[e][t]

VARIABLES
  clock,
  sched,    \* the rows of schedules
  tick,     \* the open transaction of each replica
  serial,   \* ids given to runs of a schedule, rolled back or not
  runs,     \* committed scheduled runs
  queue,    \* entries ever added to flowforge:runs
  faults

vars == <<clock, sched, tick, serial, runs, queue, faults>>

\* next is next_run_at.
Row == [phase: {"NONE", "LIVE", "DELETED"}, enabled: BOOLEAN, expr: Exprs, next: Nat]

NoRow == [phase |-> "NONE", enabled |-> FALSE, expr |-> CHOOSE e \in Exprs : TRUE, next |-> 0]

Run == [sched: Schedules, id: 1..MaxRuns, expr: Exprs, at: 0..Horizon]

\* locked: the schedules selected FOR UPDATE; todo: those not handled yet;
\* made: the runs inserted and not yet committed; next: the new next_run_at.
Tick == [locked: SUBSET Schedules, todo: SUBSET Schedules, now: 0..Horizon,
         made: SUBSET Run, next: [Schedules -> Nat]]

NoTick == [locked |-> {}, todo |-> {}, now |-> 0, made |-> {},
           next |-> [s \in Schedules |-> 0]]

RunKey(r) == <<r.sched, r.id>>

Init ==
  /\ clock = 0
  /\ sched = [s \in Schedules |-> NoRow]
  /\ tick = [o \in Replicas |-> NoTick]
  /\ serial = [s \in Schedules |-> 0]
  /\ runs = {} /\ queue = {}
  /\ faults = 0

Advance ==
  /\ clock < Horizon
  /\ clock' = clock + 1
  /\ UNCHANGED <<sched, tick, serial, runs, queue, faults>>

\* new Date() of an application process.
AppClocks == {t \in Times : clock <= t + Behind /\ t <= clock + Ahead}

Locked(s) == \E o \in Replicas : s \in tick[o].locked

-------------------------------------------------------------------------------
(* The API.                                                                 *)

CreateSchedule(s, e, on) ==
  /\ sched[s].phase = "NONE"
  /\ \E t \in AppClocks :
       sched' = [sched EXCEPT ![s] =
                   [phase |-> "LIVE", enabled |-> on, expr |-> e, next |-> NextOf[e][t]]]
  /\ UNCHANGED <<clock, tick, serial, runs, queue, faults>>

\* Mutant: a change takes effect at once.
PatchScheduleAtOnce(s, e, on) ==
  /\ sched[s].phase = "LIVE" /\ ~Locked(s)
  /\ <<sched[s].expr, sched[s].enabled>> # <<e, on>>
  /\ sched' = [sched EXCEPT ![s].expr = e, ![s].enabled = on, ![s].next = clock]
  /\ UNCHANGED <<clock, tick, serial, runs, queue, faults>>

\* The UPDATE writes the given fields, waits for the lock of the row and
\* leaves next_run_at as it is.
PatchSchedule(s, e, on) ==
  /\ sched[s].phase = "LIVE" /\ ~Locked(s)
  /\ <<sched[s].expr, sched[s].enabled>> # <<e, on>>
  /\ sched' = [sched EXCEPT ![s].expr = e, ![s].enabled = on]
  /\ UNCHANGED <<clock, tick, serial, runs, queue, faults>>

\* DELETE /schedules/:id, or the cascade of a deleted workflow.
DeleteSchedule(s) ==
  /\ sched[s].phase = "LIVE" /\ ~Locked(s)
  /\ sched' = [sched EXCEPT ![s] = [NoRow EXCEPT !.phase = "DELETED"]]
  /\ UNCHANGED <<clock, tick, serial, runs, queue, faults>>

-------------------------------------------------------------------------------
(* schedulerTick.                                                           *)

IsDue(s) == sched[s].phase = "LIVE" /\ sched[s].enabled /\ sched[s].next <= clock

\* Mutants: no SKIP LOCKED and no FOR UPDATE; < instead of <=.
SelectionsShared == {{s} : s \in {s \in Schedules : IsDue(s)}}
SelectionsLate == {{s} : s \in {s \in Schedules : IsDue(s) /\ ~Locked(s) /\ sched[s].next < clock}}

\* The due schedules nobody has locked, the first BatchLimit by next_run_at.
Selections ==
  LET due == {s \in Schedules : IsDue(s) /\ ~Locked(s)} IN
  {S \in SUBSET due :
     /\ Cardinality(S) <= BatchLimit
     /\ S # due => Cardinality(S) = BatchLimit
     /\ \A s \in S, t \in due \ S : sched[s].next <= sched[t].next}

Select(o) ==
  /\ tick[o] = NoTick
  /\ \E S \in Selections \ {{}} :
       tick' = [tick EXCEPT ![o] = [locked |-> S, todo |-> S, now |-> clock, made |-> {},
                                    next |-> NoTick.next]]
  /\ UNCHANGED <<clock, sched, serial, runs, queue, faults>>

\* Mutants: the run is not queued; next_run_at is left as it is.
FireUnqueued(o, s) ==
  LET id == serial[s] + 1
      run == [sched |-> s, id |-> id, expr |-> sched[s].expr, at |-> tick[o].now]
  IN
  /\ s \in tick[o].todo /\ id <= MaxRuns
  /\ serial' = [serial EXCEPT ![s] = id]
  /\ tick' = [tick EXCEPT ![o] =
                [locked |-> @.locked, todo |-> @.todo \ {s}, now |-> @.now,
                 made |-> @.made \cup {run},
                 next |-> [@.next EXCEPT ![s] = NextOf[sched[s].expr][clock]]]]
  /\ UNCHANGED <<clock, sched, runs, queue, faults>>

FireAgain(o, s) ==
  LET id == serial[s] + 1
      run == [sched |-> s, id |-> id, expr |-> sched[s].expr, at |-> tick[o].now]
  IN
  /\ s \in tick[o].todo /\ id <= MaxRuns
  /\ serial' = [serial EXCEPT ![s] = id]
  /\ tick' = [tick EXCEPT ![o] =
                [locked |-> @.locked, todo |-> @.todo \ {s}, now |-> @.now,
                 made |-> @.made \cup {run},
                 next |-> [@.next EXCEPT ![s] = sched[s].next]]]
  /\ queue' = queue \cup {RunKey(run)}
  /\ UNCHANGED <<clock, sched, runs, faults>>

\* One turn of the loop: INSERT INTO runs, UPDATE schedules, XADD.
Fire(o, s) ==
  LET id == serial[s] + 1
      run == [sched |-> s, id |-> id, expr |-> sched[s].expr, at |-> tick[o].now]
  IN
  /\ s \in tick[o].todo /\ id <= MaxRuns
  /\ \A t \in tick[o].todo : sched[s].next <= sched[t].next
  /\ serial' = [serial EXCEPT ![s] = id]
  /\ \E t \in AppClocks :
       tick' = [tick EXCEPT ![o] =
                  [locked |-> @.locked, todo |-> @.todo \ {s}, now |-> @.now,
                   made |-> @.made \cup {run},
                   next |-> [@.next EXCEPT ![s] = NextOf[sched[s].expr][t]]]]
  /\ queue' = queue \cup {RunKey(run)}
  /\ UNCHANGED <<clock, sched, runs, faults>>

Commit(o) ==
  /\ tick[o].locked # {} /\ tick[o].todo = {}
  /\ sched' = [s \in Schedules |->
                 IF s \in tick[o].locked THEN [sched[s] EXCEPT !.next = tick[o].next[s]]
                 ELSE sched[s]]
  /\ runs' = runs \cup tick[o].made
  /\ tick' = [tick EXCEPT ![o] = NoTick]
  /\ UNCHANGED <<clock, serial, queue, faults>>

\* Anything in the transaction throws or the replica dies: ROLLBACK.  The
\* entries already queued stay.
Rollback(o) ==
  /\ tick[o].locked # {} /\ faults < MaxFaults
  /\ faults' = faults + 1
  /\ tick' = [tick EXCEPT ![o] = NoTick]
  /\ UNCHANGED <<clock, sched, serial, runs, queue>>

TickNext(o) == Select(o) \/ (\E s \in Schedules : Fire(o, s)) \/ Commit(o)

UserNext ==
  \E s \in Schedules :
    \/ \E e \in Exprs, on \in BOOLEAN : CreateSchedule(s, e, on) \/ PatchSchedule(s, e, on)
    \/ DeleteSchedule(s)

Next == Advance \/ UserNext \/ (\E o \in Replicas : TickNext(o) \/ Rollback(o))

Spec == Init /\ [][Next]_vars

\* The loop of startSchedulerService ticks again and again.
FairSpec == Spec /\ \A o \in Replicas : WF_vars(TickNext(o))

-------------------------------------------------------------------------------
(* Properties.                                                              *)

\* Every variable keeps its type, and a transaction holds the locks of the
\* schedules it still has to handle.
TypeOK ==
  /\ clock \in 0..Horizon
  /\ sched \in [Schedules -> Row]
  /\ tick \in [Replicas -> Tick]
  /\ \A o \in Replicas : tick[o].todo \subseteq tick[o].locked
  /\ serial \in [Schedules -> 0..MaxRuns]
  /\ runs \subseteq Run
  /\ queue \subseteq Schedules \X (1..MaxRuns)
  /\ faults \in 0..MaxFaults

\* Run x was fired by a tick that came less than Behind after an instant of its
\* expression: a clock that is behind takes that instant to be yet to come.
Past(t) == IF Behind <= t THEN t - Behind ELSE 0

AtInstant(x) == NextOf[x.expr][Past(x.at)] <= x.at

\* requirements.md 2.2, as far as two clocks let it hold: however many replicas tick,
\* a window of a schedule's expression sees a second run only when the run before it
\* came within the skew of the clocks from the start of the window, and with Behind = 0
\* never.  Two instants are in the same window when the same instant comes next.
AtMostOncePerWindow ==
  \A x, y \in runs :
    /\ x.sched = y.sched /\ x.expr = y.expr /\ x.id < y.id
    /\ NextOf[x.expr][x.at] = NextOf[y.expr][y.at]
    => AtInstant(x)

\* No two replicas ever hold the same schedule, and a schedule held by a tick is
\* still live, enabled and due when the tick commits: PATCH and DELETE wait.
LocksAreExclusive ==
  \A o \in Replicas : \A s \in tick[o].locked :
    /\ IsDue(s)
    /\ \A p \in Replicas \ {o} : s \notin tick[p].locked

\* A run that commits is in the stream by then: the run is queued before the
\* commit, never after it.
RunsAreQueued == \A r \in runs : RunKey(r) \in queue

\* PATCH leaves next_run_at as it is, so the first run after a change of the
\* expression comes at an instant of the old one.  Only that: a run of a schedule
\* comes after the window of every run before it is over, whichever expressions they
\* ran under, unless that run came within the skew of the clocks from an instant of
\* its own expression.
ChangedSchedulesWait ==
  \A x, y \in runs :
    x.sched = y.sched /\ x.id < y.id =>
      AtInstant(x) \/ NextOf[x.expr][x.at] <= y.at

\* A schedule that is due is fired until it is due no longer, or is disabled or
\* deleted: a batch that is full, a failed tick or another schedule that a lagging
\* clock keeps due does not hold it up.  MaxRuns is the bound of the model.
DueScheduleFires ==
  \A s \in Schedules : IsDue(s) ~> ~IsDue(s) \/ serial[s] = MaxRuns

=============================================================================
