---------------------------- MODULE SchedulerProofs ----------------------------
(***************************************************************************)
(* Proofs about Scheduler, for any skew between the clocks: the locks of   *)
(* the ticks are exclusive, whatever commits has been queued, and a window *)
(* is fired twice only by a tick within the skew from the window's start.  *)
(***************************************************************************)
EXTENDS Scheduler, TLAPS

\* A tick handles each schedule it locked once, and stays behind the clock.
HoldsDue(o) ==
  /\ tick[o].now <= clock
  /\ \A s \in tick[o].locked : IsDue(s) /\ sched[s].next <= tick[o].now

\* The runs a tick has inserted: one for each schedule it has handled.
MakesOne(o) ==
  /\ \A r \in tick[o].made :
       /\ r.sched \in tick[o].locked \ tick[o].todo
       /\ r.at = tick[o].now /\ r.expr = sched[r.sched].expr
       /\ RunKey(r) \in queue
  /\ \A x, y \in tick[o].made : x.sched = y.sched => x = y

TickInv == \A o \in Replicas : HoldsDue(o) /\ MakesOne(o)

Exclusive == \A o, p \in Replicas : tick[o].locked \cap tick[p].locked # {} => o = p

\* The inductive invariant of the locks.
LockInv == TypeOK /\ TickInv /\ Exclusive /\ RunsAreQueued

\* At instant t the window of run r is over, but for the skew.
Over(r, t) == AtInstant(r) \/ NextOf[r.expr][r.at] <= t

\* What next_run_at says of the past: when a schedule is due again the windows of its
\* runs are over; so they are when a tick has locked it; and a tick moves it past the
\* window of the tick.  The later run has the larger id.
WindowInv ==
  /\ \A r \in runs :
       /\ sched[r.sched].phase # "NONE" /\ r.id <= serial[r.sched]
       /\ sched[r.sched].phase = "LIVE" => Over(r, sched[r.sched].next) \/ Over(r, clock)
  /\ \A o \in Replicas :
       /\ \A r \in runs : r.sched \in tick[o].locked => Over(r, tick[o].now)
       /\ \A x \in tick[o].made :
            /\ x.id <= serial[x.sched] /\ Over(x, tick[o].next[x.sched])
            /\ \A r \in runs : r.sched = x.sched => r.id < x.id

\* The instant that comes next does not go back when the time goes on.
LEMMA NextIsMonotone ==
  ASSUME NEW e \in Exprs, NEW t \in Times, NEW u \in Times, t <= u
  PROVE  NextOf[e][t] <= NextOf[e][u]
<1>1. NextOf[e][t] \in Nat /\ NextOf[e][u] \in Nat
  BY CronAssumption
<1>2. CASE u < NextOf[e][t]
  BY <1>1, <1>2, CronAssumption
<1>3. CASE ~(u < NextOf[e][t])
  BY <1>1, <1>3, CronAssumption, SchedulerConstants DEF Times
<1> QED
  BY <1>2, <1>3

\* A tick that does not come right after an instant of the expression moves the
\* schedule past its own window, by whatever clock within the skew.
LEMMA NextIsLater ==
  ASSUME NEW e \in Exprs, NEW now \in 0..Horizon, NEW t \in Times, now <= t + Behind
  PROVE  NextOf[e][Past(now)] <= now \/ NextOf[e][now] <= NextOf[e][t]
<1>1. /\ now \in Times /\ Past(now) \in Times
      /\ Past(now) <= now /\ Past(now) <= t
  BY SchedulerConstants DEF Past, Times
<1>2. NextOf[e][Past(now)] \in Nat /\ now \in Nat
  <2>1. \A t1 \in Times : NextOf[e][t1] \in Nat
    BY CronAssumption
  <2> QED
    BY <1>1, <2>1 DEF Times
<1>3. CASE now < NextOf[e][Past(now)]
  <2>1. NextOf[e][now] = NextOf[e][Past(now)]
    BY <1>1, <1>3, CronAssumption
  <2>2. NextOf[e][Past(now)] <= NextOf[e][t]
    BY <1>1, NextIsMonotone
  <2> QED
    BY <2>1, <2>2
<1> QED
  BY <1>2, <1>3

\* The lock invariant holds before anything happened.
LEMMA LockInit == Init => LockInv
<1> SUFFICES ASSUME Init PROVE LockInv
  OBVIOUS
<1>1. NoRow \in Row
  BY SchedulerConstants DEF NoRow, Row
<1>2. NoTick \in Tick
  BY SchedulerConstants DEF NoTick, Tick
<1>3. TypeOK
  BY <1>1, <1>2, SchedulerConstants DEF Init, TypeOK, NoTick
<1>4. TickInv /\ Exclusive /\ RunsAreQueued
  BY DEF Init, TickInv, HoldsDue, MakesOne, Exclusive, RunsAreQueued, NoTick
<1> QED
  BY <1>3, <1>4 DEF LockInv

\* Every step keeps the lock invariant: PATCH and DELETE need rows no tick
\* holds, and a tick selects only rows no other tick holds.
LEMMA LockStep == LockInv /\ [Next]_vars => LockInv'
<1> SUFFICES ASSUME LockInv, [Next]_vars PROVE LockInv'
  OBVIOUS
<1> USE SchedulerConstants DEF LockInv
<1>1. ASSUME Advance PROVE LockInv'
  <2>1. TypeOK'
    BY <1>1 DEF Advance, TypeOK
  <2>2. clock' = clock + 1 /\ UNCHANGED <<sched, tick, serial, runs, queue>>
    BY <1>1 DEF Advance
  <2>3. TickInv'
    BY <2>2 DEF TickInv, HoldsDue, MakesOne, TypeOK, Tick, Row, IsDue
  <2> QED
    BY <2>1, <2>2, <2>3 DEF Exclusive, RunsAreQueued
<1>2. ASSUME NEW s \in Schedules, NEW e \in Exprs, NEW on \in BOOLEAN,
             CreateSchedule(s, e, on) \/ PatchSchedule(s, e, on) \/ DeleteSchedule(s)
      PROVE  LockInv'
  <2>1. /\ UNCHANGED <<clock, tick, serial, runs, queue, faults>>
        /\ \A t \in Schedules \ {s} : sched'[t] = sched[t]
    BY <1>2 DEF CreateSchedule, PatchSchedule, DeleteSchedule, TypeOK
  <2>2. sched' \in [Schedules -> Row]
    <3>1. CASE CreateSchedule(s, e, on)
      <4> PICK t \in AppClocks : sched' = [sched EXCEPT ![s] =
                 [phase |-> "LIVE", enabled |-> on, expr |-> e, next |-> NextOf[e][t]]]
        BY <3>1 DEF CreateSchedule
      <4>1. NextOf[e][t] \in Nat
        BY CronAssumption DEF AppClocks
      <4> QED
        BY <4>1 DEF TypeOK, Row
    <3>2. CASE PatchSchedule(s, e, on)
      BY <3>2 DEF PatchSchedule, TypeOK, Row
    <3>3. CASE DeleteSchedule(s)
      <4>1. [NoRow EXCEPT !.phase = "DELETED"] \in Row
        BY DEF NoRow, Row
      <4> QED
        BY <3>3, <4>1 DEF DeleteSchedule, TypeOK
    <3> QED
      BY <1>2, <3>1, <3>2, <3>3
  <2>3. \A o \in Replicas : s \notin tick[o].locked
    <3>1. CASE CreateSchedule(s, e, on)
      BY <3>1 DEF CreateSchedule, TickInv, HoldsDue, IsDue
    <3>2. CASE PatchSchedule(s, e, on) \/ DeleteSchedule(s)
      BY <3>2 DEF PatchSchedule, DeleteSchedule, Locked
    <3> QED
      BY <1>2, <3>1, <3>2
  <2>4. TypeOK'
    BY <2>1, <2>2 DEF TypeOK
  <2>5. TickInv'
    <3> SUFFICES ASSUME NEW o \in Replicas
                 PROVE  /\ tick[o].now <= clock
                        /\ \A t \in tick[o].locked : IsDue(t)' /\ sched'[t].next <= tick[o].now
                        /\ \A r \in tick[o].made :
                             /\ r.sched \in tick[o].locked \ tick[o].todo
                             /\ r.at = tick[o].now /\ r.expr = sched'[r.sched].expr
                             /\ RunKey(r) \in queue
                        /\ \A x, y \in tick[o].made : x.sched = y.sched => x = y
      BY <2>1 DEF TickInv, HoldsDue, MakesOne, RunKey
    <3>1. \A t \in tick[o].locked : t \in Schedules \ {s}
      BY <2>3 DEF TypeOK, Tick
    <3>2. \A t \in tick[o].locked : IsDue(t)' /\ sched'[t].next <= tick[o].now
      BY <2>1, <3>1 DEF TickInv, HoldsDue, MakesOne, IsDue
    <3> QED
      BY <2>1, <3>1, <3>2 DEF TickInv, HoldsDue, MakesOne
  <2> QED
    BY <2>1, <2>4, <2>5 DEF Exclusive, RunsAreQueued
<1>3. ASSUME NEW o \in Replicas, Select(o) PROVE LockInv'
  <2> PICK S \in Selections \ {{}} :
        tick' = [tick EXCEPT ![o] = [locked |-> S, todo |-> S, now |-> clock, made |-> {},
                                     next |-> NoTick.next]]
    BY <1>3 DEF Select
  <2>1. UNCHANGED <<clock, sched, serial, runs, queue, faults>>
    BY <1>3 DEF Select
  <2>2. /\ S \subseteq Schedules
        /\ \A s \in S : IsDue(s) /\ ~Locked(s)
    BY DEF Selections
  <2> DEFINE T == [locked |-> S, todo |-> S, now |-> clock, made |-> {},
                   next |-> NoTick.next]
  <2>3. tick' = [tick EXCEPT ![o] = T]
    OBVIOUS
  <2>4. T \in Tick
    BY <2>2 DEF Tick, TypeOK, NoTick
  <2>5. TypeOK'
    BY <2>1, <2>3, <2>4 DEF TypeOK
  <2>6. tick'[o] = T /\ \A p \in Replicas \ {o} : tick'[p] = tick[p]
    BY <2>3 DEF TypeOK
  <2>7. TickInv'
    <3>1. \A s \in S : IsDue(s)' /\ sched'[s].next <= clock
      BY <2>1, <2>2 DEF IsDue
    <3>2. clock <= clock
      BY DEF TypeOK
    <3> QED
      BY <2>1, <2>6, <3>1, <3>2 DEF TickInv, HoldsDue, MakesOne, IsDue, RunKey
  <2>8. Exclusive'
    BY <2>2, <2>6 DEF Exclusive, Locked
  <2> QED
    BY <2>1, <2>5, <2>7, <2>8 DEF RunsAreQueued
<1>4. ASSUME NEW o \in Replicas, NEW s \in Schedules, Fire(o, s) PROVE LockInv'
  <2> DEFINE id == serial[s] + 1
             r == [sched |-> s, id |-> id, expr |-> sched[s].expr, at |-> tick[o].now]
  <2>1. /\ s \in tick[o].todo /\ id <= MaxRuns
        /\ serial' = [serial EXCEPT ![s] = id]
        /\ queue' = queue \cup {RunKey(r)}
        /\ UNCHANGED <<clock, sched, runs, faults>>
    BY <1>4 DEF Fire
  <2> PICK t \in AppClocks :
        tick' = [tick EXCEPT ![o] =
                   [locked |-> @.locked, todo |-> @.todo \ {s}, now |-> @.now,
                    made |-> @.made \cup {r},
                    next |-> [@.next EXCEPT ![s] = NextOf[sched[s].expr][t]]]]
    BY <1>4 DEF Fire
  <2>2. NextOf[sched[s].expr][t] \in Nat
    BY CronAssumption DEF AppClocks, TypeOK, Row
  <2>3. r \in Run /\ id \in 1..MaxRuns /\ RunKey(r) \in Schedules \X (1..MaxRuns)
    BY <2>1 DEF TypeOK, Run, Row, Tick, RunKey
  <2>4. /\ tick'[o].todo = tick[o].todo \ {s}
        /\ tick'[o].made = tick[o].made \cup {r}
        /\ tick'[o].locked = tick[o].locked /\ tick'[o].now = tick[o].now
        /\ \A p \in Replicas \ {o} : tick'[p] = tick[p]
    BY DEF TypeOK, Tick
  <2>5. TypeOK'
    <3>1. tick' \in [Replicas -> Tick]
      <4>1. [locked |-> tick[o].locked, todo |-> tick[o].todo \ {s}, now |-> tick[o].now,
             made |-> tick[o].made \cup {r},
             next |-> [tick[o].next EXCEPT ![s] = NextOf[sched[s].expr][t]]] \in Tick
        BY <2>2, <2>3 DEF TypeOK, Tick
      <4> QED
        BY <4>1 DEF TypeOK
    <3>2. \A p \in Replicas : tick'[p].todo \subseteq tick'[p].locked
      BY <2>4 DEF TypeOK
    <3> QED
      BY <2>1, <2>3, <3>1, <3>2 DEF TypeOK
  <2>6. s \in tick[o].locked \ tick'[o].todo
    BY <2>1, <2>4 DEF TypeOK
  <2>7. TickInv'
    <3>1. \A p \in Replicas : \A x \in tick'[p].made :
            /\ x.sched \in tick'[p].locked \ tick'[p].todo
            /\ x.at = tick'[p].now /\ x.expr = sched'[x.sched].expr
            /\ RunKey(x) \in queue'
      BY <2>1, <2>4, <2>6 DEF TickInv, HoldsDue, MakesOne
    <3>2. \A p \in Replicas : \A x, y \in tick'[p].made : x.sched = y.sched => x = y
      BY <2>1, <2>4 DEF TickInv, HoldsDue, MakesOne
    <3>3. \A p \in Replicas :
            /\ tick'[p].now <= clock'
            /\ \A u \in tick'[p].locked : IsDue(u)' /\ sched'[u].next <= tick'[p].now
      BY <2>1, <2>4 DEF TickInv, HoldsDue, MakesOne, IsDue
    <3> QED
      BY <3>1, <3>2, <3>3 DEF TickInv, HoldsDue, MakesOne, IsDue, RunKey
  <2>8. Exclusive'
    BY <2>4 DEF Exclusive
  <2> QED
    BY <2>1, <2>5, <2>7, <2>8 DEF RunsAreQueued
<1>5. ASSUME NEW o \in Replicas, Commit(o) PROVE LockInv'
  <2>1. /\ tick[o].todo = {}
        /\ runs' = runs \cup tick[o].made
        /\ tick' = [tick EXCEPT ![o] = NoTick]
        /\ sched' = [s \in Schedules |->
                       IF s \in tick[o].locked
                       THEN [sched[s] EXCEPT !.next = tick[o].next[s]] ELSE sched[s]]
        /\ UNCHANGED <<clock, serial, queue, faults>>
    BY <1>5 DEF Commit
  <2>2. TypeOK'
    <3>1. NoTick \in Tick
      BY DEF NoTick, Tick
    <3>2. sched' \in [Schedules -> Row]
      <4>1. ASSUME NEW s \in Schedules, NEW n \in Nat
            PROVE  [sched[s] EXCEPT !.next = n] \in Row
        BY DEF TypeOK, Row
      <4>2. \A s \in Schedules : tick[o].next[s] \in Nat
        BY DEF TypeOK, Tick
      <4> QED
        BY <2>1, <4>1, <4>2 DEF TypeOK
    <3>3. runs' \subseteq Run
      BY <2>1 DEF TypeOK, Tick
    <3>4. NoTick.todo \subseteq NoTick.locked
      BY DEF NoTick
    <3> QED
      BY <2>1, <3>1, <3>2, <3>3, <3>4 DEF TypeOK
  <2>3. tick'[o] = NoTick /\ \A p \in Replicas \ {o} : tick'[p] = tick[p]
    BY <2>1 DEF TypeOK
  <2>4. \A p \in Replicas \ {o} : \A s \in tick[p].locked : sched'[s] = sched[s]
    BY <2>1 DEF Exclusive, TypeOK, Tick
  <2>5. TickInv'
    <3> SUFFICES ASSUME NEW p \in Replicas PROVE HoldsDue(p)' /\ MakesOne(p)'
      BY DEF TickInv
    <3>1. CASE p = o
      <4>1. NoTick.now <= clock /\ NoTick.locked = {} /\ NoTick.made = {}
        BY DEF NoTick, TypeOK
      <4> QED
        BY <2>1, <2>3, <3>1, <4>1 DEF HoldsDue, MakesOne
    <3>2. CASE p # o
      <4>1. tick'[p] = tick[p] /\ \A s \in tick[p].locked : sched'[s] = sched[s]
        BY <2>3, <2>4, <3>2
      <4>2. clock' = clock /\ queue' = queue
        BY <1>5 DEF Commit
      <4>3. HoldsDue(p) /\ MakesOne(p)
        BY DEF TickInv
      <4>4. HoldsDue(p)'
        BY <4>1, <4>2, <4>3 DEF HoldsDue, IsDue
      <4>5. MakesOne(p)'
        <5>1. \A r \in tick[p].made : sched'[r.sched].expr = sched[r.sched].expr
          BY <4>1, <4>3 DEF MakesOne
        <5> QED
          BY <4>1, <4>2, <4>3, <5>1 DEF MakesOne, RunKey
      <4> QED
        BY <4>4, <4>5
    <3> QED
      BY <3>1, <3>2
  <2>6. Exclusive'
    BY <2>3 DEF Exclusive, NoTick
  <2>7. RunsAreQueued'
    BY <2>1 DEF RunsAreQueued, TickInv, MakesOne
  <2> QED
    BY <2>2, <2>5, <2>6, <2>7
<1>6. ASSUME NEW o \in Replicas, Rollback(o) PROVE LockInv'
  <2>1. /\ tick' = [tick EXCEPT ![o] = NoTick]
        /\ faults' \in 0..MaxFaults
        /\ UNCHANGED <<clock, sched, serial, runs, queue>>
    BY <1>6 DEF Rollback, TypeOK
  <2>2. tick'[o] = NoTick /\ \A p \in Replicas \ {o} : tick'[p] = tick[p]
    BY <2>1 DEF TypeOK
  <2>3. TypeOK'
    <3>1. NoTick \in Tick /\ NoTick.todo \subseteq NoTick.locked
      BY DEF NoTick, Tick
    <3> QED
      BY <2>1, <3>1 DEF TypeOK
  <2>4. TickInv'
    BY <2>1, <2>2 DEF TickInv, HoldsDue, MakesOne, IsDue, NoTick, RunKey, TypeOK
  <2>5. Exclusive'
    BY <2>2 DEF Exclusive, NoTick
  <2> QED
    BY <2>1, <2>3, <2>4, <2>5 DEF RunsAreQueued
<1>7. ASSUME UNCHANGED vars PROVE LockInv'
  BY <1>7 DEF vars, TypeOK, TickInv, HoldsDue, MakesOne, IsDue, Exclusive, RunsAreQueued
<1> QED
  <2>1. \A s \in Schedules : DeleteSchedule(s) => LockInv'
    BY <1>2
  <2> QED
    BY <1>1, <1>2, <1>3, <1>4, <1>5, <1>6, <1>7, <2>1 DEF Next, UserNext, TickNext

\* The lock invariant holds in every reachable state.
THEOREM LockInvariance == Spec => []LockInv
<1> QED
  BY LockInit, LockStep, PTL DEF Spec

\* Every step keeps the window invariant.
LEMMA WindowStep ==
  ASSUME LockInv, WindowInv, [Next]_vars
  PROVE  WindowInv'
<1> USE SchedulerConstants DEF LockInv
<1>0. ASSUME NEW r \in Run
      PROVE  /\ r.sched \in Schedules /\ r.expr \in Exprs /\ r.id \in Nat
             /\ r.at \in 0..Horizon /\ NextOf[r.expr][r.at] \in Nat
             /\ \A t, u \in Nat : t <= u /\ Over(r, t) => Over(r, u)
  <2>1. r.sched \in Schedules /\ r.expr \in Exprs /\ r.id \in Nat /\ r.at \in 0..Horizon
    BY DEF Run
  <2>2. NextOf[r.expr][r.at] \in Nat
    BY <2>1, CronAssumption DEF Times
  <2> QED
    BY <2>1, <2>2 DEF Over
<1>1. ASSUME Advance PROVE WindowInv'
  <2>1. clock' = clock + 1 /\ clock \in Nat /\ UNCHANGED <<sched, tick, serial, runs>>
    BY <1>1 DEF Advance, TypeOK
  <2>2. \A r \in runs : Over(r, clock) => Over(r, clock + 1)
    BY <1>0, <2>1 DEF TypeOK
  <2> QED
    BY <2>1, <2>2 DEF WindowInv, Over, AtInstant
<1>2. ASSUME NEW s \in Schedules, NEW e \in Exprs, NEW on \in BOOLEAN,
             CreateSchedule(s, e, on) \/ PatchSchedule(s, e, on) \/ DeleteSchedule(s)
      PROVE  WindowInv'
  <2>1. /\ UNCHANGED <<clock, tick, serial, runs>>
        /\ \A t \in Schedules \ {s} : sched'[t] = sched[t]
    BY <1>2 DEF CreateSchedule, PatchSchedule, DeleteSchedule, TypeOK
  <2>2. ASSUME NEW r \in runs
        PROVE  /\ sched'[r.sched].phase # "NONE"
               /\ sched'[r.sched].phase = "LIVE" =>
                    Over(r, sched'[r.sched].next) \/ Over(r, clock)
    <3>1. CASE r.sched = s
      <4>1. sched[s].phase # "NONE"
        BY <3>1 DEF WindowInv
      <4>2. \/ sched'[s].phase = "DELETED"
            \/ sched'[s].phase = sched[s].phase /\ sched'[s].next = sched[s].next
        BY <1>2, <4>1 DEF CreateSchedule, PatchSchedule, DeleteSchedule, TypeOK, Row, NoRow
      <4> QED
        BY <3>1, <4>1, <4>2 DEF WindowInv
    <3>2. CASE r.sched # s
      <4>1. sched'[r.sched] = sched[r.sched]
        BY <1>0, <2>1, <3>2 DEF TypeOK
      <4> QED
        BY <4>1 DEF WindowInv
    <3> QED
      BY <3>1, <3>2
  <2> QED
    BY <2>1, <2>2 DEF WindowInv, Over, AtInstant
<1>3. ASSUME NEW o \in Replicas, Select(o) PROVE WindowInv'
  <2> PICK S \in Selections \ {{}} :
        tick' = [tick EXCEPT ![o] = [locked |-> S, todo |-> S, now |-> clock, made |-> {},
                                     next |-> NoTick.next]]
    BY <1>3 DEF Select
  <2>1. UNCHANGED <<clock, sched, serial, runs>>
    BY <1>3 DEF Select
  <2>2. /\ tick'[o].locked = S /\ tick'[o].now = clock /\ tick'[o].made = {}
        /\ \A p \in Replicas \ {o} : tick'[p] = tick[p]
    BY DEF TypeOK
  <2>3. ASSUME NEW r \in runs, r.sched \in S
        PROVE  Over(r, clock)
    <3>1. IsDue(r.sched)
      BY <2>3 DEF Selections
    <3>2. Over(r, sched[r.sched].next) \/ Over(r, clock)
      BY <3>1 DEF WindowInv, IsDue
    <3>3. r \in Run /\ sched[r.sched].next \in Nat /\ clock \in Nat
      BY <1>0 DEF TypeOK, Row
    <3> QED
      BY <1>0, <3>1, <3>2, <3>3 DEF IsDue
  <2> QED
    BY <2>1, <2>2, <2>3 DEF WindowInv, Over, AtInstant
<1>4. ASSUME NEW o \in Replicas, NEW s \in Schedules, Fire(o, s)
      PROVE  WindowInv'
  <2> DEFINE x == [sched |-> s, id |-> serial[s] + 1, expr |-> sched[s].expr,
                   at |-> tick[o].now]
  <2>1. /\ UNCHANGED <<clock, sched, runs>> /\ s \in tick[o].todo /\ serial[s] + 1 <= MaxRuns
        /\ serial' = [serial EXCEPT ![s] = @ + 1]
    BY <1>4 DEF Fire
  <2> PICK t \in AppClocks :
        tick' = [tick EXCEPT ![o] =
                   [locked |-> @.locked, todo |-> @.todo \ {s}, now |-> @.now,
                    made |-> @.made \cup {x},
                    next |-> [@.next EXCEPT ![s] = NextOf[sched[s].expr][t]]]]
    BY <1>4 DEF Fire
  <2>2. /\ tick'[o].locked = tick[o].locked /\ tick'[o].now = tick[o].now
        /\ tick'[o].made = tick[o].made \cup {x}
        /\ tick'[o].next = [tick[o].next EXCEPT ![s] = NextOf[sched[s].expr][t]]
        /\ \A p \in Replicas \ {o} : tick'[p] = tick[p]
    BY DEF TypeOK
  <2>3. \A q \in Schedules : serial[q] <= serial'[q] /\ serial[q] \in Nat /\ serial'[q] \in Nat
    BY <2>1 DEF TypeOK
  <2>4. tick[o].next \in [Schedules -> Nat] /\ tick[o].now \in 0..Horizon /\ x \in Run
    BY <2>1 DEF TypeOK, Tick, Run, Row
  <2>5. x.id = serial'[s] /\ Over(x, tick'[o].next[s])
    <3>1. x.id = serial'[s]
      BY <2>1 DEF TypeOK
    <3>2. tick[o].now <= t + Behind /\ t \in Times
      BY DEF AppClocks, TickInv, HoldsDue, TypeOK, Times, Tick
    <3>3. sched[s].expr \in Exprs
      BY DEF TypeOK, Row
    <3>4. NextOf[x.expr][Past(x.at)] <= x.at \/ NextOf[x.expr][x.at] <= NextOf[x.expr][t]
      BY <2>4, <3>2, <3>3, NextIsLater
    <3>5. tick'[o].next[s] = NextOf[x.expr][t]
      BY <2>2, <2>4
    <3> QED
      BY <3>1, <3>4, <3>5 DEF Over, AtInstant
  \* What was inserted before keeps the instant that its schedule was given.
  <2>6. ASSUME NEW y \in tick[o].made
        PROVE  y.sched # s /\ y.sched \in Schedules /\ tick'[o].next[y.sched] = tick[o].next[y.sched]
    <3>1. y.sched \in tick[o].locked \ tick[o].todo
      BY DEF TickInv, MakesOne
    <3>2. y.sched \in Schedules
      BY <1>0 DEF TypeOK, Tick
    <3> QED
      BY <2>1, <2>2, <2>4, <3>1, <3>2
  <2>7. ASSUME NEW r \in runs
        PROVE  /\ r.id <= serial'[r.sched]
               /\ r.sched = s => r.id < x.id
    <3>1. r.id <= serial[r.sched] /\ r.id \in Nat /\ r.sched \in Schedules
      BY <1>0 DEF TypeOK, WindowInv
    <3> QED
      BY <2>1, <2>3, <2>5, <3>1 DEF TypeOK
  <2>8. ASSUME NEW p \in Replicas, NEW y \in tick'[p].made
        PROVE  /\ y.id <= serial'[y.sched] /\ Over(y, tick'[p].next[y.sched])
               /\ \A r \in runs : r.sched = y.sched => r.id < y.id
    <3>1. CASE p = o /\ y = x
      BY <2>1, <2>3, <2>5, <2>7, <3>1
    <3>2. CASE y \in tick[p].made
      <4>1. y.id <= serial[y.sched] /\ Over(y, tick[p].next[y.sched])
            /\ \A r \in runs : r.sched = y.sched => r.id < y.id
        BY <3>2 DEF WindowInv
      <4>2. y.id \in Nat /\ y.sched \in Schedules
        BY <1>0, <3>2 DEF TypeOK, Tick
      <4>3. tick'[p].next[y.sched] = tick[p].next[y.sched]
        BY <2>2, <2>6, <3>2
      <4> QED
        BY <2>3, <4>1, <4>2, <4>3
    <3> QED
      BY <2>2, <3>1, <3>2
  <2>9. \A p \in Replicas : tick'[p].locked = tick[p].locked /\ tick'[p].now = tick[p].now
    BY <2>2
  <2> HIDE DEF x
  <2> QED
    BY <2>1, <2>7, <2>8, <2>9 DEF WindowInv, Over, AtInstant
<1>5. ASSUME NEW o \in Replicas, Commit(o) PROVE WindowInv'
  <2>1. /\ tick[o].todo = {}
        /\ runs' = runs \cup tick[o].made
        /\ tick' = [tick EXCEPT ![o] = NoTick]
        /\ sched' = [s \in Schedules |->
                       IF s \in tick[o].locked
                       THEN [sched[s] EXCEPT !.next = tick[o].next[s]] ELSE sched[s]]
        /\ UNCHANGED <<clock, serial>>
    BY <1>5 DEF Commit
  <2>2. /\ tick'[o].locked = {} /\ tick'[o].made = {}
        /\ \A p \in Replicas \ {o} : tick'[p] = tick[p]
    BY <2>1 DEF TypeOK, NoTick
  <2>3. tick[o].next \in [Schedules -> Nat] /\ tick[o].now \in Nat /\ clock \in Nat
    BY DEF TypeOK, Tick
  <2>4. ASSUME NEW r \in runs'
        PROVE  /\ r \in Run
               /\ sched'[r.sched].phase # "NONE" /\ r.id <= serial'[r.sched]
               /\ sched'[r.sched].phase = "LIVE" =>
                    Over(r, sched'[r.sched].next) \/ Over(r, clock')
    <3>1. r \in Run
      BY <2>1 DEF TypeOK, Tick
    <3>2. r.sched \in Schedules /\ sched[r.sched] \in Row
      BY <1>0, <3>1 DEF TypeOK
    <3>3. r.id <= serial'[r.sched]
      BY <2>1 DEF WindowInv
    <3>4. sched'[r.sched].phase = sched[r.sched].phase
      BY <2>1, <3>2 DEF Row
    <3>5. CASE r \in tick[o].made
      <4>1. r.sched \in tick[o].locked /\ IsDue(r.sched)
        BY <3>5 DEF TickInv, HoldsDue, MakesOne
      <4>2. sched'[r.sched].next = tick[o].next[r.sched]
        BY <2>1, <3>2, <4>1 DEF Row
      <4> QED
        BY <3>1, <3>3, <3>4, <3>5, <4>1, <4>2 DEF WindowInv, IsDue
    <3>6. CASE r \in runs /\ r.sched \in tick[o].locked
      <4>1. Over(r, tick[o].now) /\ tick[o].now <= clock /\ IsDue(r.sched)
        BY <3>6 DEF WindowInv, TickInv, HoldsDue
      <4>2. Over(r, clock)
        BY <1>0, <2>3, <3>1, <4>1
      <4> QED
        BY <2>1, <3>1, <3>3, <3>4, <4>1, <4>2 DEF IsDue
    <3>7. CASE r \in runs /\ r.sched \notin tick[o].locked
      <4>1. sched'[r.sched] = sched[r.sched]
        BY <2>1, <3>2, <3>7
      <4> QED
        BY <2>1, <3>1, <3>3, <3>7, <4>1 DEF WindowInv
    <3> QED
      BY <2>1, <3>5, <3>6, <3>7
  \* What another tick holds, this one has not fired.
  <2>5. ASSUME NEW p \in Replicas \ {o}, NEW r \in tick[o].made
        PROVE  r.sched \notin tick[p].locked
    <3>1. r.sched \in tick[o].locked
      BY DEF TickInv, MakesOne
    <3> QED
      BY <3>1 DEF Exclusive
  <2>6. ASSUME NEW p \in Replicas
        PROVE  /\ \A r \in runs' : r.sched \in tick'[p].locked => Over(r, tick'[p].now)
               /\ \A x \in tick'[p].made :
                    /\ x.id <= serial'[x.sched] /\ Over(x, tick'[p].next[x.sched])
                    /\ \A r \in runs' : r.sched = x.sched => r.id < x.id
    <3>1. CASE p = o
      BY <2>2, <3>1
    <3>2. CASE p # o
      <4>1. tick'[p] = tick[p]
        BY <2>2, <3>2
      <4>2. \A x \in tick[p].made : x.sched \in tick[p].locked
        BY DEF TickInv, MakesOne
      <4> QED
        BY <2>1, <2>5, <3>2, <4>1, <4>2 DEF WindowInv
    <3> QED
      BY <3>1, <3>2
  <2> QED
    BY <2>4, <2>6 DEF WindowInv, Over, AtInstant
<1>6. ASSUME NEW o \in Replicas, Rollback(o) PROVE WindowInv'
  <2>1. UNCHANGED <<clock, sched, serial, runs>> /\ tick' = [tick EXCEPT ![o] = NoTick]
    BY <1>6 DEF Rollback
  <2>2. /\ tick'[o].locked = {} /\ tick'[o].made = {}
        /\ \A p \in Replicas \ {o} : tick'[p] = tick[p]
    BY <2>1 DEF TypeOK, NoTick
  <2> QED
    BY <2>1, <2>2 DEF WindowInv, Over, AtInstant
<1>7. ASSUME UNCHANGED vars PROVE WindowInv'
  BY <1>7 DEF vars, WindowInv, Over, AtInstant
<1> QED
  <2>1. \A s \in Schedules : DeleteSchedule(s) => WindowInv'
    BY <1>2
  <2> QED
    BY <1>1, <1>2, <1>3, <1>4, <1>5, <1>6, <1>7, <2>1 DEF Next, UserNext, TickNext

\* The window invariant holds in every reachable state.
LEMMA WindowInvariance == Spec => []WindowInv
<1>1. Init => WindowInv
  BY DEF Init, WindowInv, NoTick
<1>2. LockInv /\ WindowInv /\ [Next]_vars => WindowInv'
  BY WindowStep
<1> QED
  BY <1>1, <1>2, LockInvariance, PTL DEF Spec

\* A run that commits comes when the windows of the older runs are over, also when
\* the expression has been changed in between.
LEMMA ChangeStep ==
  ASSUME LockInv, WindowInv, ChangedSchedulesWait, [Next]_vars
  PROVE  ChangedSchedulesWait'
<1> USE SchedulerConstants DEF LockInv
<1>1. CASE UNCHANGED runs
  BY <1>1 DEF ChangedSchedulesWait, AtInstant
<1>2. ASSUME NEW o \in Replicas, Commit(o) PROVE ChangedSchedulesWait'
  <2>1. runs' = runs \cup tick[o].made
    BY <1>2 DEF Commit
  <2>2. ASSUME NEW y \in tick[o].made, NEW x \in runs, x.sched = y.sched
        PROVE  AtInstant(x) \/ NextOf[x.expr][x.at] <= y.at
    <3>1. y.sched \in tick[o].locked /\ y.at = tick[o].now
      BY DEF TickInv, MakesOne
    <3> QED
      BY <2>2, <3>1 DEF WindowInv, Over
  <2>3. ASSUME NEW x \in tick[o].made, NEW y \in runs, x.sched = y.sched
        PROVE  ~(x.id < y.id)
    <3>1. y.id < x.id
      BY <2>3 DEF WindowInv
    <3>2. x.id \in Nat /\ y.id \in Nat
      BY DEF TypeOK, Tick, Run
    <3> QED
      BY <3>1, <3>2
  <2>4. ASSUME NEW x \in tick[o].made, NEW y \in tick[o].made, x.sched = y.sched
        PROVE  ~(x.id < y.id)
    <3>1. x = y /\ x.id \in Nat
      BY <2>4 DEF TickInv, MakesOne, TypeOK, Tick, Run
    <3> QED
      BY <3>1
  <2> QED BY <2>1, <2>2, <2>3, <2>4 DEF ChangedSchedulesWait, AtInstant
<1>3. ASSUME ~UNCHANGED runs PROVE \E o \in Replicas : Commit(o)
  BY <1>3 DEF Next, UserNext, TickNext, Advance, CreateSchedule, PatchSchedule,
              DeleteSchedule, Select, Fire, Rollback, vars
<1> QED BY <1>1, <1>2, <1>3

\* However many replicas tick and whatever users do to the schedules, no
\* schedule is held by two ticks, and what a tick holds stays due until it
\* commits.
THEOREM TicksExclude == Spec => []LocksAreExclusive
<1>1. LockInv => LocksAreExclusive
  BY DEF LockInv, TickInv, HoldsDue, Exclusive, LocksAreExclusive
<1> QED
  BY <1>1, LockInvariance, PTL

\* A scheduled run that commits has been queued before, whatever fails.
THEOREM CommittedRunsAreQueued == Spec => []RunsAreQueued
<1>1. LockInv => RunsAreQueued
  BY DEF LockInv
<1> QED
  BY <1>1, LockInvariance, PTL

\* Whatever users do to a schedule, its next run comes when the window of each run
\* before it is over, unless that run came within the skew of the clocks from an
\* instant of its expression.
THEOREM ChangesWait == Spec => []ChangedSchedulesWait
<1>1. Init => ChangedSchedulesWait
  BY DEF Init, ChangedSchedulesWait
<1>2. LockInv /\ WindowInv /\ ChangedSchedulesWait /\ [Next]_vars => ChangedSchedulesWait'
  BY ChangeStep
<1> QED
  BY <1>1, <1>2, LockInvariance, WindowInvariance, PTL DEF Spec

\* However many replicas tick, whatever fails and whatever users do to the schedules
\* meanwhile, no window of a schedule is fired twice but after a run that came within
\* the skew of the clocks from an instant of the expression.
THEOREM FiresAtMostOnce == Spec => []AtMostOncePerWindow
<1>1. ASSUME TypeOK, ChangedSchedulesWait PROVE AtMostOncePerWindow
  <2> SUFFICES ASSUME NEW x \in runs, NEW y \in runs, x.sched = y.sched, x.expr = y.expr,
                      x.id < y.id, NextOf[x.expr][x.at] = NextOf[y.expr][y.at], ~AtInstant(x)
               PROVE  FALSE
    BY DEF AtMostOncePerWindow
  <2>1. NextOf[x.expr][x.at] <= y.at
    BY <1>1 DEF ChangedSchedulesWait
  <2>2. y.at \in Nat /\ y.at \in Times /\ y.expr \in Exprs
    BY <1>1, SchedulerConstants DEF TypeOK, Run, Times
  <2>3. NextOf[y.expr][y.at] \in Nat /\ y.at < NextOf[y.expr][y.at]
    BY <2>2, CronAssumption
  <2> QED
    BY <2>1, <2>2, <2>3
<1>2. LockInv => TypeOK
  BY DEF LockInv
<1> QED
  BY <1>1, <1>2, LockInvariance, ChangesWait, PTL

\* requirements.md 2.2 as it stands: one run of a schedule in each window.
OncePerWindow ==
  \A x, y \in runs :
    /\ x.sched = y.sched /\ x.expr = y.expr
    /\ NextOf[x.expr][x.at] = NextOf[y.expr][y.at]
    => x.id = y.id

\* With no process's clock behind the one of PostgreSQL no run is so early after an
\* instant, and requirements.md 2.2 holds as it stands.
THEOREM FiresOnceWithoutSkew ==
  ASSUME Behind = 0
  PROVE  Spec => []OncePerWindow
<1>1. ASSUME TypeOK, AtMostOncePerWindow, NEW x \in runs, NEW y \in runs,
             x.sched = y.sched, x.expr = y.expr,
             NextOf[x.expr][x.at] = NextOf[y.expr][y.at]
      PROVE  x.id = y.id
  <2>1. \A r \in runs : r.id \in Nat /\ ~AtInstant(r)
    <3> SUFFICES ASSUME NEW r \in runs PROVE r.id \in Nat /\ ~AtInstant(r)
      OBVIOUS
    <3>1. r.id \in Nat /\ r.at \in Times /\ r.at \in Nat /\ r.expr \in Exprs
      BY <1>1, SchedulerConstants DEF TypeOK, Run, Times
    <3>2. Past(r.at) = r.at
      BY <3>1 DEF Past
    <3>3. NextOf[r.expr][r.at] \in Nat /\ r.at < NextOf[r.expr][r.at]
      BY <3>1, CronAssumption
    <3> QED
      BY <3>1, <3>2, <3>3 DEF AtInstant
  <2>2. ~(x.id < y.id) /\ ~(y.id < x.id)
    BY <1>1, <2>1 DEF AtMostOncePerWindow
  <2> QED
    BY <2>1, <2>2
<1>2. TypeOK /\ AtMostOncePerWindow => OncePerWindow
  BY <1>1 DEF OncePerWindow
<1>3. LockInv => TypeOK
  BY DEF LockInv
<1> QED
  BY <1>2, <1>3, LockInvariance, FiresAtMostOnce, PTL

=============================================================================
