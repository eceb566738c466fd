--------------------------- MODULE WorkflowGeneration ---------------------------
(***************************************************************************)
(* POST /ai/generate-workflow for one tenant: concurrent requests check the*)
(* day's token budget in Redis, call the model, record the tokens it says  *)
(* it used, and ask once more when the answer is not a workflow.           *)
(***************************************************************************)
EXTENDS Naturals, FiniteSetsExt

CONSTANTS
  Generations,    \* requests in progress at a time
  DailyLimit,     \* DAILY_LIMIT
  Reserve,        \* the tokens a request must find left
  Usages,         \* the tokens a call may use, 0 when the provider reports none
  MaxDay,         \* bound on the days
  MaxGenerations \* bound on the requests

ASSUME GenerationAssumption ==
  /\ DailyLimit \in Nat /\ Reserve \in 0..DailyLimit /\ MaxDay \in Nat /\ MaxGenerations \in Nat
  /\ IsFiniteSet(Generations)
  /\ Usages \subseteq Nat /\ \E most \in Usages : \A n \in Usages : n <= most

VARIABLES
  day,
  used,         \* the counter of the day
  job,          \* the progress of each request
  abandoned,    \* calls the provider still works on and nobody waits for
  received      \* requests so far

generationVars == <<day, used, job, abandoned, received>>

\* What the model may answer, as parse() and the check for SCRIPT steps see it.
Candidates == {"invalid", "script", "clean"}

\* calls: how many calls it made; tokens and candidate: what the last one gave.
NoRequest == [pc |-> "idle", calls |-> 0, tokens |-> 0, candidate |-> "none"]

GenerationInit ==
  /\ day = 0 /\ used = 0
  /\ job = [q \in Generations |-> NoRequest]
  /\ abandoned = 0 /\ received = 0

\* Midnight, UTC: the key of the day expires and the next one does not exist.
NextDay ==
  /\ day < MaxDay
  /\ day' = day + 1 /\ used' = 0
  /\ UNCHANGED <<job, abandoned, received>>

Receive(q) ==
  /\ job[q].pc \in {"idle", "draft", "refused"} /\ received < MaxGenerations
  /\ received' = received + 1
  /\ job' = [job EXCEPT ![q] = [NoRequest EXCEPT !.pc = "check"]]
  /\ UNCHANGED <<day, used, abandoned>>

CallLLM(r) == [r EXCEPT !.pc = "calling", !.calls = @ + 1]

\* Mutant: nothing is reserved for the call.
CheckUnreserved(q) ==
  /\ job[q].pc = "check"
  /\ job' = [job EXCEPT ![q] = IF used <= DailyLimit
                               THEN CallLLM(@) ELSE [@ EXCEPT !.pc = "refused"]]
  /\ UNCHANGED <<day, used, abandoned, received>>

\* checkTokenBudget reads the counter, and what it allows goes to the provider.
CheckTokenBudget(q) ==
  /\ job[q].pc = "check"
  /\ job' = [job EXCEPT ![q] = IF used + Reserve <= DailyLimit
                               THEN CallLLM(@) ELSE [@ EXCEPT !.pc = "refused"]]
  /\ UNCHANGED <<day, used, abandoned, received>>

\* The provider answers first ...
Answer(q) ==
  /\ job[q].pc = "calling"
  /\ \E n \in Usages, c \in Candidates :
       job' = [job EXCEPT ![q] = [@ EXCEPT !.pc = "record", !.tokens = n, !.candidate = c]]
  /\ UNCHANGED <<day, used, abandoned, received>>

\* ... or fails, which ends the request with a 500 ...
ProviderError(q) ==
  /\ job[q].pc = "calling"
  /\ job' = [job EXCEPT ![q].pc = "refused"]
  /\ UNCHANGED <<day, used, abandoned, received>>

\* Mutant: only the first call has a timer.
TimeoutFirstCall(q) ==
  /\ job[q].pc = "calling" /\ job[q].calls = 1
  /\ job' = [job EXCEPT ![q].pc = "refused"]
  /\ abandoned' = abandoned + 1
  /\ UNCHANGED <<day, used, received>>

\* ... or the timer wins the race: 504, and the call goes on without a reader.
Timeout(q) ==
  /\ job[q].pc = "calling"
  /\ job' = [job EXCEPT ![q].pc = "refused"]
  /\ abandoned' = abandoned + 1
  /\ UNCHANGED <<day, used, received>>

\* An answer that comes too late is dropped with its usage.
LateAnswer ==
  /\ abandoned > 0
  /\ abandoned' = abandoned - 1
  /\ UNCHANGED <<day, used, job, received>>

\* Where the answer leads: a draft, a second call, or 422.
Judge(r) ==
  IF r.candidate = "clean" THEN [r EXCEPT !.pc = "draft"]
  ELSE IF r.candidate = "invalid" /\ r.calls = 1 THEN CallLLM(r)
  ELSE [r EXCEPT !.pc = "refused"]

\* recordTokenUsage counts the tokens on the day it runs, in one MULTI; then the
\* candidate is parsed.
RecordTokenUsage(q) ==
  /\ job[q].pc = "record"
  /\ used' = used + job[q].tokens
  /\ job' = [job EXCEPT ![q] = Judge(@)]
  /\ UNCHANGED <<day, abandoned, received>>

\* Redis fails: the tokens are spent and not counted, and the request ends.
RecordFails(q) ==
  /\ job[q].pc = "record" /\ job[q].tokens > 0
  /\ job' = [job EXCEPT ![q].pc = "refused"]
  /\ UNCHANGED <<day, used, abandoned, received>>

Steps(q) ==
  CheckTokenBudget(q) \/ Answer(q) \/ ProviderError(q) \/ Timeout(q)
    \/ RecordTokenUsage(q) \/ RecordFails(q)

GenerationNext == NextDay \/ LateAnswer \/ \E q \in Generations : Receive(q) \/ Steps(q)

GenerationSpec == GenerationInit /\ [][GenerationNext]_generationVars

\* The handler runs on and its timer fires; the provider need not answer.
Fairness ==
  \A q \in Generations :
    /\ WF_generationVars(CheckTokenBudget(q)) /\ WF_generationVars(Timeout(q))
    /\ WF_generationVars(RecordTokenUsage(q) \/ RecordFails(q))

FairSpec == GenerationSpec /\ Fairness

-------------------------------------------------------------------------------

\* Every variable keeps its type.
GenerationTypeOK ==
  /\ day \in 0..MaxDay /\ used \in Nat
  /\ job \in [Generations ->
       [pc: {"idle", "check", "calling", "record", "draft", "refused"}, calls: 0..2,
        tokens: Usages \cup {0}, candidate: Candidates \cup {"none"}]]
  /\ abandoned \in 0..(2 * MaxGenerations) /\ received \in 0..MaxGenerations

\* The budget is checked before a call and counted after it, so it can be
\* overshot, but by no more than two calls of each request in progress.
OvershootIsBounded ==
  used + Reserve <= DailyLimit + 2 * Cardinality(Generations) * Max(Usages)

\* A generation is answered even if the provider never is.
RequestsAreAnswered ==
  \A q \in Generations : job[q].pc = "check" ~> job[q].pc \in {"draft", "refused"}

=============================================================================
