----------------------------- MODULE DagValidation -----------------------------
(***************************************************************************)
(* validateAndSortDAG of the parser: reject duplicate step ids, then       *)
(* dependencies on missing steps, then whatever Kahn's algorithm cannot    *)
(* sort.  Each turn of its loops is a step.                                *)
(***************************************************************************)
EXTENDS Definitions

CONSTANT NoStep   \* null, the step_id of an error about the whole definition

VARIABLES
  def,         \* the definition, never changed
  pc,
  inDegree,    \* edges into each step that are not yet counted down
  queue,       \* steps without such edges, not yet sorted
  children,    \* what is left of the adjacency list being walked, as entries of the definition
  sorted,
  result       \* what it returns: [ok, sorted] or [ok, errors]

vars == <<def, pc, inDegree, queue, children, sorted, result>>

Error(id, issue) == [step_id |-> id, issue |-> issue]
Failure(errors) == [ok |-> FALSE, errors |-> errors]

InitAt(start) ==
  /\ def \in Definitions
  /\ pc = start
  /\ inDegree = [s \in StepIds(def) |-> 0]
  /\ queue = <<>> /\ children = {} /\ sorted = <<>>
  /\ result = Failure({})

Return(value) ==
  /\ result' = value /\ pc' = "done"
  /\ UNCHANGED <<def, inDegree, queue, children, sorted>>

\* 1. Every duplicated id is reported, and nothing else is looked at.
RejectDuplicates ==
  /\ pc = "ids" /\ DuplicateIds(def) # {}
  /\ Return(Failure({Error(d, "duplicate_id") : d \in DuplicateIds(def)}))

\* 2. Every step with a dependency on a missing step is reported.
Dangling == {e \in Precedes(def) : e[1] \notin StepIds(def)}

RejectDangling ==
  /\ pc = "ids" /\ DuplicateIds(def) = {} /\ Dangling # {}
  /\ Return(Failure({Error(e[2], "dangling_dependency") : e \in Dangling}))

\* Mutant: a dependency listed twice counts once.
DegreeDistinct(s) == Cardinality({e \in Precedes(def) : e[2] = s})

Degree(s) == Cardinality({e \in Entries(def) : StepAt(def, e) = s})

Adjacency(s) == {e \in Entries(def) : DepAt(def, e) = s}

\* The ids in alphabetical order.
Alphabetical(ids) ==
  CHOOSE q \in [1..Cardinality(ids) -> ids] : \A i, j \in DOMAIN q : i < j => q[i] < q[j]

\* 3. The roots of the graph are queued in alphabetical order.
BuildGraph ==
  /\ pc = "ids" /\ DuplicateIds(def) = {} /\ Dangling = {}
  /\ inDegree' = [s \in StepIds(def) |-> Degree(s)]
  /\ queue' = Alphabetical({s \in StepIds(def) : Degree(s) = 0})
  /\ pc' = "sort"
  /\ UNCHANGED <<def, children, sorted, result>>

ShiftNode ==
  /\ pc = "sort" /\ children = {} /\ queue # <<>>
  /\ queue' = Tail(queue)
  /\ sorted' = Append(sorted, Head(queue))
  /\ children' = Adjacency(Head(queue))
  /\ UNCHANGED <<def, pc, inDegree, result>>

CountChild ==
  LET child == StepAt(def, Earliest(children)) IN
  /\ pc = "sort" /\ children # {}
  /\ children' = children \ {Earliest(children)}
  /\ inDegree' = [inDegree EXCEPT ![child] = @ - 1]
  /\ queue' = IF inDegree[child] = 1 THEN Append(queue, child) ELSE queue
  /\ UNCHANGED <<def, pc, sorted, result>>

\* Mutant: the length is not compared.
FinishUnchecked ==
  /\ pc = "sort" /\ children = {} /\ queue = <<>>
  /\ Return([ok |-> TRUE, sorted |-> sorted])

Finish ==
  /\ pc = "sort" /\ children = {} /\ queue = <<>>
  /\ Return(IF Len(sorted) # Cardinality(StepIds(def))
            THEN Failure({Error(NoStep, "cycle")})
            ELSE [ok |-> TRUE, sorted |-> sorted])

Next ==
  RejectDuplicates \/ RejectDangling \/ BuildGraph \/ ShiftNode \/ CountChild \/ Finish

-------------------------------------------------------------------------------

\* Every variable keeps its type.
TypeOK ==
  /\ def \in Definitions
  /\ pc \in {"text", "count", "shape", "configs", "ids", "sort", "refused", "done"}
  /\ inDegree \in [StepIds(def) -> Nat]
  /\ queue \in Seq(StepIds(def)) /\ sorted \in Seq(StepIds(def))
  /\ children \subseteq Entries(def)
  /\ pc \in {"refused", "done"} <=> result # Failure({})

\* What is accepted comes back as a topological order: every step once, and
\* after all the steps it depends on.
AcceptedIsSorted ==
  pc = "done" /\ result.ok =>
    LET order == result.sorted IN
    /\ Len(order) = Len(def) /\ ToSet(order) = StepIds(def)
    /\ \A i, j \in DOMAIN order : <<order[i], order[j]>> \in Precedes(def) => i < j

\* "cycle" is reported exactly when ids and dependencies are in order and some
\* steps wait for each other: what is accepted never deadlocks in the engine,
\* and nothing that could run is rejected.
CycleIffDeadlock ==
  pc = "done" =>
    (result = Failure({Error(NoStep, "cycle")}) <=>
       /\ DuplicateIds(def) = {} /\ Dangling = {}
       /\ HasDeadlock(def, StepIds(def)))

=============================================================================
