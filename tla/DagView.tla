-------------------------------- MODULE DagView --------------------------------
(***************************************************************************)
(* DagView of the frontend: the columns in which the steps of a definition *)
(* are drawn.  It draws whatever has a list of steps, also a draft that    *)
(* the parser would refuse: the loop sweeps over the steps and gives each  *)
(* the column after its dependencies, and puts those that cannot get one   *)
(* behind all the others.                                                  *)
(***************************************************************************)
EXTENDS CycleDetection

CONSTANT MaxIterations   \* sweeps over the steps, 100 in the code

ASSUME DagViewAssumption == MaxIterations \in Nat

VARIABLES
  levels,       \* the column of each step that has one
  unresolved,   \* ids of steps without a column
  iterations,
  turn,         \* the step the sweep is at
  resolvedAny,  \* the sweep has given a column to a step
  drawn

drawing == <<levels, unresolved, iterations, turn, resolvedAny, drawn>>

DrawInit ==
  /\ levels = [s \in {} |-> 0] /\ unresolved = StepIds(def)
  /\ iterations = 0 /\ turn = Len(def) + 1
  /\ resolvedAny = TRUE /\ drawn = FALSE

SweepOver == ~drawn /\ turn > Len(def)
Exhausted == unresolved = {} \/ iterations = MaxIterations

StartSweep ==
  /\ SweepOver /\ resolvedAny /\ ~Exhausted
  /\ iterations' = iterations + 1 /\ turn' = 1 /\ resolvedAny' = FALSE
  /\ UNCHANGED <<levels, unresolved, drawn>>

Columns(ids) == {levels[d] : d \in ids}

\* Mutant: the column is the number of the sweep.
ColumnBySweep(deps) == iterations - 1

\* The column after those of the dependencies.
Column(deps) == IF deps = {} THEN 0 ELSE Max(Columns(deps)) + 1

VisitStep ==
  /\ ~drawn /\ turn <= Len(def)
  /\ turn' = turn + 1
  /\ LET id == def[turn].id
         deps == ToSet(def[turn].depends_on)
     IN  IF id \in unresolved /\ deps \subseteq DOMAIN levels
         THEN /\ levels' = [s \in DOMAIN levels \cup {id} |->
                           IF s = id THEN Column(deps) ELSE levels[s]]
              /\ unresolved' = unresolved \ {id} /\ resolvedAny' = TRUE
         ELSE UNCHANGED <<levels, unresolved, resolvedAny>>
  /\ UNCHANGED <<iterations, drawn>>

\* A sweep without progress: what is left shares the column behind the last.
PlaceRest ==
  /\ SweepOver /\ ~resolvedAny
  /\ levels' = [s \in DOMAIN levels \cup unresolved |->
                  IF s \in unresolved THEN Max(Columns(DOMAIN levels) \cup {-1}) + 1 ELSE levels[s]]
  /\ drawn' = TRUE
  /\ UNCHANGED <<unresolved, iterations, turn, resolvedAny>>

EndDrawing ==
  /\ SweepOver /\ resolvedAny /\ Exhausted
  /\ drawn' = TRUE
  /\ UNCHANGED <<levels, unresolved, iterations, turn, resolvedAny>>

Draw == StartSweep \/ VisitStep \/ PlaceRest \/ EndDrawing

-------------------------------------------------------------------------------
(* A draft is drawn in the editor, saved and parsed, and searched.          *)

DraftInit == ParseInit /\ SearchInit /\ DrawInit

DraftNext ==
  \/ Draw /\ UNCHANGED <<vars, searchVars>>
  \/ drawn /\ Parse /\ UNCHANGED <<searchVars, drawing>>
  \/ pc = "done" /\ Search /\ UNCHANGED <<vars, drawing>>

DraftSpec == DraftInit /\ [][DraftNext]_<<vars, searchVars, drawing>>

-------------------------------------------------------------------------------

\* Steps that no order can reach: they wait for each other, for a missing step
\* or for one of these.
Stuck ==
  UNION {S \in SUBSET StepIds(def) :
           \A s \in S : \E e \in Precedes(def) :
             e[2] = s /\ (e[1] \in S \/ e[1] \notin StepIds(def))}

\* The drawing shows the graph, in whatever order the steps are listed: a step
\* stands in the column after the last of its dependencies, and exactly the
\* steps for which the parser refuses the definition stand behind all others.
\* The sweeps suffice for as many steps; beyond, steps may be left without a
\* column, and are drawn in the first.
ColumnsFollowDependencies ==
  drawn /\ DuplicateIds(def) = {} =>
    /\ Len(def) <= MaxIterations => DOMAIN levels = StepIds(def)
    /\ DOMAIN levels = StepIds(def) =>
         \A s \in StepIds(def) :
           IF s \in Stuck THEN \A t \in StepIds(def) \ Stuck : levels[t] < levels[s]
           ELSE levels[s] = Column({e[1] : e \in {e \in Precedes(def) : e[2] = s}})
    /\ pc = "done" => (result.ok <=> Stuck = {})

=============================================================================
