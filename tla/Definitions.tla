------------------------------ MODULE Definitions ------------------------------
(***************************************************************************)
(* A workflow definition as the parser hands it to its graph algorithms: a *)
(* sequence of steps, each with an id and the list depends_on, which may   *)
(* repeat an id, name the step itself or name no step at all.  Step ids    *)
(* are numbers, in alphabetical order.                                     *)
(***************************************************************************)
EXTENDS Naturals, SequencesExt

CONSTANTS
  Names,          \* step ids and names that are no step
  Definitions     \* the definitions that are submitted

Step == [id: Names, depends_on: Seq(Names)]

ASSUME DefinitionsAssumption ==
  /\ Names \subseteq Nat
  /\ Definitions \subseteq Seq(Step)

StepIds(def) == {def[i].id : i \in DOMAIN def}

\* The entries of the lists depends_on: <<i, j>> is the j-th of the i-th step.
Entries(def) == UNION {{i} \X DOMAIN def[i].depends_on : i \in DOMAIN def}

\* The step an entry names, and the one that depends on it.
DepAt(def, e) == def[e[1]].depends_on[e[2]]
StepAt(def, e) == def[e[1]].id

\* Loops go through entries in the order of the definition.
Before(e, f) == e[1] < f[1] \/ (e[1] = f[1] /\ e[2] < f[2])
Earliest(entries) == CHOOSE e \in entries : \A f \in entries : f = e \/ Before(e, f)

DuplicateIds(def) ==
  {def[i].id : i \in {i \in DOMAIN def : \E j \in 1..(i - 1) : def[j].id = def[i].id}}

\* <<dep, id>> is an edge of the graph.
Precedes(def) == {<<DepAt(def, e), StepAt(def, e)>> : e \in Entries(def)}

\* Some steps wait for each other: whoever is among them depends on one of them.
HasDeadlock(def, ids) ==
  \E S \in SUBSET ids : S # {} /\ \A s \in S : \E d \in S : <<d, s>> \in Precedes(def)

=============================================================================
