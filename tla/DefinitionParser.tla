--------------------------- MODULE DefinitionParser ---------------------------
(***************************************************************************)
(* parse of the parser: the checks a submitted definition passes, in their *)
(* order, before its graph is looked at.  The first check that fails is    *)
(* the last one made; only the checks of the shape and of the configs      *)
(* report all they find.  What a text, a shape or a config looks like is   *)
(* a choice; the number of steps is that of the definition.                *)
(***************************************************************************)
EXTENDS DagValidation

CONSTANTS
  MaxSteps,     \* MAX_STEPS
  ShapeIssues   \* what mapZodIssue makes of an issue of the schema

ASSUME ParserAssumption ==
  /\ MaxSteps \in Nat
  /\ ShapeIssues \subseteq {"unknown_field", "missing_required", "type_mismatch", "out_of_range",
                            "unknown_step_type"}

ParseInit == InitAt("text")

\* A refused definition never gets to validateAndSortDAG.
Refuse(errors) ==
  /\ pc' = "refused" /\ result' = Failure(errors)
  /\ UNCHANGED <<def, inDegree, queue, children, sorted>>

GoOn(to) == pc' = to /\ UNCHANGED <<def, inDegree, queue, children, sorted, result>>

\* parseFromJson and parseFromYaml: too many bytes, or not JSON or YAML.
ReadText ==
  /\ pc = "text"
  /\ \/ \E issue \in {"input_too_large", "type_mismatch"} : Refuse({Error(NoStep, issue)})
     \/ GoOn("count")

\* checkStepCount comes before the schema.
CheckStepCount ==
  /\ pc = "count"
  /\ IF Len(def) > MaxSteps THEN Refuse({Error(NoStep, "input_too_large")}) ELSE GoOn("shape")

\* WorkflowDefinitionSchema, which wants at least one step.  An issue names the
\* step its path leads to.
CheckShape ==
  /\ pc = "shape"
  /\ \/ def = <<>> /\ Refuse({Error(NoStep, "out_of_range")})
     \/ \E s \in StepIds(def) \cup {NoStep}, issue \in ShapeIssues : Refuse({Error(s, issue)})
     \/ def # <<>> /\ GoOn("configs")

\* validateStepConfig of every step.
CheckConfigs ==
  /\ pc = "configs"
  /\ \/ \E S \in SUBSET StepIds(def) \ {{}}, issue \in ShapeIssues :
          Refuse({Error(s, issue) : s \in S})
     \/ GoOn("ids")

Parse == ReadText \/ CheckStepCount \/ CheckShape \/ CheckConfigs \/ Next

=============================================================================
