----------------------------- MODULE WorkflowPage -----------------------------
(***************************************************************************)
(* WorkflowDetailPage of the frontend beside the other clients of the API: *)
(* it fetches a workflow, draws its steps, lets its text be edited and     *)
(* saves it with a PATCH that names no version to base it on.              *)
(*                                                                         *)
(* The page has one fetch and one save under way at most, the requests     *)
(* fetch and save of WorkflowVersions; the other requests are those of     *)
(* other clients.                                                          *)
(***************************************************************************)
EXTENDS WorkflowVersions

CONSTANTS
  fetch, save,
  KindsOf,      \* what the other clients ask for
  Blank,        \* the definition with which WorkflowsPage creates a workflow
  Malformed,    \* text that is not JSON, or no definition with a list of steps
  MaxSaves, MaxRefetches

ASSUME PageAssumption ==
  /\ fetch \in Requests /\ save \in Requests /\ fetch # save
  /\ KindsOf \in [Requests \ {fetch, save} -> SUBSET Kinds] /\ Blank \in Bodies
  /\ MaxSaves \in Nat /\ MaxRefetches \in Nat

VARIABLES
  workflow,     \* the data of the query: a version and its definition
  failed,       \* the error of the query
  jsonText, parsedSteps, jsonError, isEditing,
  dirty,        \* the text was typed and neither saved nor replaced since
  saved,        \* the last version the page was told it has created
  saves, refetches

editor == <<jsonText, parsedSteps, jsonError, isEditing, dirty>>
page == <<workflow, failed, editor, saved, saves, refetches>>
server == <<phase, current, versions, lock, runs, faults>>

PageInit ==
  /\ Init
  /\ workflow = [version |-> 0, body |-> Nobody] /\ failed = FALSE
  /\ jsonText = Malformed /\ parsedSteps = Nobody /\ jsonError = FALSE /\ isEditing = FALSE
  /\ dirty = FALSE /\ saved = 0 /\ saves = 0 /\ refetches = 0

Quiet(q) == req[q].pc = "idle"
Loaded == workflow.version > 0

\* An error hides the page, and what is edited on it.
Visible == Loaded /\ ~failed

-------------------------------------------------------------------------------
(* The query.                                                               *)

StartFetch == Started("get", Nobody, 0)

Open ==
  /\ ~Loaded /\ ~failed /\ Quiet(fetch) /\ phase # "NONE"
  /\ req' = [req EXCEPT ![fetch] = StartFetch]
  /\ UNCHANGED <<server, page>>

\* The browser is back online.
Reconnect ==
  /\ Loaded \/ failed
  /\ Quiet(fetch) /\ refetches < MaxRefetches
  /\ refetches' = refetches + 1
  /\ req' = [req EXCEPT ![fetch] = StartFetch]
  /\ failed' = (failed /\ Loaded)
  /\ UNCHANGED <<server, workflow, editor, saved, saves>>

\* The effect that follows the data: text and steps are those of the definition.
Sync(b) == jsonText' = b /\ parsedSteps' = b /\ dirty' = FALSE

\* A workflow like the last one is the same object, and the effect does not run.
Show ==
  LET answer == [version |-> req[fetch].version, body |-> req[fetch].body] IN
  /\ req[fetch].pc = "ok"
  /\ req' = [req EXCEPT ![fetch] = Idle]
  /\ workflow' = answer /\ failed' = FALSE
  /\ IF answer = workflow THEN UNCHANGED <<jsonText, parsedSteps, dirty>> ELSE Sync(answer.body)
  /\ UNCHANGED <<server, jsonError, isEditing, saved, saves, refetches>>

ShowError ==
  /\ req[fetch].pc = "refused"
  /\ req' = [req EXCEPT ![fetch] = Idle]
  /\ failed' = TRUE
  /\ UNCHANGED <<server, workflow, editor, saved, saves, refetches>>

-------------------------------------------------------------------------------
(* The editor.                                                              *)

Edit ==
  /\ Visible /\ ~isEditing
  /\ isEditing' = TRUE
  /\ UNCHANGED <<vars, workflow, failed, jsonText, parsedSteps, jsonError, dirty, saved, saves,
                 refetches>>

\* handleJsonChange
Type(t) ==
  /\ Visible /\ isEditing
  /\ jsonText' = t /\ dirty' = TRUE
  /\ jsonError' = (t = Malformed)
  /\ parsedSteps' = IF t = Malformed THEN parsedSteps ELSE t
  /\ UNCHANGED <<vars, workflow, failed, isEditing, saved, saves, refetches>>

\* A save that is under way goes on.
CancelEdit ==
  /\ Visible /\ isEditing
  /\ Sync(workflow.body) /\ jsonError' = FALSE /\ isEditing' = FALSE
  /\ UNCHANGED <<vars, workflow, failed, saved, saves, refetches>>

\* The button is disabled during a save and with an error.
CanSave == Visible /\ isEditing /\ Quiet(save) /\ ~jsonError

Save ==
  /\ CanSave /\ jsonText # Malformed /\ saves < MaxSaves
  /\ req' = [req EXCEPT ![save] = Started("update", jsonText, 0)]
  /\ saves' = saves + 1 /\ dirty' = FALSE
  /\ UNCHANGED <<server, workflow, failed, jsonText, parsedSteps, jsonError, isEditing, saved,
                 refetches>>

SaveMalformed ==
  /\ CanSave /\ jsonText = Malformed
  /\ jsonError' = TRUE
  /\ UNCHANGED <<vars, workflow, failed, jsonText, parsedSteps, isEditing, dirty, saved, saves,
                 refetches>>

\* Mutant: a fetch under way is good enough.
InvalidateWhenIdle ==
  req' = [req EXCEPT ![save] = Idle, ![fetch] = IF Quiet(fetch) THEN StartFetch ELSE @]

\* A fetch under way is dropped and sent again.
Invalidate == req' = [req EXCEPT ![save] = Idle, ![fetch] = StartFetch]

OnSuccess ==
  /\ req[save].pc = "ok"
  /\ saved' = req[save].version
  /\ Invalidate
  /\ isEditing' = FALSE /\ jsonError' = FALSE
  /\ UNCHANGED <<server, workflow, failed, jsonText, parsedSteps, dirty, saves, refetches>>

OnError ==
  /\ req[save].pc = "refused"
  /\ req' = [req EXCEPT ![save] = Idle]
  /\ jsonError' = TRUE
  /\ UNCHANGED <<server, workflow, failed, jsonText, parsedSteps, isEditing, dirty, saved, saves,
                 refetches>>

-------------------------------------------------------------------------------

Answered == Show \/ ShowError \/ OnSuccess \/ OnError

Others ==
  \/ Create(Blank)
  \/ \E q \in DOMAIN KindsOf : \E kind \in KindsOf[q], b \in Bodies, target \in 0..2 :
       Begin(q, kind, b, target)
  \/ \E q \in Requests : RequestNext(q) \/ RejectDefinition(q) \/ Abort(q)
  \/ \E q \in {fetch, save} : LoseAnswer(q)

PageNext ==
  \/ Others /\ UNCHANGED page
  \/ Open \/ Reconnect \/ Answered
  \/ Edit \/ CancelEdit \/ Save \/ SaveMalformed
  \/ \E t \in Bodies \cup {Malformed} : Type(t)

\* The API serves its requests and the browser takes the answer of a save.
PageSpec ==
  /\ PageInit /\ [][PageNext]_<<vars, page>>
  /\ \A q \in Requests : WF_vars(RequestNext(q))
  /\ WF_vars(OnSuccess \/ OnError)

-------------------------------------------------------------------------------

\* A page that waits for nothing shows the version it was told it has saved, or a
\* newer one; and outside the editor the text and the graph are those of that
\* version, unless they were typed after the Save button was pressed.
SettledPageShowsVersion ==
  Visible /\ Quiet(fetch) /\ Quiet(save) =>
    /\ workflow.version >= saved
    /\ ~isEditing /\ ~dirty => jsonText = workflow.body /\ parsedSteps = workflow.body

\* A save ends: the page does not wait for an answer forever, whatever requests
\* hold the row of the workflow meanwhile.
SavesEnd == ~Quiet(save) ~> Quiet(save)

=============================================================================
