---------------------------- MODULE WorkflowVersions ----------------------------
(***************************************************************************)
(* One workflow and the API requests on it: PATCH /workflows/:id appends a *)
(* version, POST .../rollback appends a copy of an older one, POST .../runs *)
(* and the webhook receiver bind a run to the current version, DELETE      *)
(* removes the workflow, GET reads it.  The header row (workflows) says    *)
(* which version is current, the rows of workflow_versions hold the        *)
(* definitions.                                                            *)
(*                                                                         *)
(* A transaction that changes the header holds its row lock until it ends. *)
(***************************************************************************)
EXTENDS Naturals, Sequences

CONSTANTS
  Requests,
  Bodies,       \* the definitions that are submitted
  MaxFaults,    \* transactions that fail and answers that are lost
  Nobody        \* holds no lock

ASSUME VersionsAssumption ==
  MaxFaults \in Nat /\ Nobody \notin Requests

VARIABLES
  phase,        \* of the workflow: "NONE", "LIVE" or "DELETED"
  current,      \* workflows.current_version
  versions,     \* workflow_versions.definition, by version
  lock,         \* the request whose transaction holds the header row
  req,          \* the progress of each request
  runs,         \* the runs created: by which request, bound to which version
  faults

vars == <<phase, current, versions, lock, req, runs, faults>>

Kinds == {"update", "rollback", "delete", "trigger", "webhook"}

\* version: what the request has read, is to copy, or has created; floor: the
\* current version when a request for a run came in.
Idle == [kind |-> "none", pc |-> "idle", version |-> 0, body |-> Nobody, floor |-> 0]

Init ==
  /\ phase = "NONE" /\ current = 0 /\ versions = <<>>
  /\ lock = Nobody
  /\ req = [q \in Requests |-> Idle]
  /\ runs = {} /\ faults = 0

\* createWorkflow: both rows in one transaction.
Create(b) ==
  /\ phase = "NONE"
  /\ phase' = "LIVE" /\ current' = 1 /\ versions' = <<b>>
  /\ UNCHANGED <<lock, req, runs, faults>>

Started(kind, b, target) ==
  [kind |-> kind, pc |-> "start", version |-> target, body |-> b,
   floor |-> IF kind \in {"trigger", "webhook"} THEN current ELSE 0]

\* A request comes in; a rollback names its target version.
Begin(q, kind, b, target) ==
  /\ req[q].pc = "idle" /\ phase # "NONE"
  /\ kind = "rollback" <=> target # 0
  /\ req' = [req EXCEPT ![q] = Started(kind, IF kind = "update" THEN b ELSE Nobody, target)]
  /\ UNCHANGED <<phase, current, versions, lock, runs, faults>>

At(q, kind, pc) == req[q].kind = kind /\ req[q].pc = pc

Reply(q, answer) == req' = [req EXCEPT ![q].pc = answer]

\* The header is gone: 404, or an exception that becomes one.
NotFound(q) ==
  /\ req[q].pc = "start" /\ phase = "DELETED"
  /\ Reply(q, "refused")
  /\ UNCHANGED <<phase, current, versions, lock, runs, faults>>

-------------------------------------------------------------------------------
(* updateWorkflow and rollbackWorkflow.                                     *)

\* parse comes before the database; which definitions it refuses is left open.
RejectDefinition(q) ==
  /\ At(q, "update", "start")
  /\ Reply(q, "refused")
  /\ UNCHANGED <<phase, current, versions, lock, runs, faults>>

\* updateWorkflow starts with UPDATE workflows, which takes the row and returns
\* the bumped version; rollbackWorkflow with SELECT ... FOR UPDATE.
LockHeader(q) ==
  /\ phase = "LIVE" /\ lock = Nobody
  /\ lock' = q
  /\ \/ /\ At(q, "update", "start")
        /\ req' = [req EXCEPT ![q].pc = "insert", ![q].version = current + 1]
     \/ At(q, "rollback", "start") /\ Reply(q, "copy")
  /\ UNCHANGED <<phase, current, versions, runs, faults>>

\* Mutant: the transaction stays open after a throw.
ReadTargetKeepsLock(q) ==
  /\ At(q, "rollback", "copy")
  /\ IF req[q].version \in DOMAIN versions
     THEN req' = [req EXCEPT ![q].pc = "insert", ![q].version = current + 1,
                             ![q].body = versions[req[q].version]]
     ELSE Reply(q, "refused")
  /\ UNCHANGED <<phase, current, versions, lock, runs, faults>>

\* rollbackWorkflow reads the target, which may not exist, and bumps the header.
ReadTarget(q) ==
  /\ At(q, "rollback", "copy")
  /\ IF req[q].version \in DOMAIN versions
     THEN /\ req' = [req EXCEPT ![q].pc = "insert", ![q].version = current + 1,
                                ![q].body = versions[req[q].version]]
          /\ UNCHANGED lock
     ELSE Reply(q, "refused") /\ lock' = Nobody
  /\ UNCHANGED <<phase, current, versions, runs, faults>>

\* Mutant: the current version is edited in place.
CommitVersionInPlace(q) ==
  /\ req[q].pc = "insert"
  /\ lock' = Nobody
  /\ versions' = [versions EXCEPT ![current] = req[q].body]
  /\ req' = [req EXCEPT ![q].pc = "ok", ![q].version = current]
  /\ UNCHANGED <<phase, current, runs, faults>>

\* INSERT and COMMIT; (workflow_id, version) is unique.
CommitVersion(q) ==
  /\ req[q].pc = "insert"
  /\ lock' = Nobody
  /\ IF req[q].version \in DOMAIN versions
     THEN Reply(q, "refused") /\ UNCHANGED <<current, versions>>
     ELSE /\ current' = req[q].version
          /\ versions' = Append(versions, req[q].body)
          /\ Reply(q, "ok")
  /\ UNCHANGED <<phase, runs, faults>>

\* The transaction fails anywhere: ROLLBACK.
Abort(q) ==
  /\ lock = q /\ faults < MaxFaults
  /\ faults' = faults + 1
  /\ lock' = Nobody
  /\ Reply(q, "refused")
  /\ UNCHANGED <<phase, current, versions, runs>>

\* What follows the transaction fails, such as writeAuditLog, or the answer is
\* lost: the client is told of an error although the request was served.
LoseAnswer(q) ==
  /\ req[q].pc = "ok" /\ faults < MaxFaults
  /\ faults' = faults + 1
  /\ Reply(q, "refused")
  /\ UNCHANGED <<phase, current, versions, lock, runs>>

\* DELETE waits for the row; versions and runs go with it.
Delete(q) ==
  /\ At(q, "delete", "start") /\ phase = "LIVE" /\ lock = Nobody
  /\ phase' = "DELETED" /\ current' = 0 /\ versions' = <<>> /\ runs' = {}
  /\ Reply(q, "ok")
  /\ UNCHANGED <<lock, faults>>

-------------------------------------------------------------------------------
(* Reading the workflow, and triggering a run.                              *)

\* getWorkflowById reads the header ...
ReadHeader(q) ==
  /\ At(q, "get", "start") \/ At(q, "trigger", "start")
  /\ phase = "LIVE"
  /\ req' = [req EXCEPT ![q].pc = "version", ![q].version = current]
  /\ UNCHANGED <<phase, current, versions, lock, runs, faults>>

\* ... and then, in another statement, the version it named.
ReadVersion(q) ==
  /\ req[q].pc = "version"
  /\ IF req[q].version \in DOMAIN versions
     THEN req' = [req EXCEPT ![q].pc = IF req[q].kind = "get" THEN "ok" ELSE "create",
                             ![q].body = versions[req[q].version]]
     ELSE Reply(q, "refused")
  /\ UNCHANGED <<phase, current, versions, lock, runs, faults>>

\* The webhook receiver joins them in one statement.
ReadJoined(q) ==
  /\ At(q, "webhook", "start") /\ phase = "LIVE"
  /\ req' = [req EXCEPT ![q].pc = "create", ![q].version = current,
                        ![q].body = versions[current]]
  /\ UNCHANGED <<phase, current, versions, lock, runs, faults>>

\* The run, with what its request has seen.
Run(q, v) == [by |-> q, version |-> v, body |-> req[q].body, floor |-> req[q].floor]

\* Mutant: the run is bound to what is current when it is inserted.
CreateRunCurrent(q) ==
  /\ req[q].pc = "create" /\ phase = "LIVE"
  /\ runs' = runs \cup {Run(q, current)}
  /\ Reply(q, "ok")
  /\ UNCHANGED <<phase, current, versions, lock, faults>>

\* createRun.  Its foreign keys need the rows, and the key-share lock they
\* take waits for FOR UPDATE but not for the UPDATE of updateWorkflow.
CreateRun(q) ==
  /\ req[q].pc = "create"
  /\ ~\E p \in Requests : lock = p /\ req[p].kind = "rollback"
  /\ IF phase = "LIVE"
     THEN runs' = runs \cup {Run(q, req[q].version)} /\ Reply(q, "ok")
     ELSE UNCHANGED runs /\ Reply(q, "refused")
  /\ UNCHANGED <<phase, current, versions, lock, faults>>

-------------------------------------------------------------------------------

RequestNext(q) ==
  \/ NotFound(q) \/ LockHeader(q) \/ ReadTarget(q) \/ CommitVersion(q) \/ Delete(q)
  \/ ReadHeader(q) \/ ReadVersion(q) \/ ReadJoined(q) \/ CreateRun(q)

Next ==
  \/ \E b \in Bodies : Create(b)
  \/ \E q \in Requests :
       \/ \E kind \in Kinds, b \in Bodies, target \in Nat :
            Begin(q, kind, b, target)
       \/ RequestNext(q) \/ RejectDefinition(q) \/ Abort(q) \/ LoseAnswer(q)

Spec == Init /\ [][Next]_vars

-------------------------------------------------------------------------------

Pcs == {"idle", "start", "copy", "insert", "version", "create", "ok", "refused"}

Request ==
  [kind: Kinds \cup {"get", "none"}, pc: Pcs, version: Nat, body: Bodies \cup {Nobody}, floor: Nat]

\* Every variable keeps its type.
TypeOK ==
  /\ phase \in {"NONE", "LIVE", "DELETED"}
  /\ current \in Nat /\ versions \in Seq(Bodies)
  /\ lock \in Requests \cup {Nobody}
  /\ req \in [Requests -> Request]
  /\ runs \subseteq [by: Requests, version: Nat, body: Bodies, floor: Nat]
  /\ faults \in 0..MaxFaults

\* Two PATCH or rollback requests never create the same version, and what a
\* request was told it created is what stays under that version.
NoLostUpdate ==
  \A p, q \in Requests :
    /\ req[p].pc = "ok" /\ req[p].kind \in {"update", "rollback"} /\ phase = "LIVE"
    => /\ versions[req[p].version] = req[p].body
       /\ q # p /\ req[q].pc = "ok" /\ req[q].kind \in {"update", "rollback"}
            => req[q].version # req[p].version

\* requirements.md 2.8: a run is bound to a version that exists, to the one whose
\* definition its request read, and to one no older than the current version when
\* the request came in, although the header and the version are read in two
\* statements.
RunsBindFreshVersions ==
  \A r \in runs :
    /\ r.version \in DOMAIN versions
    /\ r.floor <= r.version
    /\ versions[r.version] = r.body

=============================================================================
