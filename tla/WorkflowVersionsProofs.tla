------------------------ MODULE WorkflowVersionsProofs ------------------------
(***************************************************************************)
(* The workflow and its page, proved: however many clients change the      *)
(* workflow and start runs of it, no version is lost and every run is      *)
(* bound to a version current since its request came in; and a page that   *)
(* waits for nothing shows a version no older than the one it has saved.   *)
(*                                                                         *)
(* The argument about the server is the row lock: the request that holds   *)
(* it is the only one between the bump of the header and the insertion of  *)
(* the version, so its version is one more than the last, and versions are *)
(* only appended.  The argument about the page is that a fetch which is    *)
(* under way when a save is answered was sent after that answer.           *)
(***************************************************************************)
EXTENDS WorkflowPage, TLAPS

Changes == {"update", "rollback"}
Triggers == {"trigger", "webhook"}

\* The header names the last version, and a lock is one of a live workflow.
HeaderNamesLast ==
  /\ current = Len(versions)
  /\ phase = "LIVE" <=> current > 0
  /\ lock # Nobody => phase = "LIVE"
  /\ phase = "NONE" => runs = {} /\ \A q \in Requests : req[q].pc = "idle"

\* The request at each pc, and the lock.
Located(q) ==
  /\ req[q].pc \in {"copy", "insert"} <=> lock = q
  /\ req[q].kind = "none" => req[q].pc = "idle"
  /\ req[q].pc = "copy" => req[q].kind = "rollback"
  /\ req[q].pc = "insert" => req[q].kind \in Changes /\ req[q].body \in Bodies
  /\ req[q].pc = "insert" => req[q].version = current + 1
  /\ req[q].pc = "version" => req[q].kind \in {"get", "trigger"}
  /\ req[q].pc = "create" => req[q].kind \in Triggers
  /\ req[q].pc = "start" /\ req[q].kind = "update" => req[q].body \in Bodies
  /\ req[q].pc = "ok" /\ req[q].kind = "get" => req[q].body \in Bodies /\ req[q].version > 0

\* What a request has read or created is there as long as the workflow is.
Grounded(q) ==
  phase = "LIVE" =>
    /\ req[q].pc = "start" => req[q].floor <= current
    /\ req[q].pc \in {"version", "create"} =>
         req[q].floor <= req[q].version /\ req[q].version \in DOMAIN versions
    /\ req[q].pc = "create" \/ (req[q].pc = "ok" /\ req[q].kind \in Changes) =>
         req[q].version \in DOMAIN versions /\ versions[req[q].version] = req[q].body

Distinct ==
  \A p, q \in Requests :
    /\ p # q /\ phase = "LIVE"
    /\ req[p].pc = "ok" /\ req[p].kind \in Changes
    /\ req[q].pc = "ok" /\ req[q].kind \in Changes
    => req[p].version # req[q].version

ServerInv ==
  /\ TypeOK /\ HeaderNamesLast /\ Distinct /\ RunsBindFreshVersions
  /\ \A q \in Requests : Located(q) /\ Grounded(q)

Synced == jsonText = workflow.body /\ parsedSteps = workflow.body

\* Text that was neither typed since nor is the workflow's has been sent: the save
\* is under way, was refused and is still in the editor, or is yet to be shown.
Sent ==
  \/ /\ ~Quiet(save) /\ isEditing
     /\ req[save].pc \in {"insert", "ok"} => workflow.version < req[save].version
  \/ Quiet(save) /\ isEditing
  \/ workflow.version < saved

PageTypeOK ==
  /\ workflow \in [version: Nat, body: Bodies \cup {Nobody}]
  /\ Loaded => workflow.body \in Bodies
  /\ jsonText \in Bodies \cup {Malformed}
  /\ failed \in BOOLEAN /\ dirty \in BOOLEAN /\ isEditing \in BOOLEAN /\ jsonError \in BOOLEAN
  /\ saved \in Nat
  /\ req[fetch].kind \in {"none", "get"} /\ req[save].kind \in {"none", "update"}

PageInv ==
  /\ PageTypeOK
  /\ phase = "NONE" => ~Loaded /\ ~failed
  /\ phase # "DELETED" => workflow.version <= current /\ saved <= current
  /\ req[fetch].pc \in {"version", "ok"} =>
       /\ saved <= req[fetch].version
       /\ phase # "DELETED" => req[fetch].version <= current
  /\ req[save].pc \in {"insert", "ok"} => saved < req[save].version
  /\ Visible /\ Quiet(fetch) => saved <= workflow.version
  /\ Loaded /\ ~dirty => Synced \/ Sent

-------------------------------------------------------------------------------
(* The server.                                                              *)

LEMMA InitServer == Init => ServerInv
<1> SUFFICES ASSUME Init PROVE ServerInv
  OBVIOUS
<1> USE DEF Init, Idle
<1>1. TypeOK
  <2>1. Idle \in Request  BY DEF Request, Pcs
  <2> QED  BY <2>1, VersionsAssumption DEF TypeOK
<1>2. HeaderNamesLast /\ Distinct /\ RunsBindFreshVersions
  BY DEF HeaderNamesLast, Distinct, RunsBindFreshVersions
<1>3. \A q \in Requests : Located(q) /\ Grounded(q)
  BY VersionsAssumption DEF Located, Grounded
<1> QED  BY <1>1, <1>2, <1>3 DEF ServerInv

\* A request whose progress and findings change is still one.
LEMMA RequestFields ==
  ASSUME NEW r \in Request, NEW pc \in Pcs
  PROVE  /\ [r EXCEPT !.pc = pc] \in Request
         /\ \A v \in Nat :
              /\ [r EXCEPT !.pc = pc, !.version = v] \in Request
              /\ \A b \in Bodies : [r EXCEPT !.pc = pc, !.version = v, !.body = b] \in Request
  BY DEF Request

LEMMA ServerStep ==
  ASSUME NEW q \in Requests, ServerInv,
         RequestNext(q) \/ RejectDefinition(q) \/ Abort(q) \/ LoseAnswer(q)
  PROVE  ServerInv'
<1>0. req[q] \in Request  BY DEF ServerInv, TypeOK
<1> USE VersionsAssumption DEF ServerInv, At, Reply, Changes, Triggers
<1>1. CASE NotFound(q)
  <2> USE <1>1 DEF NotFound
  <2>1. /\ \A p \in Requests \ {q} : req'[p] = req[p]
        /\ req'[q].kind = req[q].kind /\ req'[q].floor = req[q].floor
    BY DEF TypeOK, Request
  <2>2. req'[q] \in Request  BY DEF TypeOK, Request, Pcs
  <2>3. req' \in [Requests -> Request]  BY <2>2 DEF TypeOK
  <2>4. TypeOK'  BY <2>3 DEF TypeOK, Located, Grounded, Run
  <2>5. HeaderNamesLast'  BY DEF TypeOK, HeaderNamesLast, Located
  <2>6. RunsBindFreshVersions'
    BY DEF TypeOK, RunsBindFreshVersions, Grounded, HeaderNamesLast, Run
  <2>7. ASSUME NEW p \in Requests, p # q PROVE Located(p)' /\ Grounded(p)'
    BY <2>1, <2>7 DEF TypeOK, HeaderNamesLast, Located, Grounded
  <2>8. Located(q)'  BY DEF TypeOK, Request, HeaderNamesLast, Located
  <2>9. Grounded(q)'  BY DEF TypeOK, Request, HeaderNamesLast, Located, Grounded
  <2>10. Distinct'  BY <2>1, <2>8, <2>9 DEF TypeOK, Distinct, Grounded, Located
  <2> QED  BY <2>4, <2>5, <2>6, <2>7, <2>8, <2>9, <2>10
<1>2. CASE RejectDefinition(q)
  <2> USE <1>2 DEF RejectDefinition
  <2>1. /\ \A p \in Requests \ {q} : req'[p] = req[p]
        /\ req'[q].kind = req[q].kind /\ req'[q].floor = req[q].floor
    BY DEF TypeOK, Request
  <2>2. req'[q] \in Request  BY DEF TypeOK, Request, Pcs
  <2>3. req' \in [Requests -> Request]  BY <2>2 DEF TypeOK
  <2>4. TypeOK'  BY <2>3 DEF TypeOK, Located, Grounded, Run
  <2>5. HeaderNamesLast'  BY DEF TypeOK, HeaderNamesLast, Located
  <2>6. RunsBindFreshVersions'
    BY DEF TypeOK, RunsBindFreshVersions, Grounded, HeaderNamesLast, Run
  <2>7. ASSUME NEW p \in Requests, p # q PROVE Located(p)' /\ Grounded(p)'
    BY <2>1, <2>7 DEF TypeOK, HeaderNamesLast, Located, Grounded
  <2>8. Located(q)'  BY DEF TypeOK, Request, HeaderNamesLast, Located
  <2>9. Grounded(q)'  BY DEF TypeOK, Request, HeaderNamesLast, Located, Grounded
  <2>10. Distinct'  BY <2>1, <2>8, <2>9 DEF TypeOK, Distinct, Grounded, Located
  <2> QED  BY <2>4, <2>5, <2>6, <2>7, <2>8, <2>9, <2>10
<1>3. CASE LockHeader(q)
  <2> USE <1>3 DEF LockHeader
  <2>1. /\ \A p \in Requests \ {q} : req'[p] = req[p]
        /\ req'[q].kind = req[q].kind /\ req'[q].floor = req[q].floor
    BY DEF TypeOK, Request
  <2>2. req'[q] \in Request
    <3>1. \/ req'[q] = [req[q] EXCEPT !.pc = "insert", !.version = current + 1]
          \/ req'[q] = [req[q] EXCEPT !.pc = "copy"]
      BY DEF TypeOK
    <3>2. "insert" \in Pcs /\ "copy" \in Pcs /\ current + 1 \in Nat  BY DEF Pcs, TypeOK
    <3>3. [req[q] EXCEPT !.pc = "insert", !.version = current + 1] \in Request
      BY <1>0, <3>2, RequestFields
    <3>4. [req[q] EXCEPT !.pc = "copy"] \in Request  BY <1>0, <3>2, RequestFields
    <3> QED  BY <3>1, <3>3, <3>4
  <2>3. req' \in [Requests -> Request]  BY <2>2 DEF TypeOK
  <2>4. TypeOK'  BY <2>3 DEF TypeOK, Located, Grounded, Run
  <2>5. HeaderNamesLast'  BY DEF TypeOK, HeaderNamesLast, Located
  <2>6. RunsBindFreshVersions'
    BY DEF TypeOK, RunsBindFreshVersions, Grounded, HeaderNamesLast, Run
  <2>7. ASSUME NEW p \in Requests, p # q PROVE Located(p)' /\ Grounded(p)'
    BY <2>1, <2>7 DEF TypeOK, HeaderNamesLast, Located, Grounded
  <2>8. Located(q)'
    <3>1. CASE At(q, "update", "start")
      BY SMTT(30), <3>1 DEF TypeOK, Request, HeaderNamesLast, Located
    <3>2. CASE At(q, "rollback", "start")
      BY <3>2 DEF TypeOK, Request, HeaderNamesLast, Located
    <3> QED  BY <3>1, <3>2
  <2>9. Grounded(q)'  BY DEF TypeOK, Request, HeaderNamesLast, Located, Grounded
  <2>10. Distinct'  BY <2>1, <2>8, <2>9 DEF TypeOK, Distinct, Grounded, Located
  <2> QED  BY <2>4, <2>5, <2>6, <2>7, <2>8, <2>9, <2>10
<1>4. CASE ReadTarget(q)
  <2> USE <1>4 DEF ReadTarget
  <2>1. /\ \A p \in Requests \ {q} : req'[p] = req[p]
        /\ req'[q].kind = req[q].kind /\ req'[q].floor = req[q].floor
    BY DEF TypeOK, Request
  <2>2. req'[q] \in Request
    <3>1. CASE req[q].version \in DOMAIN versions
      <4>1. versions[req[q].version] \in Bodies  BY <3>1 DEF TypeOK
      <4>2. req'[q] = [req[q] EXCEPT !.pc = "insert", !.version = current + 1,
                                     !.body = versions[req[q].version]]
        BY <3>1 DEF TypeOK
      <4>3. "insert" \in Pcs /\ current + 1 \in Nat  BY DEF Pcs, TypeOK
      <4>4. [req[q] EXCEPT !.pc = "insert", !.version = current + 1,
                           !.body = versions[req[q].version]] \in Request
        BY <1>0, <4>1, <4>3, RequestFields
      <4> QED  BY <4>2, <4>4
    <3>2. CASE req[q].version \notin DOMAIN versions
      <4>1. req'[q] = [req[q] EXCEPT !.pc = "refused"]  BY <3>2 DEF TypeOK
      <4>2. "refused" \in Pcs  BY DEF Pcs
      <4> QED  BY ZenonT(40), <1>0, <4>1, <4>2, RequestFields
    <3> QED  BY <3>1, <3>2
  <2>3. req' \in [Requests -> Request]  BY <2>2 DEF TypeOK
  <2>4. TypeOK'  BY <2>3 DEF TypeOK, Located, Grounded, Run
  <2>5. HeaderNamesLast'  BY DEF TypeOK, HeaderNamesLast, Located
  <2>6. RunsBindFreshVersions'
    BY DEF TypeOK, RunsBindFreshVersions, Grounded, HeaderNamesLast, Run
  <2>7. ASSUME NEW p \in Requests, p # q PROVE Located(p)' /\ Grounded(p)'
    BY <2>1, <2>7 DEF TypeOK, HeaderNamesLast, Located, Grounded
  <2>8. Located(q)'  BY DEF TypeOK, Request, HeaderNamesLast, Located
  <2>9. Grounded(q)'  BY DEF TypeOK, Request, HeaderNamesLast, Located, Grounded
  <2>10. Distinct'
    <3>1. req'[q].pc # "ok"  BY DEF TypeOK, Request
    <3> QED  BY <2>1, <3>1 DEF TypeOK, Distinct
  <2> QED  BY <2>4, <2>5, <2>6, <2>7, <2>8, <2>9, <2>10
<1>5. CASE CommitVersion(q)
  <2> USE <1>5 DEF CommitVersion
  <2>1. /\ \A p \in Requests \ {q} : req'[p] = req[p]
        /\ req'[q].kind = req[q].kind /\ req'[q].floor = req[q].floor
    BY DEF TypeOK, Request
  <2>2. req'[q] \in Request
    <3>1. req'[q] = [req[q] EXCEPT !.pc = "ok"] \/ req'[q] = [req[q] EXCEPT !.pc = "refused"]
      BY DEF TypeOK
    <3> QED  BY <3>1 DEF TypeOK, Request, Pcs
  <2>3. req' \in [Requests -> Request]  BY <2>2 DEF TypeOK
  <2>4. TypeOK'
    <3>1. req[q].body \in Bodies /\ req[q].version \in Nat  BY DEF TypeOK, Request, Located
    <3>2. versions' \in Seq(Bodies)  BY <3>1 DEF TypeOK
    <3> QED  BY <2>3, <3>1, <3>2 DEF TypeOK
  <2>5. HeaderNamesLast'  BY DEF TypeOK, HeaderNamesLast, Located
  <2>6. RunsBindFreshVersions'
    BY DEF TypeOK, RunsBindFreshVersions, Grounded, HeaderNamesLast, Run
  <2>11. \A v \in DOMAIN versions : v \in DOMAIN versions' /\ versions'[v] = versions[v]
    BY DEF TypeOK
  <2>12. current' >= current /\ phase' = phase /\ lock = q /\ lock' = Nobody
    BY DEF TypeOK, Located
  <2>7. ASSUME NEW p \in Requests, p # q PROVE Located(p)' /\ Grounded(p)'
    <3>1. req'[p] = req[p] /\ req[p] \in Request  BY <2>1, <2>7 DEF TypeOK
    <3>2. Located(p)'  BY <2>12, <3>1, <2>7 DEF Located
    <3>3. Grounded(p)'  BY <2>11, <2>12, <3>1 DEF Grounded, TypeOK, Request
    <3> QED  BY <3>2, <3>3
  <2>8. Located(q)'  BY DEF TypeOK, Request, HeaderNamesLast, Located
  <2>9. Grounded(q)'
    <3>1. req'[q].pc \in {"ok", "refused"}  BY DEF TypeOK, Request
    <3>2. ASSUME req'[q].pc = "ok"
          PROVE  /\ req'[q].version = Len(versions) + 1 /\ req'[q].body = req[q].body
                 /\ versions' = Append(versions, req[q].body)
      BY <3>2 DEF TypeOK, Request, HeaderNamesLast, Located
    <3> QED  BY <3>1, <3>2 DEF Grounded, TypeOK
  <2>10. Distinct'
    <3>1. req'[q].pc = "ok" => req'[q].version = Len(versions) + 1
      BY DEF TypeOK, Request, HeaderNamesLast, Located
    <3>2. ASSUME NEW p \in Requests, p # q, phase = "LIVE",
                 req[p].pc = "ok", req[p].kind \in Changes
          PROVE  req[p].version <= Len(versions)
      BY <3>2 DEF Grounded, TypeOK
    <3>3. ASSUME NEW p \in Requests, NEW r \in Requests, p # r, phase = "LIVE",
                 req'[p].pc = "ok", req'[p].kind \in Changes,
                 req'[r].pc = "ok", req'[r].kind \in Changes
          PROVE  req'[p].version # req'[r].version
      <4>1. Len(versions) \in Nat  BY DEF TypeOK
      <4>2. CASE p = q  BY <2>1, <3>1, <3>2, <3>3, <4>1, <4>2 DEF TypeOK, Request
      <4>3. CASE r = q  BY <2>1, <3>1, <3>2, <3>3, <4>1, <4>3 DEF TypeOK, Request
      <4>4. CASE p # q /\ r # q  BY <2>1, <3>3, <4>4 DEF Distinct
      <4> QED  BY <4>2, <4>3, <4>4
    <3> QED  BY <2>12, <3>3 DEF Distinct
  <2> QED  BY <2>4, <2>5, <2>6, <2>7, <2>8, <2>9, <2>10
<1>6. CASE Delete(q)
  <2> USE <1>6 DEF Delete
  <2>1. /\ \A p \in Requests \ {q} : req'[p] = req[p]
        /\ req'[q].kind = req[q].kind /\ req'[q].floor = req[q].floor
    BY DEF TypeOK, Request
  <2>2. req'[q] \in Request  BY DEF TypeOK, Request, Pcs
  <2>3. req' \in [Requests -> Request]  BY <2>2 DEF TypeOK
  <2>4. TypeOK'  BY <2>3 DEF TypeOK, Located, Grounded, Run
  <2>5. HeaderNamesLast'  BY DEF TypeOK, HeaderNamesLast, Located
  <2>6. RunsBindFreshVersions'
    BY DEF TypeOK, RunsBindFreshVersions, Grounded, HeaderNamesLast, Run
  <2>7. ASSUME NEW p \in Requests, p # q PROVE Located(p)' /\ Grounded(p)'
    BY <2>1, <2>7 DEF TypeOK, HeaderNamesLast, Located, Grounded
  <2>8. Located(q)'  BY DEF TypeOK, Request, HeaderNamesLast, Located
  <2>9. Grounded(q)'  BY DEF TypeOK, Request, HeaderNamesLast, Located, Grounded
  <2>10. Distinct'  BY <2>1, <2>8, <2>9 DEF TypeOK, Distinct, Grounded, Located
  <2> QED  BY <2>4, <2>5, <2>6, <2>7, <2>8, <2>9, <2>10
<1>7. CASE ReadHeader(q)
  <2> USE <1>7 DEF ReadHeader
  <2>1. /\ \A p \in Requests \ {q} : req'[p] = req[p]
        /\ req'[q].kind = req[q].kind /\ req'[q].floor = req[q].floor
    BY DEF TypeOK, Request
  <2>2. req'[q] \in Request  BY DEF TypeOK, Request, Pcs
  <2>3. req' \in [Requests -> Request]  BY <2>2 DEF TypeOK
  <2>4. TypeOK'  BY <2>3 DEF TypeOK, Located, Grounded, Run
  <2>5. HeaderNamesLast'  BY DEF TypeOK, HeaderNamesLast, Located
  <2>6. RunsBindFreshVersions'
    BY DEF TypeOK, RunsBindFreshVersions, Grounded, HeaderNamesLast, Run
  <2>7. ASSUME NEW p \in Requests, p # q PROVE Located(p)' /\ Grounded(p)'
    BY <2>1, <2>7 DEF TypeOK, HeaderNamesLast, Located, Grounded
  <2>8. Located(q)'  BY DEF TypeOK, Request, HeaderNamesLast, Located
  <2>9. Grounded(q)'  BY DEF TypeOK, Request, HeaderNamesLast, Located, Grounded
  <2>10. Distinct'  BY <2>1, <2>8, <2>9 DEF TypeOK, Distinct, Grounded, Located
  <2> QED  BY <2>4, <2>5, <2>6, <2>7, <2>8, <2>9, <2>10
<1>8. CASE ReadVersion(q)
  <2> USE <1>8 DEF ReadVersion
  <2>1. /\ \A p \in Requests \ {q} : req'[p] = req[p]
        /\ req'[q].kind = req[q].kind /\ req'[q].floor = req[q].floor
    BY DEF TypeOK, Request
  <2>2. req'[q] \in Request  BY DEF TypeOK, Request, Pcs
  <2>3. req' \in [Requests -> Request]  BY <2>2 DEF TypeOK
  <2>4. TypeOK'  BY <2>3 DEF TypeOK, Located, Grounded, Run
  <2>5. HeaderNamesLast'  BY DEF TypeOK, HeaderNamesLast, Located
  <2>6. RunsBindFreshVersions'
    BY DEF TypeOK, RunsBindFreshVersions, Grounded, HeaderNamesLast, Run
  <2>7. ASSUME NEW p \in Requests, p # q PROVE Located(p)' /\ Grounded(p)'
    BY <2>1, <2>7 DEF TypeOK, HeaderNamesLast, Located, Grounded
  <2>8. Located(q)'  BY DEF TypeOK, Request, HeaderNamesLast, Located
  <2>9. Grounded(q)'  BY DEF TypeOK, Request, HeaderNamesLast, Located, Grounded
  <2>10. Distinct'  BY <2>1, <2>8, <2>9 DEF TypeOK, Distinct, Grounded, Located
  <2> QED  BY <2>4, <2>5, <2>6, <2>7, <2>8, <2>9, <2>10
<1>9. CASE ReadJoined(q)
  <2> USE <1>9 DEF ReadJoined
  <2>1. /\ \A p \in Requests \ {q} : req'[p] = req[p]
        /\ req'[q].kind = req[q].kind /\ req'[q].floor = req[q].floor
    BY DEF TypeOK, Request
  <2>2. req'[q] \in Request
    <3>1. current \in DOMAIN versions  BY DEF TypeOK, HeaderNamesLast
    <3>2. versions[current] \in Bodies  BY <3>1 DEF TypeOK
    <3> QED  BY <3>2 DEF TypeOK, Request, Pcs
  <2>3. req' \in [Requests -> Request]  BY <2>2 DEF TypeOK
  <2>4. TypeOK'  BY <2>3 DEF TypeOK, Located, Grounded, Run
  <2>5. HeaderNamesLast'  BY DEF TypeOK, HeaderNamesLast, Located
  <2>6. RunsBindFreshVersions'
    BY DEF TypeOK, RunsBindFreshVersions, Grounded, HeaderNamesLast, Run
  <2>7. ASSUME NEW p \in Requests, p # q PROVE Located(p)' /\ Grounded(p)'
    BY <2>1, <2>7 DEF TypeOK, HeaderNamesLast, Located, Grounded
  <2>8. Located(q)'  BY DEF TypeOK, Request, HeaderNamesLast, Located
  <2>9. Grounded(q)'  BY DEF TypeOK, Request, HeaderNamesLast, Located, Grounded
  <2>10. Distinct'  BY <2>1, <2>8, <2>9 DEF TypeOK, Distinct, Grounded, Located
  <2> QED  BY <2>4, <2>5, <2>6, <2>7, <2>8, <2>9, <2>10
<1>10. CASE CreateRun(q)
  <2> USE <1>10 DEF CreateRun
  <2>1. /\ \A p \in Requests \ {q} : req'[p] = req[p]
        /\ req'[q].kind = req[q].kind /\ req'[q].floor = req[q].floor
    BY DEF TypeOK, Request
  <2>2. req'[q] \in Request
    <3>1. req'[q] = [req[q] EXCEPT !.pc = "ok"] \/ req'[q] = [req[q] EXCEPT !.pc = "refused"]
      BY DEF TypeOK
    <3>2. "ok" \in Pcs /\ "refused" \in Pcs  BY DEF Pcs
    <3> QED  BY ZenonT(40), <1>0, <3>1, <3>2, RequestFields
  <2>3. req' \in [Requests -> Request]  BY <2>2 DEF TypeOK
  <2>4. TypeOK'
    <3>1. CASE phase = "LIVE"
      <4>1. req[q].version \in DOMAIN versions /\ versions[req[q].version] = req[q].body
        BY <3>1 DEF Grounded
      <4>2. Run(q, req[q].version) \in [by: Requests, version: Nat, body: Bodies, floor: Nat]
        BY <4>1 DEF Run, TypeOK, Request
      <4> QED  BY <2>3, <3>1, <4>2 DEF TypeOK
    <3>2. CASE phase # "LIVE"
      BY <2>3, <3>2 DEF TypeOK
    <3> QED  BY <3>1, <3>2
  <2>5. HeaderNamesLast'  BY DEF TypeOK, HeaderNamesLast, Located
  <2>6. RunsBindFreshVersions'
    BY DEF TypeOK, RunsBindFreshVersions, Grounded, HeaderNamesLast, Run
  <2>7. ASSUME NEW p \in Requests, p # q PROVE Located(p)' /\ Grounded(p)'
    BY <2>1, <2>7 DEF TypeOK, HeaderNamesLast, Located, Grounded
  <2>8. Located(q)'  BY DEF TypeOK, Request, HeaderNamesLast, Located
  <2>9. Grounded(q)'  BY DEF TypeOK, Request, HeaderNamesLast, Located, Grounded
  <2>10. Distinct'  BY <2>1, <2>8, <2>9 DEF TypeOK, Distinct, Grounded, Located
  <2> QED  BY <2>4, <2>5, <2>6, <2>7, <2>8, <2>9, <2>10
<1>11. CASE Abort(q)
  <2> USE <1>11 DEF Abort
  <2>1. /\ \A p \in Requests \ {q} : req'[p] = req[p]
        /\ req'[q].kind = req[q].kind /\ req'[q].floor = req[q].floor
    BY DEF TypeOK, Request
  <2>2. req'[q] \in Request  BY DEF TypeOK, Request, Pcs
  <2>3. req' \in [Requests -> Request]  BY <2>2 DEF TypeOK
  <2>4. TypeOK'  BY <2>3 DEF TypeOK, Located, Grounded, Run
  <2>5. HeaderNamesLast'  BY DEF TypeOK, HeaderNamesLast, Located
  <2>6. RunsBindFreshVersions'
    BY DEF TypeOK, RunsBindFreshVersions, Grounded, HeaderNamesLast, Run
  <2>7. ASSUME NEW p \in Requests, p # q PROVE Located(p)' /\ Grounded(p)'
    BY <2>1, <2>7 DEF TypeOK, HeaderNamesLast, Located, Grounded
  <2>8. Located(q)'  BY DEF TypeOK, Request, HeaderNamesLast, Located
  <2>9. Grounded(q)'  BY DEF TypeOK, Request, HeaderNamesLast, Located, Grounded
  <2>10. Distinct'  BY <2>1, <2>8, <2>9 DEF TypeOK, Distinct, Grounded, Located
  <2> QED  BY <2>4, <2>5, <2>6, <2>7, <2>8, <2>9, <2>10
<1>12. CASE LoseAnswer(q)
  <2> USE <1>12 DEF LoseAnswer
  <2>1. /\ \A p \in Requests \ {q} : req'[p] = req[p]
        /\ req'[q].kind = req[q].kind /\ req'[q].floor = req[q].floor
    BY DEF TypeOK, Request
  <2>2. req'[q] \in Request  BY DEF TypeOK, Request, Pcs
  <2>3. req' \in [Requests -> Request]  BY <2>2 DEF TypeOK
  <2>4. TypeOK'  BY <2>3 DEF TypeOK, Located, Grounded, Run
  <2>5. HeaderNamesLast'  BY DEF TypeOK, HeaderNamesLast, Located
  <2>6. RunsBindFreshVersions'
    BY DEF TypeOK, RunsBindFreshVersions, Grounded, HeaderNamesLast, Run
  <2>7. ASSUME NEW p \in Requests, p # q PROVE Located(p)' /\ Grounded(p)'
    BY <2>1, <2>7 DEF TypeOK, HeaderNamesLast, Located, Grounded
  <2>8. Located(q)'  BY DEF TypeOK, Request, HeaderNamesLast, Located
  <2>9. Grounded(q)'  BY DEF TypeOK, Request, HeaderNamesLast, Located, Grounded
  <2>10. Distinct'  BY <2>1, <2>8, <2>9 DEF TypeOK, Distinct, Grounded, Located
  <2> QED  BY <2>4, <2>5, <2>6, <2>7, <2>8, <2>9, <2>10
<1> QED  BY <1>1, <1>2, <1>3, <1>4, <1>5, <1>6, <1>7, <1>8, <1>9, <1>10, <1>11, <1>12 DEF RequestNext

LEMMA CreateStep ==
  ASSUME NEW b \in Bodies, ServerInv, Create(b)
  PROVE  ServerInv'
<1> USE VersionsAssumption DEF ServerInv, Create
<1>1. TypeOK'  BY DEF TypeOK
<1>2. HeaderNamesLast'  BY DEF TypeOK, HeaderNamesLast
<1>3. Distinct' /\ RunsBindFreshVersions'
  BY DEF TypeOK, HeaderNamesLast, Distinct, RunsBindFreshVersions
<1>4. ASSUME NEW q \in Requests PROVE Located(q)' /\ Grounded(q)'
  BY DEF TypeOK, HeaderNamesLast, Located, Grounded, Changes
<1> QED  BY <1>1, <1>2, <1>3, <1>4

\* A client may send a request and take the answer of one, or drop one, as long as
\* the request holds no lock.
Fresh(r) ==
  /\ phase # "NONE" /\ r.kind # "none" /\ r.pc = "start" /\ r.floor <= current
  /\ r.kind = "update" => r.body \in Bodies

LEMMA ClientStep ==
  ASSUME ServerInv, UNCHANGED server, req' \in [Requests -> Request],
         \A q \in Requests : req'[q] = req[q] \/ (lock # q /\ (req'[q] = Idle \/ Fresh(req'[q])))
  PROVE  ServerInv'
<1> USE DEF ServerInv, server
<1>1. TypeOK'  BY DEF TypeOK
<1>2. HeaderNamesLast'  BY DEF HeaderNamesLast, Idle, Fresh
<1>3. Distinct'  BY DEF Distinct, Idle, Fresh
<1>4. RunsBindFreshVersions'  BY DEF RunsBindFreshVersions
<1>5. ASSUME NEW q \in Requests PROVE Located(q)' /\ Grounded(q)'
  <2>1. CASE req'[q] = req[q]  BY <2>1 DEF Located, Grounded
  <2>2. CASE lock # q /\ req'[q] = Idle  BY <2>2 DEF Located, Grounded, Idle
  <2>3. CASE lock # q /\ Fresh(req'[q])  BY <2>3 DEF Located, Grounded, Fresh
  <2> QED  BY <2>1, <2>2, <2>3
<1> QED  BY <1>1, <1>2, <1>3, <1>4, <1>5

\* What Begin sends is fresh.
LEMMA StartedIsFresh ==
  ASSUME ServerInv, phase # "NONE",
         NEW kind \in Kinds \cup {"get"}, NEW b \in Bodies \cup {Nobody}, NEW target \in Nat,
         kind = "update" => b \in Bodies
  PROVE  Started(kind, b, target) \in Request /\ Fresh(Started(kind, b, target))
<1>1. current \in Nat  BY DEF ServerInv, TypeOK
<1>2. "start" \in Pcs  BY DEF Pcs
<1>3. kind # "none"  BY DEF Kinds
<1> QED  BY <1>1, <1>2, <1>3 DEF Started, Fresh, Request

LEMMA BeginStep ==
  ASSUME NEW q \in Requests, NEW kind \in Kinds, NEW b \in Bodies, NEW target \in Nat,
         ServerInv, Begin(q, kind, b, target)
  PROVE  ServerInv'
<1>1. \A p \in Requests \ {q} : req'[p] = req[p]
  BY DEF Begin, ServerInv, TypeOK
<1>2. req'[q] \in Request /\ Fresh(req'[q])
  BY StartedIsFresh DEF Begin, ServerInv, TypeOK
<1>3. req' \in [Requests -> Request]
  BY <1>2 DEF Begin, ServerInv, TypeOK
<1>4. lock # q
  BY DEF Begin, ServerInv, Located
<1> QED  BY <1>1, <1>2, <1>3, <1>4, ClientStep DEF Begin, server

\* requirements.md 2.8 and the numbering of versions, for the API alone: no two
\* requests are told of the same version, and a run is bound to the version its
\* request has read, current since the request came in.
THEOREM VersionsAreKept == Spec => [](NoLostUpdate /\ RunsBindFreshVersions)
<1>1. ServerInv => NoLostUpdate /\ RunsBindFreshVersions
  BY DEF ServerInv, NoLostUpdate, RunsBindFreshVersions, Grounded, Distinct, Changes
<1>2. ServerInv /\ [Next]_vars => ServerInv'
  <2> SUFFICES ASSUME ServerInv, [Next]_vars PROVE ServerInv'
    OBVIOUS
  <2>1. CASE UNCHANGED vars
    BY <2>1 DEF vars, ServerInv, TypeOK, HeaderNamesLast, Distinct, RunsBindFreshVersions, Located,
      Grounded
  <2>2. CASE Next
    BY <2>2, CreateStep, BeginStep, ServerStep DEF Next
  <2> QED  BY <2>1, <2>2
<1> QED  BY <1>1, <1>2, InitServer, PTL DEF Spec

-------------------------------------------------------------------------------
(* The page.                                                                *)

\* What a step of the server may do to the requests of the page.
Served ==
  /\ \A p \in {fetch, save} : req'[p].kind = req[p].kind /\ (Quiet(p)' <=> Quiet(p))
  /\ phase' = "NONE" => phase = "NONE"
  /\ phase' # "DELETED" => phase # "DELETED" /\ current <= current'
  /\ req'[fetch].pc \in {"version", "ok"} =>
       \/ req[fetch].pc \in {"version", "ok"} /\ req'[fetch].version = req[fetch].version
       \/ phase # "DELETED" /\ req'[fetch].version = current
  /\ req'[save].pc \in {"insert", "ok"} =>
       \/ req[save].pc \in {"insert", "ok"} /\ req'[save].version = req[save].version
       \/ phase # "DELETED" /\ req'[save].version = current + 1

LEMMA RequestServes ==
  ASSUME NEW q \in Requests, ServerInv, PageTypeOK,
         RequestNext(q) \/ RejectDefinition(q) \/ Abort(q) \/ LoseAnswer(q)
  PROVE  Served
<1>1. /\ req \in [Requests -> Request] /\ current \in Nat
      /\ \A p \in Requests : Located(p)
      /\ fetch \in Requests /\ save \in Requests /\ fetch # save
      /\ req[fetch].kind \in {"none", "get"} /\ req[save].kind \in {"none", "update"}
      /\ current = Len(versions) /\ versions \in Seq(Bodies)
  BY PageAssumption DEF ServerInv, TypeOK, PageTypeOK, HeaderNamesLast
<1> USE DEF At, Reply, Quiet, Served, Changes, Triggers
<1>2. CASE NotFound(q)
  BY <1>1, <1>2 DEF NotFound, Located, Request
<1>3. CASE RejectDefinition(q)
  BY <1>1, <1>3 DEF RejectDefinition, Located, Request
<1>4. CASE LockHeader(q)
  <2> USE <1>1, <1>4 DEF LockHeader
  <2>1. CASE q = fetch  BY <2>1 DEF Located, Request
  <2>2. CASE q = save  BY <2>2 DEF Located, Request
  <2>3. CASE q # fetch /\ q # save  BY <2>3 DEF Located
  <2> QED  BY <2>1, <2>2, <2>3
<1>5. CASE ReadTarget(q)
  BY <1>1, <1>5 DEF ReadTarget, Located, Request
<1>6. CASE CommitVersion(q)
  <2> USE <1>1, <1>6 DEF CommitVersion
  <2>1. CASE q = fetch  BY <2>1 DEF Located, Request
  <2>2. CASE q = save  BY <2>2 DEF Located, Request
  <2>3. CASE q # fetch /\ q # save  BY <2>3 DEF Located
  <2> QED  BY <2>1, <2>2, <2>3
<1>7. CASE Delete(q)
  BY <1>1, <1>7 DEF Delete, Located, Request
<1>8. CASE ReadHeader(q)
  BY <1>1, <1>8 DEF ReadHeader, Located, Request
<1>9. CASE ReadVersion(q)
  <2> USE <1>1, <1>9 DEF ReadVersion
  <2>1. CASE q = fetch  BY <2>1 DEF Located, Request
  <2>2. CASE q = save  BY <2>2 DEF Located, Request
  <2>3. CASE q # fetch /\ q # save  BY <2>3 DEF Located
  <2> QED  BY <2>1, <2>2, <2>3
<1>10. CASE ReadJoined(q)
  BY <1>1, <1>10 DEF ReadJoined, Located, Request
<1>11. CASE CreateRun(q)
  <2> USE <1>1, <1>11 DEF CreateRun
  <2>1. CASE q = fetch  BY <2>1 DEF Located, Request
  <2>2. CASE q = save  BY <2>2 DEF Located, Request
  <2>3. CASE q # fetch /\ q # save  BY <2>3 DEF Located
  <2> QED  BY <2>1, <2>2, <2>3
<1>12. CASE Abort(q)
  BY <1>1, <1>12 DEF Abort, Located, Request
<1>13. CASE LoseAnswer(q)
  BY <1>1, <1>13 DEF LoseAnswer, Located, Request
<1> QED  BY <1>2, <1>3, <1>4, <1>5, <1>6, <1>7, <1>8, <1>9, <1>10, <1>11, <1>12, <1>13 DEF RequestNext

LEMMA OthersServe ==
  ASSUME ServerInv, PageTypeOK, Others
  PROVE  ServerInv' /\ Served
<1>1. ASSUME NEW q \in Requests,
             RequestNext(q) \/ RejectDefinition(q) \/ Abort(q) \/ LoseAnswer(q)
      PROVE  ServerInv' /\ Served
  BY <1>1, ServerStep, RequestServes
<1>2. CASE Create(Blank)
  <2>1. ServerInv'  BY <1>2, CreateStep, PageAssumption
  <2>2. current \in Nat /\ (phase = "NONE" => current = 0)
    BY DEF ServerInv, TypeOK, HeaderNamesLast
  <2> QED  BY <1>2, <2>1, <2>2 DEF Create, Served, Quiet
<1>3. ASSUME NEW q \in DOMAIN KindsOf, NEW kind \in KindsOf[q], NEW b \in Bodies,
             NEW target \in 0..2, Begin(q, kind, b, target)
      PROVE  ServerInv' /\ Served
  <2>1. q \in Requests \ {fetch, save} /\ kind \in Kinds /\ target \in Nat
    BY PageAssumption
  <2>2. ServerInv'  BY <1>3, <2>1, BeginStep
  <2>3. \A p \in {fetch, save} : req'[p] = req[p]
    BY <1>3, <2>1, PageAssumption DEF Begin, ServerInv, TypeOK
  <2> QED  BY <1>3, <2>2, <2>3 DEF Begin, Served, Quiet, ServerInv, TypeOK
<1> QED  BY <1>1, <1>2, <1>3, PageAssumption DEF Others

LEMMA OthersKeepPage ==
  ASSUME ServerInv, PageInv, Others, UNCHANGED page
  PROVE  PageInv'
<1>1. Served  BY OthersServe DEF PageInv
<1>2. /\ current \in Nat /\ workflow.version \in Nat /\ saved \in Nat
      /\ req[save].version \in Nat
  BY PageAssumption DEF ServerInv, TypeOK, Request, PageInv, PageTypeOK
<1>3. PageTypeOK'
  BY <1>1 DEF PageInv, PageTypeOK, Served, page, editor, Loaded
<1>4. /\ workflow' = workflow /\ saved' = saved /\ failed' = failed /\ dirty' = dirty
      /\ jsonText' = jsonText /\ parsedSteps' = parsedSteps /\ isEditing' = isEditing
  BY DEF page, editor
<1>5. /\ current' \in Nat /\ req'[fetch].version \in Nat /\ req[fetch].version \in Nat
      /\ req'[save].version \in Nat
  BY <1>1, OthersServe, PageAssumption DEF ServerInv, TypeOK, Request, PageInv
<1>6. phase' = "NONE" => ~Loaded' /\ ~failed'
  BY <1>4, <1>1 DEF PageInv, Served, Loaded
<1>7. phase' # "DELETED" => workflow'.version <= current' /\ saved' <= current'
  BY <1>4, <1>5, <1>1, <1>2 DEF PageInv, Served
<1>8. req'[fetch].pc \in {"version", "ok"} =>
        /\ saved' <= req'[fetch].version
        /\ phase' # "DELETED" => req'[fetch].version <= current'
  BY <1>4, <1>5, <1>1, <1>2 DEF PageInv, Served
<1>9. (Visible /\ Quiet(fetch))' => saved' <= workflow'.version
  BY <1>4, <1>1 DEF PageInv, Served, Visible, Loaded
<1>10. (Loaded /\ ~dirty)' => (Synced \/ Sent)'
  BY <1>4, <1>5, <1>1, <1>2 DEF PageInv, Served, Loaded, Synced, Sent
<1>11. req'[save].pc \in {"insert", "ok"} => saved' < req'[save].version
  BY <1>1, <1>2, <1>4, <1>5 DEF PageInv, Served
<1> QED  BY <1>3, <1>6, <1>7, <1>8, <1>9, <1>10, <1>11 DEF PageInv

\* The actions of the page that send a request or take an answer.
LEMMA PageRequests ==
  ASSUME ServerInv, PageInv,
         Open \/ Reconnect \/ Show \/ ShowError \/ Save \/ OnSuccess \/ OnError
  PROVE  ServerInv'
<1>1. /\ req \in [Requests -> Request] /\ fetch \in Requests /\ save \in Requests /\ fetch # save
      /\ lock # fetch /\ (req[save].pc \in {"idle", "ok", "refused"} => lock # save)
  BY PageAssumption DEF ServerInv, TypeOK, PageInv, PageTypeOK, Located, Changes
<1>2. Idle \in Request  BY DEF Idle, Request, Pcs
<1>3. ASSUME phase # "NONE" PROVE StartFetch \in Request /\ Fresh(StartFetch)
  BY <1>3, StartedIsFresh DEF StartFetch
<1>4. UNCHANGED server
  BY DEF Open, Reconnect, Show, ShowError, Save, OnSuccess, OnError, server
<1>5. CASE Open \/ Reconnect
  <2>1. phase # "NONE" /\ req' = [req EXCEPT ![fetch] = StartFetch]
    BY <1>5 DEF Open, Reconnect, PageInv
  <2> QED  BY <1>1, <1>3, <1>4, <2>1, ClientStep
<1>6. CASE Show \/ ShowError
  <2>1. req' = [req EXCEPT ![fetch] = Idle]  BY <1>6 DEF Show, ShowError
  <2> QED  BY <1>1, <1>2, <1>4, <2>1, ClientStep
<1>7. CASE Save
  <2>1. phase # "NONE" /\ jsonText \in Bodies /\ lock # save
    BY <1>1, <1>7 DEF Save, CanSave, Visible, Quiet, PageInv, PageTypeOK
  <2>2. Started("update", jsonText, 0) \in Request /\ Fresh(Started("update", jsonText, 0))
    BY <2>1, StartedIsFresh DEF Kinds
  <2> QED  BY <1>1, <1>4, <1>7, <2>1, <2>2, ClientStep DEF Save
<1>8. CASE OnSuccess
  <2>1. phase # "NONE" /\ req' = [req EXCEPT ![save] = Idle, ![fetch] = StartFetch]
    BY <1>1, <1>8 DEF OnSuccess, Invalidate, ServerInv, HeaderNamesLast
  <2>2. lock # save  BY <1>1, <1>8 DEF OnSuccess
  <2>3. req' \in [Requests -> Request]  BY <1>1, <1>2, <1>3, <2>1
  <2> QED  BY <1>1, <1>2, <1>3, <1>4, <2>1, <2>2, <2>3, ClientStep
<1>9. CASE OnError
  <2>1. req' = [req EXCEPT ![save] = Idle] /\ lock # save  BY <1>1, <1>9 DEF OnError
  <2> QED  BY <1>1, <1>2, <1>4, <2>1, ClientStep
<1> QED  BY <1>5, <1>6, <1>7, <1>8, <1>9

\* An answer to the page: what it has shown or saved is a version of the workflow.
LEMMA AnswersKeepPage ==
  ASSUME ServerInv, PageInv, Show \/ ShowError \/ OnSuccess \/ OnError
  PROVE  PageInv'
<1>1. /\ req \in [Requests -> Request] /\ fetch \in Requests /\ save \in Requests /\ fetch # save
      /\ Located(fetch) /\ Located(save) /\ Grounded(save)
      /\ current \in Nat /\ workflow.version \in Nat /\ saved \in Nat
      /\ req[fetch].version \in Nat /\ req[save].version \in Nat
      /\ current = Len(versions) /\ versions \in Seq(Bodies)
      /\ phase \in {"NONE", "LIVE", "DELETED"}
      /\ phase = "NONE" => req[fetch].pc = "idle" /\ req[save].pc = "idle"
  BY PageAssumption DEF ServerInv, TypeOK, Request, HeaderNamesLast, PageInv, PageTypeOK
<1> USE DEF server, editor, page, Quiet, Idle
<1>2. CASE Show
  <2>1. /\ req'[fetch] = Idle /\ req'[save] = req[save] /\ phase' = phase /\ current' = current
        /\ workflow' = [version |-> req[fetch].version, body |-> req[fetch].body]
        /\ req[fetch].pc = "ok" /\ saved' = saved /\ isEditing' = isEditing
    BY <1>1, <1>2 DEF Show
  <2>2. req[fetch].kind = "get" /\ req[fetch].body \in Bodies /\ req[fetch].version > 0
    BY <1>1, <2>1 DEF PageInv, PageTypeOK, Located
  <2>3. PageTypeOK'
    <3>1. /\ workflow' \in [version: Nat, body: Bodies \cup {Nobody}]
          /\ workflow'.body \in Bodies
      BY <1>1, <2>1, <2>2
    <3>2. jsonText' \in Bodies \cup {Malformed} /\ failed' \in BOOLEAN /\ dirty' \in BOOLEAN
      BY <1>2, <2>2 DEF Show, PageInv, PageTypeOK, Sync
    <3> QED  BY <1>2, <2>1, <3>1, <3>2 DEF Show, PageInv, PageTypeOK
  <2>4. (Loaded /\ ~dirty)' => (Synced \/ Sent)'
    BY <1>1, <1>2, <2>1, <2>2 DEF Show, PageInv, Loaded, Synced, Sent, Sync
  <2> QED  BY <1>1, <2>1, <2>3, <2>4 DEF PageInv, Loaded, Visible
<1>3. CASE ShowError
  BY <1>1, <1>3 DEF ShowError, PageInv, PageTypeOK, Visible, Loaded, Synced, Sent
<1>4. CASE OnSuccess
  <2>1. /\ req'[fetch] = StartFetch /\ req'[save] = Idle /\ req[save].pc = "ok"
        /\ saved' = req[save].version /\ workflow' = workflow
    BY <1>1, <1>4 DEF OnSuccess, Invalidate
  <2>2. req[save].kind = "update"  BY <1>1, <2>1 DEF PageInv, PageTypeOK, Located
  <2>3. phase # "DELETED" => phase' # "DELETED" /\ req[save].version <= current /\ current' = current
    BY <1>1, <1>4, <2>1, <2>2 DEF OnSuccess, Grounded, Changes
  <2>4. PageTypeOK'
    <3>1. saved' \in Nat /\ req'[fetch].kind = "get" /\ req'[save].kind = "none"
      BY <1>1, <2>1 DEF Started, StartFetch
    <3>2. /\ jsonText' = jsonText /\ failed' = failed /\ dirty' = dirty
          /\ isEditing' = FALSE /\ jsonError' = FALSE
      BY <1>4 DEF OnSuccess
    <3> QED  BY <2>1, <3>1, <3>2 DEF PageInv, PageTypeOK, Loaded
  <2>5. (Loaded /\ ~dirty)' => (Synced \/ Sent)'
    <3>1. /\ jsonText' = jsonText /\ parsedSteps' = parsedSteps /\ dirty' = dirty
          /\ isEditing' = FALSE
      BY <1>4 DEF OnSuccess
    <3>2. CASE workflow.version < req[save].version  BY <2>1, <3>2 DEF Sent
    <3>3. CASE ~(workflow.version < req[save].version)
      <4>1. ~(workflow.version < saved)  BY <1>1, <2>1, <3>3 DEF PageInv
      <4> QED  BY <2>1, <3>1, <3>3, <4>1 DEF PageInv, Loaded, Synced, Sent
    <3> QED  BY <3>2, <3>3
  <2>6. phase' = phase /\ failed' = failed  BY <1>4 DEF OnSuccess
  <2> QED
    BY <1>1, <2>1, <2>3, <2>4, <2>5, <2>6 DEF Started, StartFetch, PageInv, Loaded, Visible
<1>5. CASE OnError
  BY <1>1, <1>5 DEF OnError, PageInv, PageTypeOK, Visible, Loaded, Synced, Sent
<1> QED  BY <1>2, <1>3, <1>4, <1>5

LEMMA EditsKeepPage ==
  ASSUME ServerInv, PageInv,
         \/ Open \/ Reconnect \/ Edit \/ CancelEdit \/ Save \/ SaveMalformed
         \/ \E t \in Bodies \cup {Malformed} : Type(t)
  PROVE  PageInv'
<1>1. /\ req \in [Requests -> Request] /\ fetch \in Requests /\ save \in Requests /\ fetch # save
      /\ current \in Nat /\ workflow.version \in Nat /\ saved \in Nat
  BY PageAssumption DEF ServerInv, TypeOK, PageInv, PageTypeOK
<1> USE <1>1 DEF server, vars, editor, PageInv, PageTypeOK, Quiet, Visible, Loaded, Synced, Sent
<1>2. CASE Open  BY <1>2 DEF Open, page, StartFetch, Started
<1>3. CASE Reconnect  BY <1>3 DEF Reconnect, StartFetch, Started
<1>4. CASE Edit  BY <1>4 DEF Edit
<1>5. CASE CancelEdit  BY <1>5 DEF CancelEdit, Sync
<1>6. CASE Save  BY <1>6 DEF Save, CanSave, Started
<1>7. CASE SaveMalformed  BY <1>7 DEF SaveMalformed, CanSave
<1>8. ASSUME NEW t \in Bodies \cup {Malformed}, Type(t) PROVE PageInv'
  BY <1>8 DEF Type
<1> QED  BY <1>2, <1>3, <1>4, <1>5, <1>6, <1>7, <1>8

LEMMA PageStep == ServerInv /\ PageInv /\ [PageNext]_<<vars, page>> => ServerInv' /\ PageInv'
<1> SUFFICES ASSUME ServerInv, PageInv, [PageNext]_<<vars, page>>
             PROVE  ServerInv' /\ PageInv'
  OBVIOUS
<1>1. ASSUME UNCHANGED vars PROVE ServerInv'
  BY <1>1 DEF vars, ServerInv, TypeOK, HeaderNamesLast, Distinct, RunsBindFreshVersions, Located,
    Grounded
<1>2. CASE UNCHANGED <<vars, page>>
  BY <1>1, <1>2 DEF vars, page, editor, PageInv, PageTypeOK, Loaded, Visible, Quiet, Synced, Sent
<1>3. CASE Others /\ UNCHANGED page
  BY <1>3, OthersServe, OthersKeepPage DEF PageInv
<1>4. CASE Open \/ Reconnect \/ Save
  BY <1>4, PageRequests, EditsKeepPage
<1>5. CASE Answered
  BY <1>5, PageRequests, AnswersKeepPage DEF Answered
<1>6. CASE Edit \/ CancelEdit \/ SaveMalformed \/ \E t \in Bodies \cup {Malformed} : Type(t)
  <2>1. UNCHANGED vars  BY <1>6 DEF Edit, CancelEdit, SaveMalformed, Type
  <2> QED  BY <1>1, <1>6, <2>1, EditsKeepPage
<1> QED  BY <1>2, <1>3, <1>4, <1>5, <1>6 DEF PageNext

LEMMA InitPage == PageInit => Init /\ PageInv
<1> SUFFICES ASSUME PageInit PROVE Init /\ PageInv
  OBVIOUS
<1>0. Init  BY DEF PageInit
<1>1. req[fetch] = Idle /\ req[save] = Idle  BY <1>0, PageAssumption DEF Init
<1>2. workflow.version = 0 /\ workflow \in [version: Nat, body: Bodies \cup {Nobody}]
  BY DEF PageInit
<1>3. /\ jsonText = Malformed /\ saved = 0
      /\ failed = FALSE /\ dirty = FALSE /\ isEditing = FALSE /\ jsonError = FALSE
  BY DEF PageInit
<1>4. req[fetch].kind = "none" /\ req[save].kind = "none"  BY <1>1 DEF Idle
<1>5. ~Loaded  BY <1>2 DEF Loaded
<1>6. PageTypeOK  BY <1>2, <1>3, <1>4, <1>5 DEF PageTypeOK
<1> QED  BY <1>0, <1>1, <1>2, <1>3, <1>5, <1>6 DEF Init, Idle, PageInv, Visible

\* A page that waits for nothing shows the version it was told it has saved, or a
\* newer one, and its definition unless something was typed after the Save button
\* was pressed: whatever the other clients do and whenever the page refetches.
THEOREM PageShowsWhatItSaved == PageSpec => []SettledPageShowsVersion
<1>1. ServerInv /\ PageInv => SettledPageShowsVersion
  BY DEF PageInv, PageTypeOK, SettledPageShowsVersion, Visible, Quiet, Synced, Sent, Loaded
<1> QED  BY <1>1, InitServer, InitPage, PageStep, PTL DEF PageSpec

\* The versions are kept with the page among the clients too.
THEOREM PageKeepsVersions == PageSpec => [](NoLostUpdate /\ RunsBindFreshVersions)
<1>1. ServerInv => NoLostUpdate /\ RunsBindFreshVersions
  BY DEF ServerInv, NoLostUpdate, RunsBindFreshVersions, Grounded, Distinct, Changes
<1> QED  BY <1>1, InitServer, InitPage, PageStep, PTL DEF PageSpec

=============================================================================
