------------------------------- MODULE Realtime -------------------------------
(***************************************************************************)
(* The realtime hub between Redis and the run pages of the browser.  A run *)
(* changes in Postgres and an event is published on a Redis channel, in    *)
(* either order; the hub sends each event to the sockets of the tenant     *)
(* that are subscribed to the run or to nothing; a page answers an event   *)
(* about its run by fetching the run again.                                *)
(***************************************************************************)
EXTENDS Naturals, Sequences, SequencesExt

CONSTANTS
  Runs, Pages, Conns, NoPage,
  TenantOf,     \* the tenant of every run and of the token of every page
  RunOf,        \* the run whose address a page was opened at
  MaxStatus,    \* how often a run changes
  MaxFaults,    \* events lost by Redis and transactions rolled back
  Restless      \* clients that also unsubscribe

ASSUME RealtimeAssumption ==
  /\ DOMAIN TenantOf = Runs \cup Pages
  /\ RunOf \in [Pages -> Runs] /\ Restless \subseteq Pages /\ NoPage \notin Pages
  /\ MaxStatus \in Nat /\ MaxFaults \in Nat

VARIABLES
  status,       \* the changes of each run that are committed
  txn,          \* the change in progress: nothing, published or committed first
  channel,      \* events Redis has not yet handed to the hub
  conn,         \* the sockets: whose, and what the client and the hub know
  connections,  \* SubscriptionManager.connections
  inbox,        \* events sent to a socket and not yet handled by its page
  fetch,        \* the request of a page for its run, with the status it read
  view,         \* the status a page shows
  faults

hub == <<channel, conn, connections, inbox>>
runs == <<status, txn, faults>>
vars == <<runs, hub, fetch, view>>

Unknown == MaxStatus + 1
Event(r) == [run |-> r, n |-> status[r] + 1]
Unused ==
  [page |-> NoPage, open |-> FALSE, closed |-> FALSE, asks |-> {}, checks |-> {},
   subscribed_runs |-> {}]

Init ==
  /\ status = [r \in Runs |-> 0] /\ txn = [r \in Runs |-> "none"]
  /\ channel = <<>>
  /\ conn = [c \in Conns |-> Unused] /\ connections = {}
  /\ inbox = [c \in Conns |-> <<>>]
  /\ fetch = [p \in Pages |-> [pc |-> "sent", value |-> 0]] /\ view = [p \in Pages |-> Unknown]
  /\ faults = 0

-------------------------------------------------------------------------------
(* A change of a run and its event.                                         *)

\* publishEvent; Redis keeps nothing for a hub that is not listening.
PublishEvent(r, e) ==
  \/ channel' = Append(channel, e) /\ UNCHANGED faults
  \/ faults < MaxFaults /\ faults' = faults + 1 /\ UNCHANGED channel

\* The orchestrator publishes inside its transaction ...
PublishThenCommit(r) ==
  /\ txn[r] = "none" /\ status[r] < MaxStatus
  /\ txn' = [txn EXCEPT ![r] = "published"]
  /\ PublishEvent(r, Event(r))
  /\ UNCHANGED <<status, conn, connections, inbox, fetch, view>>

Commit(r) ==
  /\ txn[r] = "published"
  /\ txn' = [txn EXCEPT ![r] = "none"]
  /\ \/ status' = [status EXCEPT ![r] = @ + 1] /\ UNCHANGED faults
     \/ faults < MaxFaults /\ faults' = faults + 1 /\ UNCHANGED status
  /\ UNCHANGED <<hub, fetch, view>>

\* ... the worker, the API and the timeout scanner after a statement that has
\* committed by itself.
CommitThenPublish(r) ==
  /\ txn[r] = "none" /\ status[r] < MaxStatus
  /\ txn' = [txn EXCEPT ![r] = "committed"]
  /\ status' = [status EXCEPT ![r] = @ + 1]
  /\ UNCHANGED <<faults, hub, fetch, view>>

Publish(r) ==
  /\ txn[r] = "committed"
  /\ txn' = [txn EXCEPT ![r] = "none"]
  /\ PublishEvent(r, [run |-> r, n |-> status[r]])
  /\ UNCHANGED <<status, conn, connections, inbox, fetch, view>>

-------------------------------------------------------------------------------
(* The hub.                                                                 *)

\* broadcast: a socket without any subscription gets all events of its tenant.
Receivers(e) ==
  {c \in connections :
     /\ TenantOf[conn[c].page] = TenantOf[e.run]
     /\ conn[c].subscribed_runs = {} \/ e.run \in conn[c].subscribed_runs}

Broadcast ==
  /\ channel # <<>>
  /\ channel' = Tail(channel)
  /\ inbox' = [c \in Conns |->
       IF c \in Receivers(Head(channel)) /\ conn[c].open
       THEN Append(inbox[c], Head(channel)) ELSE inbox[c]]
  /\ UNCHANGED <<runs, conn, connections, fetch, view>>

\* The hub takes a subscribe message and queries who owns the run.
Subscribe(c) ==
  \E r \in conn[c].asks :
    /\ ~conn[c].closed
    /\ conn' = [conn EXCEPT ![c].asks = @ \ {r}, ![c].checks = @ \cup {r}]
    /\ UNCHANGED <<runs, channel, connections, inbox, fetch, view>>

\* Mutants: any run may be subscribed to; the connection is registered again.
OwnershipUnchecked(c) ==
  \E r \in conn[c].checks :
    /\ conn' = [conn EXCEPT ![c].checks = @ \ {r}, ![c].subscribed_runs = @ \cup {r}]
    /\ UNCHANGED <<runs, channel, connections, inbox, fetch, view>>

OwnershipRegisters(c) ==
  \E r \in conn[c].checks :
    /\ conn' = [conn EXCEPT ![c].checks = @ \ {r}, ![c].subscribed_runs = @ \cup {r}]
    /\ connections' = connections \cup {c}
    /\ UNCHANGED <<runs, channel, inbox, fetch, view>>

\* The query returns, also after the socket has closed: the run is added when
\* it is the tenant's, and the answer is run_not_found when it is not.
OwnershipChecked(c) ==
  \E r \in conn[c].checks :
    /\ conn' = [conn EXCEPT ![c].checks = @ \ {r},
         ![c].subscribed_runs = IF TenantOf[r] = TenantOf[conn[c].page] THEN @ \cup {r} ELSE @]
    /\ UNCHANGED <<runs, channel, connections, inbox, fetch, view>>

Unsubscribe(c) ==
  /\ ~conn[c].closed /\ conn[c].page \in Restless
  /\ \E r \in conn[c].subscribed_runs :
       conn' = [conn EXCEPT ![c].subscribed_runs = @ \ {r}]
  /\ UNCHANGED <<runs, channel, connections, inbox, fetch, view>>

\* The close event, which a dead peer reaches by the heartbeat; it comes once.
Unregister(c) ==
  /\ conn[c].page # NoPage /\ ~conn[c].open /\ ~conn[c].closed
  /\ connections' = connections \ {c}
  /\ conn' = [conn EXCEPT ![c].closed = TRUE]
  /\ UNCHANGED <<runs, channel, inbox, fetch, view>>

-------------------------------------------------------------------------------
(* The page.                                                                *)

Connected(p) == \E c \in Conns : conn[c].page = p /\ conn[c].open

\* A socket opens and the page subscribes to its run.  Nothing is fetched.
Connect(p, c) ==
  /\ ~Connected(p) /\ conn[c] = Unused
  /\ conn' = [conn EXCEPT ![c].page = p, ![c].open = TRUE, ![c].asks = {RunOf[p]}]
  /\ connections' = connections \cup {c}
  /\ UNCHANGED <<runs, channel, inbox, fetch, view>>

\* The client's end goes; the hub learns of it later.
Disconnect(c) ==
  /\ conn[c].open
  /\ conn' = [conn EXCEPT ![c].open = FALSE]
  /\ inbox' = [inbox EXCEPT ![c] = <<>>]
  /\ UNCHANGED <<runs, channel, connections, fetch, view>>

\* Mutant: a fetch under way is good enough.
RefetchWhenIdle(p) ==
  fetch' = IF fetch[p].pc # "none" THEN fetch ELSE [fetch EXCEPT ![p].pc = "sent"]

\* onmessage invalidates the query of the run.  A fetch under way is dropped and
\* sent again, except the first one, which goes on.
Refetch(p) ==
  fetch' = IF view[p] = Unknown /\ fetch[p].pc # "none" THEN fetch
           ELSE [fetch EXCEPT ![p].pc = "sent"]

OnMessage(c) ==
  /\ inbox[c] # <<>>
  /\ inbox' = [inbox EXCEPT ![c] = Tail(@)]
  /\ IF Head(inbox[c]).run = RunOf[conn[c].page]
     THEN Refetch(conn[c].page) ELSE UNCHANGED fetch
  /\ UNCHANGED <<runs, channel, conn, connections, view>>

\* GET /runs/:id reads the row, if it is the tenant's ...
ReadRun(p) ==
  /\ fetch[p].pc = "sent"
  /\ fetch' = [fetch EXCEPT ![p] =
       IF TenantOf[p] = TenantOf[RunOf[p]] THEN [pc |-> "read", value |-> status[RunOf[p]]]
       ELSE [@ EXCEPT !.pc = "none"]]
  /\ UNCHANGED <<runs, hub, view>>

\* ... and its answer is shown.
Show(p) ==
  /\ fetch[p].pc = "read"
  /\ view' = [view EXCEPT ![p] = fetch[p].value]
  /\ fetch' = [fetch EXCEPT ![p].pc = "none"]
  /\ UNCHANGED <<runs, hub>>

-------------------------------------------------------------------------------

Change(r) == PublishThenCommit(r) \/ CommitThenPublish(r)
Finish(r) == Commit(r) \/ Publish(r)
Serve(c) == Subscribe(c) \/ OwnershipChecked(c) \/ Unregister(c)

Next ==
  \/ \E r \in Runs : Change(r) \/ Finish(r)
  \/ Broadcast
  \/ \E c \in Conns : Serve(c) \/ Unsubscribe(c) \/ Disconnect(c) \/ OnMessage(c)
  \/ \E p \in Pages : ReadRun(p) \/ Show(p) \/ \E c \in Conns : Connect(p, c)

Spec == Init /\ [][Next]_vars

\* The processes run on and the page reconnects after three seconds; nobody
\* owes a change of a run, an unsubscription or a disconnection.
Fairness ==
  /\ \A r \in Runs : WF_vars(Finish(r))
  /\ WF_vars(Broadcast)
  /\ \A c \in Conns :
       WF_vars(Subscribe(c)) /\ WF_vars(OwnershipChecked(c)) /\ WF_vars(Unregister(c))
         /\ WF_vars(OnMessage(c))
  /\ \A p \in Pages :
       WF_vars(ReadRun(p)) /\ WF_vars(Show(p)) /\ WF_vars(\E c \in Conns : Connect(p, c))

FairSpec == Spec /\ Fairness

-------------------------------------------------------------------------------

Events == [run: Runs, n: 1..MaxStatus]

\* Every variable keeps its type.
TypeOK ==
  /\ status \in [Runs -> 0..MaxStatus] /\ txn \in [Runs -> {"none", "published", "committed"}]
  /\ channel \in Seq(Events) /\ inbox \in [Conns -> Seq(Events)]
  /\ connections \subseteq Conns
  /\ conn \in [Conns -> [page: Pages \cup {NoPage}, open: BOOLEAN, closed: BOOLEAN,
                         asks: SUBSET Runs, checks: SUBSET Runs, subscribed_runs: SUBSET Runs]]
  /\ fetch \in [Pages -> [pc: {"none", "sent", "read"}, value: 0..MaxStatus]]
  /\ view \in [Pages -> 0..Unknown] /\ faults \in 0..MaxFaults

\* design.md property 9: no event, and no subscription, crosses the tenants,
\* whatever run a page is opened at and however late its check returns.
TenantsAreIsolated ==
  \A c \in Conns :
    conn[c].page # NoPage =>
      \A r \in conn[c].subscribed_runs \cup {e.run : e \in ToSet(inbox[c])} :
        TenantOf[r] = TenantOf[conn[c].page]

\* The hub keeps no socket whose close event it has handled, although an
\* ownership check of it may return later: nobody would ever remove it again.
ClosedSocketsAreForgotten ==
  \A c \in Conns : conn[c].closed => c \notin connections

\* An event that reaches a page which shows its run makes the page show a state
\* no older than the one before the event, even if a fetch was under way.
PageLagsByOneAtMost ==
  \A c \in Conns, n \in 2..MaxStatus : \A p \in {p \in Pages : TenantOf[p] = TenantOf[RunOf[p]]} :
    /\ conn[c].page = p /\ inbox[c] # <<>> /\ view[p] # Unknown
    /\ Head(inbox[c]) = [run |-> RunOf[p], n |-> n]
    ~> view[p] >= n - 1 \/ ~conn[c].open

=============================================================================
