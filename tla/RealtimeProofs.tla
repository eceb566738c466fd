---------------------------- MODULE RealtimeProofs ----------------------------
(***************************************************************************)
(* The hub, proved for any number of tenants, runs, pages and sockets: no  *)
(* subscription and no event crosses the tenants, and a socket whose close *)
(* event was handled is never in the hub again.                            *)
(* Its heartbeat, proved for every interval and timeout, comes last.       *)
(*                                                                         *)
(* What makes both inductive is that the page of a socket never changes,   *)
(* that a socket which nobody has opened has nothing, and that only the    *)
(* opening of a socket registers it: a check that returns late adds a run  *)
(* to a record the hub no longer holds.                                    *)
(***************************************************************************)
EXTENDS Realtime, Heartbeat, TLAPS

Socket ==
  [page: Pages \cup {NoPage}, open: BOOLEAN, closed: BOOLEAN,
   asks: SUBSET Runs, checks: SUBSET Runs, subscribed_runs: SUBSET Runs]

\* A change in progress is one the run still has, and one it has made.
ChangeInv ==
  \A r \in Runs :
    /\ txn[r] = "published" => status[r] < MaxStatus
    /\ txn[r] = "committed" => status[r] > 0

\* A socket nobody has opened.
UnopenedInv ==
  \A c \in Conns : conn[c].page = NoPage =>
    conn[c] = Unused /\ inbox[c] = <<>> /\ c \notin connections

\* The runs of which a socket has heard or will hear are its tenant's.
SocketInv ==
  \A c \in Conns : conn[c].page # NoPage =>
    /\ \A r \in conn[c].subscribed_runs : TenantOf[r] = TenantOf[conn[c].page]
    /\ \A i \in 1..Len(inbox[c]) : TenantOf[inbox[c][i].run] = TenantOf[conn[c].page]

HubInv == TypeOK /\ ChangeInv /\ UnopenedInv /\ SocketInv /\ ClosedSocketsAreForgotten

-------------------------------------------------------------------------------

LEMMA Initially == Init => HubInv
<1> SUFFICES ASSUME Init PROVE HubInv
  OBVIOUS
<1>1. TypeOK
  BY RealtimeAssumption DEF Init, TypeOK, Unused, Unknown
<1>2. ChangeInv /\ UnopenedInv /\ SocketInv /\ ClosedSocketsAreForgotten
  BY DEF Init, ChangeInv, UnopenedInv, SocketInv, ClosedSocketsAreForgotten, Unused
<1> QED  BY <1>1, <1>2 DEF HubInv

\* A change of a run and its event touch nothing of the sockets.
LEMMA ChangesKeep ==
  ASSUME HubInv, NEW r \in Runs, Change(r) \/ Finish(r)
  PROVE  HubInv'
<1> USE RealtimeAssumption DEF HubInv
<1>1. UNCHANGED <<conn, connections, inbox, fetch, view>>
  BY DEF Change, Finish, PublishThenCommit, Commit, CommitThenPublish, Publish, hub
<1>2. UnopenedInv' /\ SocketInv' /\ ClosedSocketsAreForgotten'
  BY <1>1 DEF UnopenedInv, SocketInv, ClosedSocketsAreForgotten, Unused
<1>3. status \in [Runs -> 0..MaxStatus] /\ txn \in [Runs -> {"none", "published", "committed"}]
      /\ channel \in Seq(Events) /\ faults \in 0..MaxFaults
  BY DEF TypeOK
<1>4. ASSUME NEW e \in Events, PublishEvent(r, e)
      PROVE  channel' \in Seq(Events) /\ faults' \in 0..MaxFaults
  <2>1. Append(channel, e) \in Seq(Events)  BY <1>3
  <2>2. CASE channel' = Append(channel, e) /\ UNCHANGED faults  BY <1>3, <2>1, <2>2
  <2>3. CASE faults < MaxFaults /\ faults' = faults + 1 /\ UNCHANGED channel  BY <1>3, <2>3
  <2> QED  BY <1>4, <2>2, <2>3 DEF PublishEvent
<1>5. /\ status' \in [Runs -> 0..MaxStatus] /\ txn' \in [Runs -> {"none", "published", "committed"}]
      /\ channel' \in Seq(Events) /\ faults' \in 0..MaxFaults
      /\ ChangeInv'
  <2>1. CASE PublishThenCommit(r)
    <3>1. Event(r) \in Events  BY <1>3, <2>1 DEF PublishThenCommit, Event, Events
    <3>2. channel' \in Seq(Events) /\ faults' \in 0..MaxFaults
      BY <1>4, <2>1, <3>1 DEF PublishThenCommit
    <3> QED  BY <1>3, <2>1, <3>2 DEF PublishThenCommit, ChangeInv
  <2>2. CASE Commit(r)
    <3>1. channel' = channel /\ txn[r] = "published" /\ txn' = [txn EXCEPT ![r] = "none"]
      BY <2>2 DEF Commit, hub
    <3>2. CASE status' = [status EXCEPT ![r] = @ + 1] /\ UNCHANGED faults
      <4>1. status[r] + 1 \in 0..MaxStatus  BY <1>3, <3>1 DEF ChangeInv
      <4> QED  BY <1>3, <3>1, <3>2, <4>1 DEF ChangeInv
    <3>3. CASE faults < MaxFaults /\ faults' = faults + 1 /\ UNCHANGED status
      BY <1>3, <3>1, <3>3 DEF ChangeInv
    <3> QED  BY <2>2, <3>2, <3>3 DEF Commit
  <2>3. CASE CommitThenPublish(r)
    BY <1>3, <2>3 DEF CommitThenPublish, ChangeInv, hub
  <2>4. CASE Publish(r)
    <3>1. [run |-> r, n |-> status[r]] \in Events
      BY <1>3, <2>4 DEF Publish, ChangeInv, Events
    <3>2. channel' \in Seq(Events) /\ faults' \in 0..MaxFaults
      BY <1>4, <2>4, <3>1 DEF Publish
    <3> QED  BY <1>3, <2>4, <3>2 DEF Publish, ChangeInv
  <2> QED  BY <2>1, <2>2, <2>3, <2>4 DEF Change, Finish
<1>6. TypeOK'
  BY <1>1, <1>5 DEF TypeOK
<1> QED  BY <1>2, <1>5, <1>6

\* An event reaches only sockets that its tenant has opened.
LEMMA BroadcastKeeps ==
  ASSUME HubInv, Broadcast
  PROVE  HubInv'
<1> USE RealtimeAssumption DEF HubInv
<1> DEFINE e == Head(channel)
<1>1. UNCHANGED <<status, txn, faults, conn, connections, fetch, view>>
  BY DEF Broadcast, runs
<1>2. e \in Events /\ channel' \in Seq(Events)
  BY DEF Broadcast, TypeOK
<1> HIDE DEF e
<1>3. \A c \in Conns : inbox'[c] = inbox[c] \/
        (c \in Receivers(e) /\ conn[c].open /\ inbox'[c] = Append(inbox[c], e))
  BY DEF Broadcast, e
<1>4. inbox' \in [Conns -> Seq(Events)]
  <2>1. \A c \in Conns : inbox'[c] \in Seq(Events)
    <3> TAKE c \in Conns
    <3>1. inbox[c] \in Seq(Events)  BY DEF TypeOK
    <3>2. Append(inbox[c], e) \in Seq(Events)  BY <1>2, <3>1
    <3> QED  BY <1>3, <3>1, <3>2
  <2> QED  BY <2>1 DEF Broadcast
<1>5. TypeOK'  BY <1>1, <1>2, <1>4 DEF TypeOK
<1>6. SocketInv'
  <2> SUFFICES ASSUME NEW c \in Conns, conn[c].page # NoPage
               PROVE  \A i \in 1..Len(inbox'[c]) :
                        TenantOf[inbox'[c][i].run] = TenantOf[conn[c].page]
    BY <1>1 DEF SocketInv
  <2>1. CASE inbox'[c] = inbox[c]  BY <2>1 DEF SocketInv
  <2>2. CASE c \in Receivers(e) /\ inbox'[c] = Append(inbox[c], e)
    BY <1>2, <2>2 DEF SocketInv, Receivers, TypeOK
  <2> QED  BY <1>3, <2>1, <2>2
<1>7. UnopenedInv'
  <2>1. \A c \in Conns : conn[c] = Unused => inbox'[c] = inbox[c]
    BY <1>3 DEF Unused
  <2> QED  BY <1>1, <2>1 DEF UnopenedInv, Unused
<1>8. ChangeInv' /\ ClosedSocketsAreForgotten'
  BY <1>1 DEF ChangeInv, ClosedSocketsAreForgotten
<1> QED  BY <1>5, <1>6, <1>7, <1>8

\* What the hub and the client do with a socket keeps its page, and adds only
\* runs of its tenant, whenever a check returns.
LEMMA SocketsKeep ==
  ASSUME HubInv, NEW c \in Conns, Serve(c) \/ Unsubscribe(c) \/ Disconnect(c)
  PROVE  HubInv'
<1> USE RealtimeAssumption DEF HubInv
<1>1. UNCHANGED <<status, txn, faults, channel, fetch, view>>
  BY DEF Serve, Subscribe, OwnershipChecked, Unregister, Unsubscribe, Disconnect, runs
<1>2. conn[c].page # NoPage
  <2>1. ~(conn[c] = Unused)
    <3> SUFFICES ASSUME conn[c] = Unused PROVE FALSE
      OBVIOUS
    <3>1. /\ conn[c].page = NoPage /\ conn[c].open = FALSE /\ conn[c].asks = {}
          /\ conn[c].checks = {} /\ conn[c].subscribed_runs = {}
      BY DEF Unused
    <3> QED  BY <3>1 DEF Serve, Subscribe, OwnershipChecked, Unregister, Unsubscribe, Disconnect
  <2> QED  BY <2>1 DEF UnopenedInv
<1>3. /\ DOMAIN conn' = Conns /\ \A d \in Conns \ {c} : conn'[d] = conn[d]
      /\ connections' \subseteq connections
      /\ \A d \in Conns : inbox'[d] = inbox[d] \/ inbox'[d] = <<>>
      /\ DOMAIN inbox' = Conns
  BY DEF Serve, Subscribe, OwnershipChecked, Unregister, Unsubscribe, Disconnect, TypeOK
<1>4. /\ conn'[c] \in Socket /\ conn'[c].page = conn[c].page
      /\ \A r \in conn'[c].subscribed_runs : TenantOf[r] = TenantOf[conn[c].page]
      /\ conn'[c].closed => c \notin connections'
  <2>1. conn[c] \in Socket  BY DEF TypeOK, Socket
  <2>2. CASE Subscribe(c)
    <3>1. PICK r \in conn[c].asks :
            conn' = [conn EXCEPT ![c].asks = @ \ {r}, ![c].checks = @ \cup {r}]
      BY <2>2 DEF Subscribe
    <3>2. conn'[c] = [conn[c] EXCEPT !.asks = @ \ {r}, !.checks = @ \cup {r}]
      BY <3>1 DEF TypeOK
    <3>3. UNCHANGED connections  BY <2>2 DEF Subscribe
    <3>4. r \in Runs  BY <2>1, <3>1 DEF Socket
    <3>5. conn[c].asks \ {r} \in SUBSET Runs /\ conn[c].checks \cup {r} \in SUBSET Runs
      BY <2>1, <3>4 DEF Socket
    <3>6. /\ conn'[c] \in Socket /\ conn'[c].page = conn[c].page
          /\ conn'[c].closed = conn[c].closed
          /\ conn'[c].subscribed_runs = conn[c].subscribed_runs
      BY <2>1, <3>2, <3>5 DEF Socket
    <3> QED  BY <1>2, <3>3, <3>6 DEF SocketInv, ClosedSocketsAreForgotten
  <2>3. CASE OwnershipChecked(c)
    <3>1. PICK r \in conn[c].checks :
            conn' = [conn EXCEPT ![c].checks = @ \ {r},
              ![c].subscribed_runs = IF TenantOf[r] = TenantOf[conn[c].page] THEN @ \cup {r} ELSE @]
      BY <2>3 DEF OwnershipChecked
    <3>2. conn'[c] = [conn[c] EXCEPT !.checks = @ \ {r},
              !.subscribed_runs = IF TenantOf[r] = TenantOf[conn[c].page] THEN @ \cup {r} ELSE @]
      BY <3>1 DEF TypeOK
    <3>3. UNCHANGED connections  BY <2>3 DEF OwnershipChecked
    <3>4. r \in Runs  BY <2>1 DEF Socket
    <3>5. CASE TenantOf[r] = TenantOf[conn[c].page]
      <4>1. conn'[c] = [conn[c] EXCEPT !.checks = @ \ {r}, !.subscribed_runs = @ \cup {r}]
        BY <3>2, <3>5
      <4>2. /\ conn[c].checks \ {r} \in SUBSET Runs
            /\ conn[c].subscribed_runs \cup {r} \in SUBSET Runs
        BY <2>1, <3>4 DEF Socket
      <4>3. /\ conn'[c] \in Socket /\ conn'[c].page = conn[c].page
            /\ conn'[c].closed = conn[c].closed
            /\ conn'[c].subscribed_runs = conn[c].subscribed_runs \cup {r}
        BY <2>1, <4>1, <4>2 DEF Socket
      <4> QED  BY <1>2, <3>3, <3>5, <4>3 DEF SocketInv, ClosedSocketsAreForgotten
    <3>6. CASE TenantOf[r] # TenantOf[conn[c].page]
      <4>1. conn'[c] = [conn[c] EXCEPT !.checks = @ \ {r}]
        BY <2>1, <3>2, <3>6 DEF Socket
      <4>2. /\ conn'[c] \in Socket /\ conn'[c].page = conn[c].page
            /\ conn'[c].closed = conn[c].closed
            /\ conn'[c].subscribed_runs = conn[c].subscribed_runs
        BY <2>1, <4>1 DEF Socket
      <4> QED  BY <1>2, <3>3, <4>2 DEF SocketInv, ClosedSocketsAreForgotten
    <3> QED  BY <3>5, <3>6
  <2>4. CASE Unregister(c)
    BY <1>2, <2>1, <2>4 DEF Unregister, Socket, SocketInv, TypeOK
  <2>5. CASE Unsubscribe(c)
    <3>1. PICK r \in conn[c].subscribed_runs :
            conn' = [conn EXCEPT ![c].subscribed_runs = @ \ {r}]
      BY <2>5 DEF Unsubscribe
    <3>2. conn'[c] = [conn[c] EXCEPT !.subscribed_runs = @ \ {r}]
      BY <3>1 DEF TypeOK
    <3>3. UNCHANGED connections  BY <2>5 DEF Unsubscribe
    <3> QED  BY <1>2, <2>1, <3>2, <3>3 DEF Socket, SocketInv, ClosedSocketsAreForgotten
  <2>6. CASE Disconnect(c)
    BY <1>2, <2>1, <2>6 DEF Disconnect, Socket, SocketInv, ClosedSocketsAreForgotten, TypeOK
  <2> QED  BY <2>2, <2>3, <2>4, <2>5, <2>6 DEF Serve
<1>5. TypeOK'
  <2>1. conn' \in [Conns -> Socket]  
    <3>1. conn \in [Conns -> Socket]  BY DEF TypeOK, Socket
    <3>2. \A d \in Conns : conn'[d] \in Socket  BY <1>3, <1>4, <3>1
    <3>3. conn' = [d \in Conns |-> conn'[d]]
      BY DEF Serve, Subscribe, OwnershipChecked, Unregister, Unsubscribe, Disconnect, TypeOK
    <3> QED  BY <3>2, <3>3
  <2>2. inbox' \in [Conns -> Seq(Events)]
    <3>1. \A d \in Conns : inbox[d] \in Seq(Events) /\ <<>> \in Seq(Events)  BY DEF TypeOK
    <3>2. \A d \in Conns : inbox'[d] \in Seq(Events)  BY <1>3, <3>1
    <3>3. inbox' = [d \in Conns |-> inbox'[d]]
      BY DEF Serve, Subscribe, OwnershipChecked, Unregister, Unsubscribe, Disconnect, TypeOK
    <3> QED  BY <3>2, <3>3
  <2> QED  BY <1>1, <1>3, <2>1, <2>2 DEF TypeOK, Socket
<1>6. SocketInv' /\ UnopenedInv' /\ ClosedSocketsAreForgotten'
  <2> SUFFICES ASSUME NEW d \in Conns
        PROVE  /\ conn'[d].page = NoPage =>
                    conn'[d] = Unused /\ inbox'[d] = <<>> /\ d \notin connections'
               /\ conn'[d].closed => d \notin connections'
               /\ conn'[d].page # NoPage =>
                    /\ \A r \in conn'[d].subscribed_runs : TenantOf[r] = TenantOf[conn'[d].page]
                    /\ \A i \in 1..Len(inbox'[d]) :
                         TenantOf[inbox'[d][i].run] = TenantOf[conn'[d].page]
    BY DEF SocketInv, UnopenedInv, ClosedSocketsAreForgotten, Unused
  <2>1. \A i \in 1..Len(inbox'[d]) : i \in 1..Len(inbox[d]) /\ inbox'[d][i] = inbox[d][i]
    BY <1>3
  <2>2. CASE d = c
    BY SMTT(30), <1>2, <1>4, <2>1, <2>2 DEF SocketInv
  <2>3. CASE d # c
    BY <1>3, <2>1, <2>3 DEF SocketInv, UnopenedInv, ClosedSocketsAreForgotten
  <2> QED  BY <2>2, <2>3
<1>7. ChangeInv'
  BY <1>1 DEF ChangeInv
<1> QED  BY <1>5, <1>6, <1>7

\* A message is handled by the page of its socket.
LEMMA MessagesKeep ==
  ASSUME HubInv, NEW c \in Conns, OnMessage(c)
  PROVE  HubInv'
<1> USE RealtimeAssumption DEF HubInv
<1>1. /\ UNCHANGED <<status, txn, faults, channel, conn, connections, view>>
      /\ inbox' = [inbox EXCEPT ![c] = Tail(@)] /\ inbox[c] # <<>>
  BY DEF OnMessage, runs
<1>2. inbox[c] \in Seq(Events)  BY DEF TypeOK
<1>3. /\ Tail(inbox[c]) \in Seq(Events)
      /\ \A i \in 1..Len(Tail(inbox[c])) :
           i + 1 \in 1..Len(inbox[c]) /\ Tail(inbox[c])[i] = inbox[c][i + 1]
  BY <1>1, <1>2
<1>4. fetch' \in [Pages -> [pc: {"none", "sent", "read"}, value: 0..MaxStatus]]
  <2>1. conn[c].page \in Pages
    BY <1>1 DEF TypeOK, UnopenedInv
  <2> DEFINE p == conn[c].page
             Fetches == [pc: {"none", "sent", "read"}, value: 0..MaxStatus]
  <2>2. fetch' = fetch \/ fetch' = [fetch EXCEPT ![p].pc = "sent"]
    BY DEF OnMessage, Refetch
  <2>3. fetch \in [Pages -> Fetches]  BY DEF TypeOK
  <2>4. [fetch[p] EXCEPT !.pc = "sent"] \in Fetches  BY <2>1, <2>3
  <2>5. [fetch EXCEPT ![p].pc = "sent"] = [fetch EXCEPT ![p] = [fetch[p] EXCEPT !.pc = "sent"]]
    BY <2>1, <2>3
  <2> QED  BY <2>1, <2>2, <2>3, <2>4, <2>5
<1>5. TypeOK'
  BY <1>1, <1>3, <1>4 DEF TypeOK
<1>6. SocketInv'
  <2> SUFFICES ASSUME NEW d \in Conns, conn[d].page # NoPage, NEW i \in 1..Len(inbox'[d])
               PROVE  TenantOf[inbox'[d][i].run] = TenantOf[conn[d].page]
    BY <1>1 DEF SocketInv
  <2>1. CASE d = c
    <3>1. inbox'[d] = Tail(inbox[c])  BY <1>1, <2>1 DEF TypeOK
    <3>2. i + 1 \in 1..Len(inbox[d]) /\ inbox'[d][i] = inbox[d][i + 1]  BY <1>3, <2>1, <3>1
    <3> QED  BY <3>2 DEF SocketInv
  <2>2. CASE d # c
    BY <1>1, <2>2 DEF SocketInv, TypeOK
  <2> QED  BY <2>1, <2>2
<1>7. UnopenedInv' /\ ClosedSocketsAreForgotten' /\ ChangeInv'
  BY <1>1 DEF UnopenedInv, ClosedSocketsAreForgotten, ChangeInv, Unused, TypeOK
<1> QED  BY <1>5, <1>6, <1>7

\* A socket is opened by a page, registered, and new.
LEMMA OpeningKeeps ==
  ASSUME HubInv, NEW p \in Pages, NEW c \in Conns, Connect(p, c)
  PROVE  HubInv'
<1> USE RealtimeAssumption DEF HubInv
<1> DEFINE opened == [Unused EXCEPT !.page = p, !.open = TRUE, !.asks = {RunOf[p]}]
<1>1. /\ conn' = [conn EXCEPT ![c] = opened] /\ connections' = connections \cup {c}
      /\ UNCHANGED <<status, txn, faults, channel, inbox, fetch, view>>
  BY DEF Connect, runs
<1>2. inbox[c] = <<>>
  BY DEF Connect, UnopenedInv, Unused
<1>3. /\ opened \in Socket /\ opened.page = p /\ opened.subscribed_runs = {} /\ ~opened.closed
  BY DEF Unused, Socket
<1>4. TypeOK'
  <2>1. conn' \in [Conns -> Socket]  BY <1>1, <1>3 DEF TypeOK, Socket
  <2> QED  BY <1>1, <2>1 DEF TypeOK, Socket
<1>5. \A d \in Conns : conn'[d] = IF d = c THEN opened ELSE conn[d]
  BY <1>1 DEF TypeOK
<1> HIDE DEF opened
<1>6. SocketInv'
  BY <1>1, <1>2, <1>3, <1>5 DEF SocketInv
<1>7. UnopenedInv' /\ ClosedSocketsAreForgotten' /\ ChangeInv'
  BY <1>1, <1>3, <1>5 DEF UnopenedInv, ClosedSocketsAreForgotten, ChangeInv, Unused
<1> QED  BY <1>4, <1>6, <1>7

\* Fetching and showing a run touch nothing of the sockets.
LEMMA QueriesKeep ==
  ASSUME HubInv, NEW p \in Pages, ReadRun(p) \/ Show(p)
  PROVE  HubInv'
<1> USE RealtimeAssumption DEF HubInv
<1>1. UNCHANGED <<status, txn, faults, channel, conn, connections, inbox>>
  BY DEF ReadRun, Show, runs, hub
<1>2. /\ fetch' \in [Pages -> [pc: {"none", "sent", "read"}, value: 0..MaxStatus]]
      /\ view' \in [Pages -> 0..Unknown]
  <2> DEFINE Fetches == [pc: {"none", "sent", "read"}, value: 0..MaxStatus]
  <2>1. /\ fetch \in [Pages -> Fetches] /\ view \in [Pages -> 0..Unknown]
        /\ RunOf[p] \in Runs /\ status[RunOf[p]] \in 0..MaxStatus
    BY DEF TypeOK
  <2>2. /\ [fetch[p] EXCEPT !.pc = "none"] \in Fetches
        /\ [pc |-> "read", value |-> status[RunOf[p]]] \in Fetches
        /\ fetch[p].value \in 0..Unknown
    BY <2>1 DEF Unknown
  <2>3. CASE ReadRun(p)  BY <2>1, <2>2, <2>3 DEF ReadRun
  <2>4. CASE Show(p)  BY <2>1, <2>2, <2>4 DEF Show
  <2> QED  BY <2>3, <2>4
<1>3. TypeOK'  BY <1>1, <1>2 DEF TypeOK
<1>4. UnopenedInv' /\ SocketInv' /\ ClosedSocketsAreForgotten' /\ ChangeInv'
  BY <1>1 DEF UnopenedInv, SocketInv, ClosedSocketsAreForgotten, ChangeInv, Unused
<1> QED  BY <1>3, <1>4

LEMMA Preserved == HubInv /\ [Next]_vars => HubInv'
<1> SUFFICES ASSUME HubInv, [Next]_vars PROVE HubInv'
  OBVIOUS
<1>1. CASE UNCHANGED vars
  BY <1>1 DEF vars, runs, hub, HubInv, TypeOK, ChangeInv, UnopenedInv, SocketInv,
              ClosedSocketsAreForgotten, Unused
<1>2. CASE Next
  BY <1>2, ChangesKeep, BroadcastKeeps, SocketsKeep, MessagesKeep, OpeningKeeps, QueriesKeep
  DEF Next
<1> QED  BY <1>1, <1>2

\* The invariant is one.
THEOREM HubInvariance == Spec => []HubInv
<1> QED  BY Initially, Preserved, PTL DEF Spec

\* No event and no subscription crosses the tenants, whatever run a page is opened
\* at, however late an ownership check returns, whatever sockets open and close.
THEOREM TenantsStayApart == Spec => []TenantsAreIsolated
<1>1. HubInv => TenantsAreIsolated
  <2> SUFFICES ASSUME HubInv, NEW c \in Conns, conn[c].page # NoPage,
                      NEW r \in conn[c].subscribed_runs \cup {e.run : e \in ToSet(inbox[c])}
               PROVE  TenantOf[r] = TenantOf[conn[c].page]
    BY DEF TenantsAreIsolated
  <2>1. CASE r \in conn[c].subscribed_runs  BY <2>1 DEF HubInv, SocketInv
  <2>2. CASE r \in {e.run : e \in ToSet(inbox[c])}
    <3>1. PICK i \in DOMAIN inbox[c] : r = inbox[c][i].run  BY <2>2 DEF ToSet
    <3>2. i \in 1..Len(inbox[c])  BY <3>1 DEF HubInv, TypeOK
    <3> QED  BY <3>1, <3>2 DEF HubInv, SocketInv
  <2> QED  BY <2>1, <2>2
<1> QED  BY <1>1, HubInvariance, PTL

\* A socket whose close event the hub has handled is never in the hub again,
\* although its ownership checks may still return.
THEOREM ClosedStayForgotten == Spec => []ClosedSocketsAreForgotten
<1>1. HubInv => ClosedSocketsAreForgotten
  BY DEF HubInv
<1> QED  BY <1>1, HubInvariance, PTL

-------------------------------------------------------------------------------
(* The heartbeat of a socket: it keeps what answers and cuts what is        *)
(* silent, for every interval, timeout and latency that HeartbeatAssumption *)
(* allows.                                                                  *)

\* No beat and no pong is overdue, and a silent peer has sent nothing since.
Punctual ==
  /\ open => now <= nextPing
  /\ \A p \in pings : now <= p + Latency /\ p <= diedAt
  /\ diedAt = Alive \/ diedAt <= now

\* A peer that answers: the last ping is answered or under way, and so is the
\* one before it, which is answered once time has moved on.
Answering ==
  diedAt = Alive =>
    /\ open
    /\ Interval <= nextPing /\ nextPing <= now + Interval
    /\ nextPing - Interval \in pings \/ nextPing <= lastPong + Interval
    /\ nextPing - 2 * Interval \in pings \/ nextPing <= lastPong + 2 * Interval

\* The next beat is due within a timeout and an interval of the last pong, and
\* the last pong of a silent peer was under way when it fell silent.
Closing ==
  /\ open => nextPing <= lastPong + TimeoutAfter + Interval
  /\ lastPong <= diedAt + Latency

HeartbeatInv == HeartbeatTypeOK /\ Punctual /\ Answering /\ Closing

\* The invariant holds when the socket is accepted.
LEMMA HeartbeatInitially == HeartbeatInit => HeartbeatInv
  BY HeartbeatAssumption, SMT
  DEF HeartbeatInit, HeartbeatInv, HeartbeatTypeOK, Punctual, Answering, Closing, Alive

\* Time, beats, pongs and the peer's death keep it.
LEMMA HeartbeatKeeps == HeartbeatInv /\ [HeartbeatNext]_heartbeatVars => HeartbeatInv'
<1> SUFFICES ASSUME HeartbeatInv, [HeartbeatNext]_heartbeatVars PROVE HeartbeatInv'
  OBVIOUS
<1> USE HeartbeatAssumption
<1>1. CASE Tick
  BY <1>1, SMT DEF Tick, HeartbeatInv, HeartbeatTypeOK, Punctual, Answering, Closing, Alive
<1>2. CASE Beat
  <2>1. open /\ now = nextPing /\ nextPing' = now + Interval
    BY <1>2 DEF Beat
  <2>2. UNCHANGED <<now, lastPong, diedAt>>
    BY <1>2 DEF Beat
  <2>3. CASE TimedOut
    <3>1. diedAt # Alive
      BY <2>1, <2>3, SMT DEF TimedOut, HeartbeatInv, HeartbeatTypeOK, Punctual, Answering
    <3>2. open' = FALSE /\ UNCHANGED pings
      BY <1>2, <2>3 DEF Beat
    <3>3. HeartbeatTypeOK'
      <4>1. open' \in BOOLEAN /\ pings' = pings
        BY <3>2
      <4>2. nextPing' \in Nat
        BY <2>1, SMT DEF HeartbeatInv, HeartbeatTypeOK
      <4>3. QED
        BY <2>2, <4>1, <4>2 DEF HeartbeatInv, HeartbeatTypeOK, Alive
    <3>4. Punctual' /\ Closing'
      BY <2>2, <3>2, SMT DEF HeartbeatInv, HeartbeatTypeOK, Punctual, Closing, Alive
    <3>5. Answering'
      BY <2>2, <3>1 DEF Answering, Alive
    <3>6. QED
      BY <3>3, <3>4, <3>5 DEF HeartbeatInv
  <2>4. CASE ~TimedOut
    <3>1. UNCHANGED open
      BY <1>2, <2>4 DEF Beat
    <3>2. pings' = IF diedAt = Alive THEN pings \cup {now} ELSE pings
      BY <1>2, <2>4 DEF Beat
    <3>3. HeartbeatTypeOK' /\ Closing'
      BY <2>1, <2>2, <2>4, <3>1, <3>2, SMT DEF TimedOut, HeartbeatInv, HeartbeatTypeOK, Closing, Alive
    <3>4. Punctual'
      BY <2>1, <2>2, <3>1, <3>2, SMT DEF HeartbeatInv, HeartbeatTypeOK, Punctual, Alive
    <3>5. Answering'
      BY <2>1, <2>2, <3>1, <3>2, SMT DEF HeartbeatInv, HeartbeatTypeOK, Punctual, Answering, Alive
    <3>6. QED
      BY <3>3, <3>4, <3>5 DEF HeartbeatInv
  <2>5. QED
    BY <2>3, <2>4
<1>3. CASE Pong
  BY <1>3, SMT DEF Pong, HeartbeatInv, HeartbeatTypeOK, Punctual, Answering, Closing, Alive
<1>4. CASE Die
  BY <1>4, SMT DEF Die, HeartbeatInv, HeartbeatTypeOK, Punctual, Answering, Closing, Alive
<1>5. CASE UNCHANGED heartbeatVars
  BY <1>5 DEF heartbeatVars, HeartbeatInv, HeartbeatTypeOK, Punctual, Answering, Closing
<1>6. QED
  BY <1>1, <1>2, <1>3, <1>4, <1>5 DEF HeartbeatNext

\* The invariant of the heartbeat.
THEOREM HeartbeatInvariance == HeartbeatSpec => []HeartbeatInv
  BY HeartbeatInitially, HeartbeatKeeps, PTL DEF HeartbeatSpec

\* server.ts:62-83 never terminates a socket whose peer answers every ping
\* within an interval, even when the pong of one ping meets the next beat.
THEOREM AnsweringPeersAreKept == HeartbeatSpec => []AnsweringPeerStays
<1>1. HeartbeatInv => AnsweringPeerStays
  BY DEF HeartbeatInv, Answering, AnsweringPeerStays
<1>2. QED
  BY <1>1, HeartbeatInvariance, PTL

\* server.ts:62-83 terminates a silent peer within the timeout, one interval and
\* the latency of a pong.
THEOREM SilentPeersAreCut == HeartbeatSpec => []SilentPeerIsCut
<1>1. HeartbeatInv => SilentPeerIsCut
  BY HeartbeatAssumption, SMT
  DEF HeartbeatInv, HeartbeatTypeOK, Punctual, Closing, SilentPeerIsCut, Alive
<1>2. QED
  BY <1>1, HeartbeatInvariance, PTL

===============================================================================
