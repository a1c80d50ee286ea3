------------------------------- MODULE CallFeed -------------------------------
(***************************************************************************)
(* The live call feed: the webhook handlers broadcast the start and the end *)
(* of every call over the WebSockets of the open dashboards                 *)
(* (app/dashboard_api/websocket.py), and each page merges these messages    *)
(* into a map it loads once over HTTP (LiveCallFeed.tsx).  Handlers and     *)
(* sockets share one event loop, so everything between two awaits is one    *)
(* step here.  LiveKit waits for one answer per room; a handler whose       *)
(* answer it no longer waits for runs on beside the next one.  Of a handler *)
(* its SELECT, its commit and its broadcast are kept: WebhookReceiver has   *)
(* the rest.                                                                *)
(***************************************************************************)
EXTENDS Naturals, Sequences, FiniteSets

CONSTANTS
    Calls,      \* rooms, "call-<lead id>"
    Sockets,    \* of the dashboards: each mount of LiveCallFeed opens one
    Pages,      \* those of them whose page is modelled with what it shows
    MaxUnread,  \* messages sent to a page and not read by it: a bound
    MaxFaults   \* failures that concern one call in one behaviour: a bound

ASSUME FeedAssumption ==
    /\ MaxUnread \in Nat \ {0} /\ MaxFaults \in Nat
    /\ IsFiniteSet(Sockets) /\ Pages \subseteq Sockets

VARIABLES
    stage,       \* of a call: which webhook of its room LiveKit is sending
    workerRows,  \* its rows in call_logs that the worker inserted, as PENDING, ...
    handlerRows, \* ... and those that handlers inserted, as CALLING
    handlers,    \* webhook handlers that have not begun to broadcast
    broadcasts,  \* running ConnectionManager.broadcast coroutines
    active,      \* ConnectionManager._connections
    conn,        \* the connection below a socket
    channel,     \* messages sent to a page and not read by it
    fetch,       \* the page's request for /api/calls/active
    snapshot,    \* the answer to it
    shown,       \* the keys of the page's map of calls
    faults,      \* failures of each call so far
    followed     \* history: calls that began when the page was loaded and registered

rows == <<workerRows, handlerRows>>
serverVars == <<stage, rows, handlers, broadcasts, active>>
pageVars == <<conn, channel, fetch, snapshot, shown>>
vars == <<serverVars, pageVars, faults, followed>>

\* "started" and "finished": the webhook is being sent; "talking": the room
\* is open and room_started is done with; "over": so is room_finished.
Stages == {"none", "started", "talking", "finished", "over"}
Events == {"call_started", "call_ended"}
Message == [event : Events, call : Calls]

\* A handler, by the message it will broadcast.  late is 0 while LiveKit waits
\* for the answer, and else the number of the failure that made it late.
Handler == [event : Events, call : Calls, late : 0..MaxFaults,
            pc : {"select", "insert", "broadcast"}]

\* size is the number of sockets when the loop began and unseen are those it
\* has yet to reach; seen are those it has sent to.  moved says that a socket
\* joined meanwhile.
Broadcast == [event : Events, call : Calls, late : 0..MaxFaults,
              size : 0..Cardinality(Sockets), unseen : SUBSET Sockets, seen : SUBSET Sockets,
              dead : SUBSET Sockets, moved : BOOLEAN]

TypeOK ==
    /\ stage \in [Calls -> Stages]
    /\ workerRows \in [Calls -> 0..1] /\ handlerRows \in [Calls -> Nat]
    /\ handlers \subseteq Handler
    /\ broadcasts \subseteq Broadcast
    /\ active \subseteq Sockets /\ \A q \in active : conn[q] # "none"
    /\ conn \in [Sockets -> {"none", "up", "down"}]
    /\ channel \in [Pages -> Seq(Message)]
    /\ fetch \in [Pages -> {"asked", "answered", "done"}]
    /\ snapshot \in [Pages -> SUBSET Calls]
    /\ shown \in [Pages -> SUBSET Calls]
    /\ faults \in [Calls -> 0..MaxFaults]
    /\ followed \in [Pages -> SUBSET Calls]

Init ==
    /\ stage = [c \in Calls |-> "none"]
    /\ workerRows = [c \in Calls |-> 0] /\ handlerRows = [c \in Calls |-> 0]
    /\ handlers = {}
    /\ broadcasts = {}
    /\ active = {}
    /\ conn = [q \in Sockets |-> "none"]
    /\ channel = [p \in Pages |-> <<>>]
    /\ fetch = [p \in Pages |-> "asked"]
    /\ snapshot = [p \in Pages |-> {}]
    /\ shown = [p \in Pages |-> {}]
    /\ faults = [c \in Calls |-> 0]
    /\ followed = [p \in Pages |-> {}]

(* Something fails in the environment, of which call c will suffer.         *)
Fault(c) == faults[c] < MaxFaults /\ faults' = [faults EXCEPT ![c] = @ + 1]

RowCount(c) == workerRows[c] + handlerRows[c]

-----------------------------------------------------------------------------
\* The worker creates the room, and LiveKit sends room_started.
RoomCreated(c) ==
    /\ stage[c] = "none"
    /\ stage' = [stage EXCEPT ![c] = "started"]
    /\ UNCHANGED <<rows, handlers, broadcasts, active, pageVars, faults, followed>>

\* The worker commits its row of the call, whatever rows there are.
WorkerRecords(c) ==
    /\ stage[c] # "none" /\ workerRows[c] = 0
    /\ workerRows' = [workerRows EXCEPT ![c] = 1]
    /\ UNCHANGED <<stage, handlerRows, handlers, broadcasts, active, pageVars, faults, followed>>

\* The room closes; room_finished is sent after room_started is done with.
RoomCloses(c) ==
    /\ stage[c] = "talking"
    /\ stage' = [stage EXCEPT ![c] = "finished"]
    /\ UNCHANGED <<rows, handlers, broadcasts, active, pageVars, faults, followed>>

\* The webhook is sent, and its handler starts.
Deliver(c) ==
    /\ stage[c] \in {"started", "finished"}
    /\ \A h \in handlers \cup broadcasts : h.call = c => h.late # 0
    /\ handlers' = handlers \cup
          {[event |-> IF stage[c] = "started" THEN "call_started" ELSE "call_ended",
            call |-> c, late |-> 0, pc |-> "select"]}
    /\ UNCHANGED <<stage, rows, broadcasts, active, pageVars, faults, followed>>

(* LiveKit is done with the webhook it is sending.                          *)
Advance(c) == stage' = [stage EXCEPT ![c] = IF @ = "started" THEN "talking" ELSE "over"]

(* The handler h answers 200, or 500: then the webhook is sent again, or    *)
(* LiveKit gives it up.                                                     *)
Answer200(h) == IF h.late = 0 THEN Advance(h.call) ELSE UNCHANGED stage
Answer500(h) == UNCHANGED stage \/ Answer200(h)

(* The handler h goes on as it is after the step.                           *)
Continues(h, after) == handlers' = (handlers \ {h}) \cup {after}

\* scalar_one_or_none raises.
SelectRaises(h) ==
    /\ h.pc = "select" /\ RowCount(h.call) > 1
    /\ handlers' = handlers \ {h}
    /\ Answer500(h)
    /\ UNCHANGED <<rows, broadcasts, active, pageVars, faults, followed>>

\* The row is updated and committed, which changes nothing that a page asks for:
\* neither the start nor the end of a call changes the status of its row.
FindsCall(h) ==
    /\ h.pc = "select" /\ RowCount(h.call) = 1
    /\ Continues(h, [h EXCEPT !.pc = "broadcast"])
    /\ UNCHANGED <<stage, rows, broadcasts, active, pageVars, faults, followed>>

\* No row yet: room_started will insert one, room_finished has nothing to do.
FindsNone(h) ==
    /\ h.pc = "select" /\ RowCount(h.call) = 0
    /\ IF h.event = "call_started"
       THEN Continues(h, [h EXCEPT !.pc = "insert"]) /\ UNCHANGED stage
       ELSE handlers' = handlers \ {h} /\ Answer200(h)
    /\ UNCHANGED <<rows, broadcasts, active, pageVars, faults, followed>>

CommitsRow(h) ==
    /\ h.pc = "insert"
    /\ handlerRows' = [handlerRows EXCEPT ![h.call] = @ + 1]
    /\ Continues(h, [h EXCEPT !.pc = "broadcast"])
    /\ UNCHANGED <<stage, workerRows, broadcasts, active, pageVars, faults, followed>>

Follows(p) == p \in active /\ conn[p] = "up" /\ fetch[p] = "done"

(* The handler begins to iterate over the sockets.                          *)
Begin(h) ==
    broadcasts' = broadcasts \cup
        {[event |-> h.event, call |-> h.call, late |-> h.late, size |-> Cardinality(active),
          unseen |-> active, seen |-> {}, dead |-> {}, moved |-> FALSE]}

\* Mutant: the end is written and not broadcast.
BroadcastsStarts(h) ==
    /\ h.pc = "broadcast"
    /\ handlers' = handlers \ {h}
    /\ IF h.event = "call_ended" THEN Answer200(h) /\ UNCHANGED broadcasts
                                 ELSE Begin(h) /\ UNCHANGED stage
    /\ followed' = [p \in Pages |->
          IF h.event = "call_started" /\ h.late = 0 /\ Follows(p)
          THEN followed[p] \cup {h.call} ELSE followed[p]]
    /\ UNCHANGED <<rows, active, pageVars, faults>>

\* After its transaction, and after room_finished has enqueued its job.
BroadcastBegins(h) ==
    /\ h.pc = "broadcast"
    /\ handlers' = handlers \ {h}
    /\ Begin(h)
    /\ followed' = [p \in Pages |->
          IF h.event = "call_started" /\ h.late = 0 /\ Follows(p)
          THEN followed[p] \cup {h.call} ELSE followed[p]]
    /\ UNCHANGED <<stage, rows, active, pageVars, faults>>

\* The database fails before the commit.
HandlerFails(h) ==
    /\ h.pc # "broadcast"
    /\ Fault(h.call)
    /\ handlers' = handlers \ {h}
    /\ Answer500(h)
    /\ UNCHANGED <<rows, broadcasts, active, pageVars, followed>>

\* The answer takes too long: LiveKit sends the webhook again or gives it up,
\* and the handler, or its broadcast, goes on.
AnswerTimesOut(c) ==
    /\ \E h \in handlers \cup broadcasts : h.call = c /\ h.late = 0
    /\ Fault(c)
    /\ LET Late(h) == IF h.call = c /\ h.late = 0 THEN [h EXCEPT !.late = faults'[c]] ELSE h
       IN  /\ handlers' = {Late(h) : h \in handlers}
           /\ broadcasts' = {Late(b) : b \in broadcasts}
    /\ UNCHANGED stage \/ Advance(c)
    /\ UNCHANGED <<rows, active, pageVars, followed>>

-----------------------------------------------------------------------------
(* The iterator of a set raises on its next step if the set's size is no    *)
(* longer what it was at first.                                             *)
SameSize(b) == Cardinality(active) = b.size

(* Sockets leave the set: no loop reaches them any more, and whether one    *)
(* noted them as dead makes no difference.                                  *)
Unregister(sockets, running) ==
    /\ active' = active \ sockets
    /\ broadcasts' = {[b EXCEPT !.unseen = @ \ sockets, !.seen = @ \ sockets,
                                !.dead = @ \ sockets] : b \in running}

\* The loop sends to a socket it has not sent to: one that joined meanwhile
\* may be among them.  Sending to a connection that is gone raises, which the
\* loop notes, or the message is lost.
SendTo(b, q) ==
    /\ b \in broadcasts /\ SameSize(b)
    /\ q \in active \ b.seen /\ (q \in Pages => Len(channel[q]) < MaxUnread)
    /\ \E raises \in BOOLEAN :
          /\ raises => conn[q] = "down"
          /\ broadcasts' = (broadcasts \ {b}) \cup
                {[b EXCEPT !.unseen = @ \ {q}, !.seen = @ \cup {q},
                            !.dead = IF raises THEN @ \cup {q} ELSE @]}
    /\ channel' = IF q \in Pages /\ conn[q] = "up"
                  THEN [channel EXCEPT ![q] = Append(@, [event |-> b.event, call |-> b.call])]
                  ELSE channel
    /\ UNCHANGED <<stage, rows, handlers, active, conn, fetch, snapshot, shown, faults, followed>>

\* The loop is over, the dead sockets are removed, and the answer is 200.
BroadcastEnds(b) ==
    /\ b \in broadcasts /\ SameSize(b)
    /\ b.unseen = {}
    /\ Unregister(b.dead, broadcasts \ {b})
    /\ Answer200(b)
    /\ UNCHANGED <<rows, handlers, pageVars, faults, followed>>

\* As many sockets left as joined, and the set was laid out anew for the last
\* of them: the iterator goes on at a place that means nothing any more, and
\* misses sockets.
BroadcastSkips(b) ==
    /\ b \in broadcasts /\ SameSize(b)
    /\ b.moved /\ b.unseen # {}
    /\ Fault(b.call)
    /\ Unregister(b.dead, broadcasts \ {b})
    /\ Answer200(b)
    /\ UNCHANGED <<rows, handlers, pageVars, followed>>

\* Mutant: the handler catches the RuntimeError and answers 200.
BroadcastSwallowed(b) ==
    /\ b \in broadcasts /\ ~SameSize(b)
    /\ broadcasts' = broadcasts \ {b}
    /\ Answer200(b)
    /\ UNCHANGED <<rows, handlers, active, pageVars, faults, followed>>

\* RuntimeError: the answer is 500, and LiveKit sends the webhook again, or
\* has done so often enough.
BroadcastRaises(b) ==
    /\ b \in broadcasts /\ ~SameSize(b)
    /\ broadcasts' = broadcasts \ {b}
    /\ \/ UNCHANGED <<stage, faults>>
       \/ b.late = 0 /\ Fault(b.call) /\ Advance(b.call)
    /\ UNCHANGED <<rows, handlers, active, pageVars, followed>>

-----------------------------------------------------------------------------
\* Mutant: the socket is registered before it is accepted.
JoinUnaccepted(q) ==
    /\ conn[q] = "none" /\ q \notin active
    /\ active' = active \cup {q}
    /\ UNCHANGED <<stage, rows, handlers, broadcasts, pageVars, faults, followed>>

\* connect: the socket is accepted, and registered.
Join(q) ==
    /\ conn[q] = "none"
    /\ conn' = [conn EXCEPT ![q] = "up"]
    /\ active' = active \cup {q}
    /\ broadcasts' = {[b EXCEPT !.moved = TRUE] : b \in broadcasts}
    /\ UNCHANGED <<stage, rows, handlers, channel, fetch, snapshot, shown, faults, followed>>

\* /api/calls/active: the rows whose status is CALLING, ended or not.
ServeSnapshot(p) ==
    /\ fetch[p] = "asked" /\ conn[p] # "down"
    /\ fetch' = [fetch EXCEPT ![p] = "answered"]
    /\ snapshot' = [snapshot EXCEPT ![p] = {c \in Calls : handlerRows[c] > 0}]
    /\ UNCHANGED <<serverVars, conn, channel, shown, faults, followed>>

\* setCalls(map): what the socket brought before is gone.
LoadSnapshot(p) ==
    /\ fetch[p] = "answered"
    /\ fetch' = [fetch EXCEPT ![p] = "done"]
    /\ shown' = [shown EXCEPT ![p] = snapshot[p]]
    /\ snapshot' = [snapshot EXCEPT ![p] = {}]
    /\ UNCHANGED <<serverVars, conn, channel, faults, followed>>

\* The request fails, and the page ignores it.
FetchFails(p) ==
    /\ fetch[p] = "asked" /\ conn[p] # "down"
    /\ fetch' = [fetch EXCEPT ![p] = "done"]
    /\ UNCHANGED <<serverVars, conn, channel, snapshot, shown, faults, followed>>

\* ws.onmessage.
Receive(p) ==
    /\ channel[p] # <<>>
    /\ channel' = [channel EXCEPT ![p] = Tail(@)]
    /\ LET m == Head(channel[p]) IN
       shown' = [shown EXCEPT ![p] =
                    IF m.event = "call_started" THEN @ \cup {m.call} ELSE @ \ {m.call}]
    /\ UNCHANGED <<serverVars, conn, fetch, snapshot, faults, followed>>

\* The page unmounts and closes its socket, or the network drops the connection
\* with the messages on it.  The page does not connect again, and what it still
\* shows is of no more interest.
Drop(p) ==
    /\ conn[p] = "up"
    /\ conn' = [conn EXCEPT ![p] = "down"]
    /\ channel' = [channel EXCEPT ![p] = <<>>]
    /\ fetch' = [fetch EXCEPT ![p] = "asked"]
    /\ snapshot' = [snapshot EXCEPT ![p] = {}]
    /\ shown' = [shown EXCEPT ![p] = {}]
    /\ followed' = [followed EXCEPT ![p] = {}]
    /\ UNCHANGED <<serverVars, faults>>

\* The same of a socket whose page is not modelled.
DropOther(q) ==
    /\ conn[q] = "up"
    /\ conn' = [conn EXCEPT ![q] = "down"]
    /\ UNCHANGED <<serverVars, channel, fetch, snapshot, shown, faults, followed>>

\* receive_text raises WebSocketDisconnect, and ws_calls unregisters the socket.
Disconnect(q) ==
    /\ q \in active /\ conn[q] = "down"
    /\ Unregister({q}, broadcasts)
    /\ UNCHANGED <<stage, rows, handlers, pageVars, faults, followed>>

\* The dashboard is opened again, with a new socket.
Remount(q) ==
    /\ conn[q] = "down" /\ q \notin active
    /\ conn' = [conn EXCEPT ![q] = "none"]
    /\ UNCHANGED <<serverVars, channel, fetch, snapshot, shown, faults, followed>>

-----------------------------------------------------------------------------
HandlerStep(h) ==
    \/ SelectRaises(h) \/ FindsCall(h) \/ FindsNone(h) \/ CommitsRow(h) \/ BroadcastBegins(h)
Broadcasting(b) ==
    BroadcastEnds(b) \/ BroadcastRaises(b) \/ \E q \in Sockets : SendTo(b, q)

Next ==
    \/ \E c \in Calls :
          RoomCreated(c) \/ WorkerRecords(c) \/ RoomCloses(c) \/ Deliver(c) \/ AnswerTimesOut(c)
    \/ \E h \in handlers : HandlerStep(h) \/ HandlerFails(h)
    \/ \E b \in broadcasts : Broadcasting(b) \/ BroadcastSkips(b)
    \/ \E q \in Sockets : Join(q) \/ Disconnect(q) \/ Remount(q)
    \/ \E q \in Sockets \ Pages : DropOther(q)
    \/ \E p \in Pages :
          ServeSnapshot(p) \/ LoadSnapshot(p) \/ FetchFails(p) \/ Receive(p) \/ Drop(p)

Spec == Init /\ [][Next]_vars

(* The event loop, LiveKit's deliveries and the browsers run on.            *)
Fairness ==
    /\ \A c \in Calls :
          /\ WF_vars(Deliver(c) \/ \E h \in handlers : h.call = c /\ HandlerStep(h))
          /\ WF_vars(\E b \in broadcasts : b.call = c /\ Broadcasting(b))
    /\ \A p \in Pages : WF_vars(Receive(p))
    /\ \A q \in Sockets : WF_vars(Disconnect(q))

FairSpec == Spec /\ Fairness

-----------------------------------------------------------------------------
\* A page that was loaded and registered before a call began follows that
\* call, although dashboards that come and go make broadcasts fail, drop
\* sockets and repeat webhooks: once nothing is on its way any more the page
\* shows the call while it lasts, and not after it.  (The handlers of a call
\* with two rows broadcast nothing.  A call that a failure concerned is left
\* out: what the environment loses is lost, and a handler whose answer came
\* too late can broadcast the start of a call after its end.)
FollowsCalls ==
    \A p \in Pages : \A c \in followed[p] :
        (faults[c] = 0 /\ conn[p] = "up" /\ RowCount(c) = 1 /\ channel[p] = <<>>) =>
            /\ stage[c] = "talking" => c \in shown[p]
            /\ stage[c] = "over" => c \notin shown[p]

StartIn(messages, c) ==
    \E i \in 1..Len(messages) : messages[i].call = c /\ messages[i].event = "call_started"

(* A page's card of a call it follows: it is awaited while the call goes on *)
(* or its start is unread.                                                  *)
Card(p, c) ==
    IF c \notin followed[p] \/ conn[p] # "up" THEN "none"
    ELSE IF c \in shown[p] THEN "shown"
    ELSE IF stage[c] \in {"started", "talking"} \/ StartIn(channel[p], c) THEN "awaited"
    ELSE "gone"

Feed == INSTANCE FeedCards WITH
    cards <- [p \in Pages |-> [c \in Calls |-> Card(p, c)]],
    ended <- {c \in Calls : stage[c] \in {"finished", "over"}},
    sure <- {c \in Calls : faults[c] = 0 /\ RowCount(c) < 2}

\* Broadcasts that are cut short and repeated, of webhooks that overlap with
\* pages opening and closing, give a page one history of each call it follows
\* as long as LiveKit gets its answers in time and the call has one row: shown
\* once, not taken off before the end, and not shown again.  A call with two
\* rows, or that a failure concerned, may be missing, and may be shown again
\* by a handler that runs on after LiveKit has given it up, but only after its
\* end; not even such a call is taken off before its end.
CardsKept == Feed!Spec

(* The dashboards stop coming and going: while they do, every broadcast can *)
(* fail in the middle.                                                      *)
Settled == <>[][\A q \in Sockets : ~Remount(q)]_vars

\* A followed call that ends disappears from the page, however often its end
\* had to be sent, unless a failure concerned it or it has two rows.
EndedLeavesFeed ==
    Settled => \A p \in Pages, c \in Calls :
        (c \in followed[p] /\ stage[c] = "finished")
            ~> (c \notin shown[p] \/ conn[p] # "up" \/ RowCount(c) > 1 \/ faults[c] > 0)
=============================================================================
