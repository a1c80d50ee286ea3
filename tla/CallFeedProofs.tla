---------------------------- MODULE CallFeedProofs ----------------------------
(***************************************************************************)
(* The types of CallFeed, and FollowsCalls, for any number of calls and     *)
(* dashboards: what the messages on their way to a page will leave it with. *)
(* Then, that the feed implements FeedCards: each event moves every card by *)
(* one of the moves named there.                                            *)
(***************************************************************************)
EXTENDS CallFeed, FiniteSetTheorems, TLAPS

(***************************************************************************)
(* Types.                                                                   *)
(***************************************************************************)
LEMMA SocketCount ==
    ASSUME TypeOK
    PROVE  Cardinality(active) \in 0..Cardinality(Sockets)
<1>1. active \subseteq Sockets /\ IsFiniteSet(Sockets)
  BY FeedAssumption DEF TypeOK
<1>2. /\ Cardinality(active) \in Nat /\ Cardinality(Sockets) \in Nat
      /\ Cardinality(active) <= Cardinality(Sockets)
  BY <1>1, FS_Subset, FS_CardinalityType
<1> QED BY <1>2

\* What handlers and broadcasts have in common.
LEMMA RunningType ==
    ASSUME TypeOK
    PROVE  \A h \in handlers \cup broadcasts :
              h.call \in Calls /\ h.event \in Events /\ h.late \in 0..MaxFaults
BY DEF TypeOK, Handler, Broadcast

LEMMA BeginType ==
    ASSUME TypeOK, NEW h \in handlers, Begin(h)
    PROVE  broadcasts' \subseteq Broadcast
<1> DEFINE new == [event |-> h.event, call |-> h.call, late |-> h.late,
                   size |-> Cardinality(active), unseen |-> active, seen |-> {}, dead |-> {},
                   moved |-> FALSE]
<1>1. new \in Broadcast
  BY SocketCount, RunningType DEF TypeOK, Broadcast
<1>2. broadcasts' = broadcasts \cup {new}
  BY DEF Begin
<1> QED BY <1>1, <1>2 DEF TypeOK

LEMMA UnregisterType ==
    ASSUME TypeOK, NEW sockets, NEW running \in SUBSET broadcasts, Unregister(sockets, running)
    PROVE  broadcasts' \subseteq Broadcast /\ active' \subseteq active
<1>1. ASSUME NEW b \in running
      PROVE  [b EXCEPT !.unseen = @ \ sockets, !.seen = @ \ sockets, !.dead = @ \ sockets]
                \in Broadcast
  <2>1. b \in Broadcast
    BY DEF TypeOK
  <2> QED BY <2>1 DEF Broadcast
<1> QED BY <1>1 DEF Unregister

LEMMA AdvanceType ==
    ASSUME TypeOK, NEW c \in Calls, Advance(c)
    PROVE  stage' \in [Calls -> Stages]
BY DEF TypeOK, Advance, Stages

LEMMA AnswerType ==
    ASSUME TypeOK, NEW h \in handlers \cup broadcasts, Answer500(h)
    PROVE  stage' \in [Calls -> Stages]
BY RunningType, AdvanceType DEF Answer500, Answer200, TypeOK

LEMMA FaultType ==
    ASSUME TypeOK, NEW c \in Calls, Fault(c)
    PROVE  faults' \in [Calls -> 0..MaxFaults] /\ faults'[c] > 0
BY FeedAssumption DEF TypeOK, Fault

LEMMA FeedStepsKeepType == ASSUME TypeOK, [Next]_vars PROVE TypeOK'
<1>1. /\ \A b \in broadcasts : b \in Broadcast
      /\ \A h \in handlers : h \in Handler
  BY DEF TypeOK
<1>2. ASSUME NEW c \in Calls, RoomCreated(c) \/ WorkerRecords(c) \/ RoomCloses(c) PROVE TypeOK'
  <2>1. /\ stage' \in [Calls -> Stages]
        /\ workerRows' \in [Calls -> 0..1] /\ handlerRows' \in [Calls -> Nat]
    <3>1. CASE RoomCreated(c) \/ RoomCloses(c)
      BY <3>1 DEF TypeOK, RoomCreated, RoomCloses, Stages, rows
    <3>2. CASE WorkerRecords(c)
      BY <3>2 DEF TypeOK, WorkerRecords
    <3> QED BY <1>2, <3>1, <3>2
  <2>2. UNCHANGED <<handlers, broadcasts, active, pageVars, faults, followed>>
    BY <1>2 DEF RoomCreated, WorkerRecords, RoomCloses
  <2> QED BY <2>1, <2>2 DEF TypeOK, pageVars, rows
<1>3. ASSUME NEW c \in Calls, Deliver(c) PROVE TypeOK'
  <2>1. /\ UNCHANGED <<stage, rows, broadcasts, active, pageVars, faults, followed>>
        /\ handlers' = handlers \cup
              {[event |-> IF stage[c] = "started" THEN "call_started" ELSE "call_ended",
                call |-> c, late |-> 0, pc |-> "select"]}
    BY <1>3 DEF Deliver
  <2>2. [event |-> IF stage[c] = "started" THEN "call_started" ELSE "call_ended",
         call |-> c, late |-> 0, pc |-> "select"] \in Handler
    BY FeedAssumption DEF Handler, Events
  <2>3. handlers' \subseteq Handler
    BY <1>1, <2>1, <2>2
  <2> QED BY <2>1, <2>3 DEF TypeOK, pageVars, rows
<1>4. ASSUME NEW c \in Calls, AnswerTimesOut(c) PROVE TypeOK'
  <2> DEFINE Late(h) == IF h.call = c /\ h.late = 0 THEN [h EXCEPT !.late = faults'[c]] ELSE h
  <2>1. /\ handlers' = {Late(h) : h \in handlers} /\ broadcasts' = {Late(b) : b \in broadcasts}
        /\ Fault(c) /\ (stage' = stage \/ Advance(c))
        /\ UNCHANGED <<rows, active, pageVars, followed>>
    BY <1>4 DEF AnswerTimesOut
  <2>2. faults' \in [Calls -> 0..MaxFaults]
    BY <2>1, FaultType
  <2>3. faults'[c] \in 0..MaxFaults
    BY <2>2
  <2>4. \A h \in handlers : Late(h) \in Handler
    BY <1>1, <2>3 DEF Handler
  <2>5. \A b \in broadcasts : Late(b) \in Broadcast
    BY <1>1, <2>3 DEF Broadcast
  <2>6. stage' \in [Calls -> Stages]
    BY <2>1, AdvanceType DEF TypeOK
  <2> HIDE DEF Late
  <2> QED BY <2>1, <2>2, <2>4, <2>5, <2>6 DEF TypeOK, pageVars, rows
<1>5. ASSUME NEW h \in handlers, SelectRaises(h) \/ FindsCall(h) \/ FindsNone(h) \/ CommitsRow(h)
                                  \/ HandlerFails(h)
      PROVE  TypeOK'
  <2>1. h \in Handler /\ h.call \in Calls
    BY <1>1 DEF Handler
  <2>2. [h EXCEPT !.pc = "broadcast"] \in Handler /\ [h EXCEPT !.pc = "insert"] \in Handler
    BY <2>1 DEF Handler
  <2>3. handlers' \subseteq Handler
    BY <1>1, <1>5, <2>2 DEF SelectRaises, FindsCall, FindsNone, CommitsRow, HandlerFails, Continues
  <2>4. stage' \in [Calls -> Stages]
    <3>1. stage' = stage \/ Answer500(h)
      BY <1>5 DEF SelectRaises, FindsCall, FindsNone, CommitsRow, HandlerFails, Answer500
    <3> QED BY <3>1, AnswerType DEF TypeOK
  <2>5. workerRows' \in [Calls -> 0..1] /\ handlerRows' \in [Calls -> Nat]
    <3>1. /\ workerRows' = workerRows
          /\ \/ handlerRows' = handlerRows
             \/ handlerRows' = [handlerRows EXCEPT ![h.call] = @ + 1]
      BY <1>5 DEF SelectRaises, FindsCall, FindsNone, CommitsRow, HandlerFails, rows
    <3> QED BY <2>1, <3>1 DEF TypeOK
  <2>6. faults' \in [Calls -> 0..MaxFaults]
    <3>1. faults' = faults \/ Fault(h.call)
      BY <1>5 DEF SelectRaises, FindsCall, FindsNone, CommitsRow, HandlerFails
    <3> QED BY <2>1, <3>1, FaultType DEF TypeOK
  <2>7. UNCHANGED <<broadcasts, active, pageVars, followed>>
    BY <1>5 DEF SelectRaises, FindsCall, FindsNone, CommitsRow, HandlerFails
  <2> QED BY <2>3, <2>4, <2>5, <2>6, <2>7 DEF TypeOK, pageVars, rows
<1>6. ASSUME NEW h \in handlers, BroadcastBegins(h) PROVE TypeOK'
  <2>1. /\ Begin(h) /\ handlers' = handlers \ {h} /\ UNCHANGED <<stage, rows, active, pageVars, faults>>
        /\ followed' = [p \in Pages |->
              IF h.event = "call_started" /\ h.late = 0 /\ Follows(p)
              THEN followed[p] \cup {h.call} ELSE followed[p]]
    BY <1>6 DEF BroadcastBegins
  <2>2. broadcasts' \subseteq Broadcast
    BY <2>1, BeginType
  <2>3. followed' \in [Pages -> SUBSET Calls]
    BY <2>1, RunningType DEF TypeOK
  <2> QED BY <2>1, <2>2, <2>3 DEF TypeOK, pageVars, rows
<1>7. ASSUME NEW b \in broadcasts, BroadcastEnds(b) \/ BroadcastSkips(b) PROVE TypeOK'
  <2>1. broadcasts' \subseteq Broadcast /\ active' \subseteq active
    BY <1>7, UnregisterType DEF BroadcastEnds, BroadcastSkips
  <2>2. stage' \in [Calls -> Stages]
    BY <1>7, AnswerType DEF BroadcastEnds, BroadcastSkips, Answer500
  <2>3. faults' \in [Calls -> 0..MaxFaults]
    BY <1>7, RunningType, FaultType DEF BroadcastEnds, BroadcastSkips, TypeOK
  <2>4. UNCHANGED <<rows, handlers, pageVars, followed>>
    BY <1>7 DEF BroadcastEnds, BroadcastSkips
  <2> QED BY <2>1, <2>2, <2>3, <2>4 DEF TypeOK, pageVars, rows
<1>8. ASSUME NEW b \in broadcasts, BroadcastRaises(b) PROVE TypeOK'
  <2>1. stage' \in [Calls -> Stages]
    BY <1>8, RunningType, AdvanceType DEF BroadcastRaises, TypeOK
  <2>2. faults' \in [Calls -> 0..MaxFaults]
    BY <1>8, RunningType, FaultType DEF BroadcastRaises, TypeOK
  <2>3. broadcasts' \subseteq Broadcast /\ UNCHANGED <<rows, handlers, active, pageVars, followed>>
    BY <1>1, <1>8 DEF BroadcastRaises
  <2> QED BY <2>1, <2>2, <2>3 DEF TypeOK, pageVars, rows
<1>9. ASSUME NEW b \in broadcasts, NEW q \in Sockets, SendTo(b, q) PROVE TypeOK'
  <2>1. PICK raises \in BOOLEAN :
          broadcasts' = (broadcasts \ {b}) \cup
             {[b EXCEPT !.unseen = @ \ {q}, !.seen = @ \cup {q},
                        !.dead = IF raises THEN @ \cup {q} ELSE @]}
    BY <1>9 DEF SendTo
  <2>2. broadcasts' \subseteq Broadcast
    <3> DEFINE new == [b EXCEPT !.unseen = @ \ {q}, !.seen = @ \cup {q},
                                !.dead = IF raises THEN @ \cup {q} ELSE @]
    <3>1. b \in Broadcast /\ (IF raises THEN b.dead \cup {q} ELSE b.dead) \in SUBSET Sockets
      BY <1>1 DEF Broadcast
    <3>2. new \in Broadcast
      BY <3>1 DEF Broadcast
    <3>3. broadcasts' = (broadcasts \ {b}) \cup {new}
      BY <2>1
    <3> HIDE DEF new
    <3> QED BY <1>1, <3>2, <3>3
  <2>3. [event |-> b.event, call |-> b.call] \in Message
    BY RunningType DEF Message
  <2>4. channel' \in [Pages -> Seq(Message)]
    BY <1>9, <2>3 DEF SendTo, TypeOK, rows
  <2> QED BY <1>9, <2>2, <2>4 DEF SendTo, TypeOK, rows
<1>10. ASSUME NEW q \in Sockets, Join(q) PROVE TypeOK'
  <2>1. broadcasts' \subseteq Broadcast
    BY <1>1, <1>10 DEF Join, Broadcast
  <2> QED BY <1>10, <2>1 DEF Join, TypeOK, rows
<1>11. ASSUME NEW p \in Pages, Receive(p) PROVE TypeOK'
  <2>1. Head(channel[p]) \in Message /\ Tail(channel[p]) \in Seq(Message)
    BY <1>11 DEF Receive, TypeOK
  <2>2. channel' \in [Pages -> Seq(Message)] /\ shown' \in [Pages -> SUBSET Calls]
    BY <1>11, <2>1 DEF Receive, TypeOK, Message
  <2>3. UNCHANGED <<serverVars, conn, fetch, snapshot, faults, followed>>
    BY <1>11 DEF Receive
  <2> QED BY <2>2, <2>3 DEF TypeOK, serverVars, rows
<1>12. ASSUME NEW p \in Pages, ServeSnapshot(p) \/ LoadSnapshot(p) \/ FetchFails(p) PROVE TypeOK'
  <2>1. /\ fetch' \in [Pages -> {"asked", "answered", "done"}]
        /\ snapshot' \in [Pages -> SUBSET Calls]
        /\ shown' \in [Pages -> SUBSET Calls]
    <3>1. CASE ServeSnapshot(p)
      BY <3>1 DEF ServeSnapshot, TypeOK
    <3>2. CASE LoadSnapshot(p)
      BY <3>2 DEF LoadSnapshot, TypeOK
    <3>3. CASE FetchFails(p)
      BY <3>3 DEF FetchFails, TypeOK
    <3> QED BY <1>12, <3>1, <3>2, <3>3
  <2>2. UNCHANGED <<serverVars, conn, channel, faults, followed>>
    BY <1>12 DEF ServeSnapshot, LoadSnapshot, FetchFails
  <2> QED BY <2>1, <2>2 DEF TypeOK, serverVars, rows
<1>13. ASSUME NEW p \in Pages, Drop(p) PROVE TypeOK'
  <2>1. p \in Sockets
    BY FeedAssumption
  <2> QED BY <1>13, <2>1 DEF Drop, TypeOK, serverVars, rows
<1>14. ASSUME NEW q \in Sockets, DropOther(q) \/ Remount(q) PROVE TypeOK'
  BY <1>14 DEF DropOther, Remount, TypeOK, serverVars, rows
<1>15. ASSUME NEW q \in Sockets, Disconnect(q) PROVE TypeOK'
  <2>1. broadcasts' \subseteq Broadcast /\ active' \subseteq active
    BY <1>15, UnregisterType DEF Disconnect
  <2> QED BY <1>15, <2>1 DEF Disconnect, TypeOK, pageVars, rows
<1>16. CASE UNCHANGED vars
  BY <1>16 DEF TypeOK, vars, serverVars, pageVars, rows
<1> QED BY <1>2, <1>3, <1>4, <1>5, <1>6, <1>7, <1>8, <1>9, <1>10, <1>11, <1>12, <1>13, <1>14,
           <1>15, <1>16 DEF Next, HandlerStep, Broadcasting

\* Every variable of the feed keeps its type, and only sockets that were
\* accepted are registered.
THEOREM FeedTypeCorrect == Spec => []TypeOK
<1>1. Init => TypeOK
  BY FeedAssumption DEF Init, TypeOK, Stages
<1> QED BY <1>1, FeedStepsKeepType, PTL DEF Spec

(***************************************************************************)
(* What the messages on their way to a page will leave it with.             *)
(***************************************************************************)
Over == {"finished", "over"}

\* Once the messages s are read, the last word on the call c is the event e;
\* i = 0 stands for what the page shows already, its map having the given keys.
LastWord(s, keys, c, e) ==
    \E i \in 0..Len(s) :
        /\ IF i = 0 THEN c \in keys <=> e = "call_started" ELSE s[i].call = c /\ s[i].event = e
        /\ \A j \in 1..Len(s) : j > i /\ s[j].call = c => s[j].event = e

Hears(p, c, e) == LastWord(channel[p], shown[p], c, e)

\* LiveKit waits for at most one handler of a call, of the webhook it is
\* sending, and for each unless a failure made it late.  Nothing runs for the
\* end of a call that has not ended.
StageFits(h, now, failures) ==
    /\ h.late = 0 => now = IF h.event = "call_started" THEN "started" ELSE "finished"
    /\ failures = 0 => h.late = 0
    /\ h.event = "call_ended" => now \in Over

AwaitedOnce(S) == \A g, h \in S : g.call = h.call /\ g.late = 0 /\ h.late = 0 => g = h

\* A broadcast notes only sockets as dead that are, and that nobody has removed
\* yet; a handler broadcasts when the call has a row.
RunningOK ==
    /\ \A h \in handlers : /\ StageFits(h, stage[h.call], faults[h.call])
                           /\ h.pc = "broadcast" => RowCount(h.call) >= 1
    /\ \A b \in broadcasts : /\ StageFits(b, stage[b.call], faults[b.call])
                             /\ \A q \in b.dead : q \in active /\ conn[q] = "down"
    /\ AwaitedOnce(handlers) /\ AwaitedOnce(broadcasts)
    /\ \A h \in handlers, b \in broadcasts : ~(h.call = b.call /\ h.late = 0 /\ b.late = 0)

\* A page that follows a call stays registered and loaded.
Loaded(p, c) ==
    /\ p \in active /\ conn[p] = "up" /\ fetch[p] = "done"
    /\ stage[c] # "none" /\ RowCount(c) >= 1

\* While no failure concerned the call, the page has been told by its running
\* broadcast or will be, and when the webhook is done with it has been.
Told(p, c) ==
    /\ \A b \in broadcasts : b.call = c => p \in b.unseen \/ Hears(p, c, b.event)
    /\ stage[c] = "talking" => Hears(p, c, "call_started")
    /\ stage[c] = "over" => Hears(p, c, "call_ended")

FeedInv ==
    /\ RunningOK
    /\ \A p \in Pages : \A c \in followed[p] :
          Loaded(p, c) /\ (faults[c] = 0 /\ RowCount(c) = 1 => Told(p, c))

LEMMA WordAppended ==
    ASSUME NEW s \in Seq(Message), NEW m \in Message, NEW keys, NEW c, NEW e
    PROVE  /\ m.call = c /\ m.event = e => LastWord(Append(s, m), keys, c, e)
           /\ m.call # c /\ LastWord(s, keys, c, e) => LastWord(Append(s, m), keys, c, e)
<1> DEFINE t == Append(s, m)
<1>1. Len(s) \in Nat /\ Len(t) = Len(s) + 1
  OBVIOUS
<1>2. t[Len(s) + 1] = m /\ \A i \in 1..Len(s) : t[i] = s[i]
  OBVIOUS
<1> HIDE DEF t
<1>3. ASSUME m.call = c, m.event = e PROVE LastWord(t, keys, c, e)
  <2>1. Len(s) + 1 \in 0..Len(t) /\ Len(s) + 1 # 0
    BY <1>1
  <2>2. \A j \in 1..Len(t) : ~(j > Len(s) + 1)
    BY <1>1
  <2> QED BY <1>2, <1>3, <2>1, <2>2 DEF LastWord
<1>4. ASSUME m.call # c, LastWord(s, keys, c, e) PROVE LastWord(t, keys, c, e)
  <2>1. PICK i \in 0..Len(s) :
           /\ IF i = 0 THEN c \in keys <=> e = "call_started" ELSE s[i].call = c /\ s[i].event = e
           /\ \A j \in 1..Len(s) : j > i /\ s[j].call = c => s[j].event = e
    BY <1>4 DEF LastWord
  <2>2. i \in 0..Len(t) /\ (i # 0 => t[i] = s[i])
    BY <1>1, <1>2
  <2>3. \A j \in 1..Len(t) : j \in 1..Len(s) \/ t[j] = m
    BY <1>1, <1>2
  <2> QED BY <1>2, <1>4, <2>1, <2>2, <2>3 DEF LastWord
<1> QED BY <1>3, <1>4 DEF t

\* Reading a message leaves the last word where it was.
LEMMA WordRead ==
    ASSUME NEW s \in Seq(Message), s # <<>>, NEW keys, NEW after, NEW c, NEW e,
           LastWord(s, keys, c, e),
           c \in after <=> IF Head(s).call = c THEN Head(s).event = "call_started" ELSE c \in keys
    PROVE  LastWord(Tail(s), after, c, e)
<1> DEFINE t == Tail(s)
<1>1. Len(s) \in Nat /\ Len(s) >= 1 /\ Len(t) = Len(s) - 1 /\ Head(s) = s[1]
  OBVIOUS
<1>2. \A i \in 1..Len(t) : t[i] = s[i + 1]
  OBVIOUS
<1> HIDE DEF t
<1>3. PICK i \in 0..Len(s) :
         /\ IF i = 0 THEN c \in keys <=> e = "call_started" ELSE s[i].call = c /\ s[i].event = e
         /\ \A j \in 1..Len(s) : j > i /\ s[j].call = c => s[j].event = e
  BY DEF LastWord
<1>4. CASE i <= 1
  <2>1. c \in after <=> e = "call_started"
    BY <1>1, <1>3, <1>4
  <2>2. ASSUME NEW j \in 1..Len(t), t[j].call = c PROVE t[j].event = e
    <3>1. j + 1 \in 1..Len(s) /\ j + 1 > i
      BY <1>1, <1>4
    <3> QED BY <1>2, <1>3, <2>2, <3>1
  <2>3. 0 \in 0..Len(t)
    BY <1>1
  <2> QED BY <2>1, <2>2, <2>3 DEF LastWord, t
<1>5. CASE i > 1
  <2>1. i - 1 \in 1..Len(t) /\ i - 1 \in 0..Len(t) /\ i - 1 # 0 /\ (i - 1) + 1 = i
    BY <1>1, <1>5
  <2>2. t[i - 1].call = c /\ t[i - 1].event = e
    BY <1>2, <1>3, <1>5, <2>1
  <2>3. ASSUME NEW j \in 1..Len(t), j > i - 1, t[j].call = c PROVE t[j].event = e
    <3>1. j + 1 \in 1..Len(s) /\ j + 1 > i
      BY <1>1, <2>3
    <3> QED BY <1>2, <1>3, <2>3, <3>1
  <2> QED BY <2>1, <2>2, <2>3 DEF LastWord, t
<1> QED BY <1>4, <1>5

LEMMA WordOfNothing ==
    ASSUME NEW keys, NEW c, NEW e, LastWord(<<>>, keys, c, e)
    PROVE  c \in keys <=> e = "call_started"
BY DEF LastWord

(***************************************************************************)
(* The handlers and broadcasts that run.                                    *)
(***************************************************************************)
LEMMA RowsGrow ==
    ASSUME TypeOK, TypeOK', [Next]_vars, NEW c \in Calls
    PROVE  RowCount(c) \in Nat /\ RowCount(c)' \in Nat /\ RowCount(c)' >= RowCount(c)
<1>1. /\ workerRows[c] \in Nat /\ handlerRows[c] \in Nat
      /\ workerRows'[c] \in Nat /\ handlerRows'[c] \in Nat
  BY DEF TypeOK
<1> DEFINE Goal == workerRows'[c] >= workerRows[c] /\ handlerRows'[c] >= handlerRows[c]
<1>2. ASSUME UNCHANGED rows PROVE Goal
  <2>1. workerRows' = workerRows /\ handlerRows' = handlerRows
    BY <1>2 DEF rows
  <2> QED BY <1>1, <2>1
<1>3. ASSUME NEW d \in Calls, WorkerRecords(d) PROVE Goal
  BY <1>1, <1>3 DEF WorkerRecords, TypeOK
<1>4. ASSUME NEW h \in handlers, CommitsRow(h) PROVE Goal
  BY <1>1, <1>4, RunningType DEF CommitsRow, TypeOK
<1>5. Goal
  BY <1>2, <1>3, <1>4 DEF Next, vars, HandlerStep, Broadcasting, RoomCreated, RoomCloses, Deliver,
     AnswerTimesOut, SelectRaises, FindsCall, FindsNone, BroadcastBegins, HandlerFails,
     BroadcastEnds, BroadcastSkips, BroadcastRaises, SendTo, Join, ServeSnapshot, LoadSnapshot,
     FetchFails, Receive, Drop, DropOther, Disconnect, Remount, serverVars
<1> QED BY <1>1, <1>5 DEF RowCount

\* An answer that LiveKit waits for moves the stage of no other handler.
LEMMA AnswerKeepsStage ==
    ASSUME TypeOK, RunningOK, NEW h \in handlers \cup broadcasts, Answer500(h),
           NEW g \in handlers \cup broadcasts, ~(g.call = h.call /\ g.late = 0 /\ h.late = 0)
    PROVE  /\ g.late = 0 => stage'[g.call] = stage[g.call]
           /\ stage[g.call] \in Over => stage'[g.call] \in Over
<1>1. h.call \in Calls /\ g.call \in Calls
  BY RunningType
<1>2. stage' = stage \/ (h.late = 0 /\ stage' = [stage EXCEPT ![h.call] =
                                     IF @ = "started" THEN "talking" ELSE "over"])
  BY DEF Answer500, Answer200, Advance
<1> QED BY <1>1, <1>2 DEF TypeOK, Over

LEMMA FitsStays ==
    ASSUME NEW h, StageFits(h, stage[h.call], faults[h.call]), NEW g, g.call = h.call, g.event = h.event,
           g.late = h.late, h.late = 0 => stage'[h.call] = stage[h.call],
           stage[h.call] \in Over => stage'[h.call] \in Over,
           faults'[h.call] = 0 => faults[h.call] = 0
    PROVE  StageFits(g, stage'[g.call], faults'[g.call])
BY DEF StageFits

\* A failure of one call leaves the others alone.
LEMMA FaultElsewhere ==
    ASSUME TypeOK, NEW c \in Calls, faults' = faults \/ Fault(c), NEW d \in Calls
    PROVE  faults'[d] = 0 => faults[d] = 0
BY DEF TypeOK, Fault

LEMMA Unregistered ==
    ASSUME TypeOK, RunningOK, NEW sockets, NEW running \in SUBSET broadcasts,
           Unregister(sockets, running)
    PROVE  /\ \A b \in broadcasts' : \E a \in running :
                 /\ b.call = a.call /\ b.event = a.event /\ b.late = a.late
                 /\ b.unseen = a.unseen \ sockets /\ b.dead = a.dead \ sockets
           /\ AwaitedOnce(broadcasts)'
<1> DEFINE Left(a) == [a EXCEPT !.unseen = @ \ sockets, !.seen = @ \ sockets,
                                !.dead = @ \ sockets]
<1>1. broadcasts' = {Left(a) : a \in running}
  BY DEF Unregister
<1>2. ASSUME NEW a \in running
      PROVE  /\ Left(a).call = a.call /\ Left(a).event = a.event /\ Left(a).late = a.late
             /\ Left(a).unseen = a.unseen \ sockets /\ Left(a).dead = a.dead \ sockets
  <2>1. a \in Broadcast
    BY DEF TypeOK
  <2> QED BY <2>1 DEF Broadcast
<1> HIDE DEF Left
<1> QED BY <1>1, <1>2 DEF RunningOK, AwaitedOnce

LEMMA FeedStepsKeepRunning ==
    ASSUME TypeOK, TypeOK', RunningOK, [Next]_vars
    PROVE  RunningOK'
<1> DEFINE Goal == RunningOK'
<1>1. \A h \in handlers \cup broadcasts :
         h.call \in Calls /\ h.event \in Events /\ h.late \in 0..MaxFaults
  BY RunningType
<1>2. \A c \in Calls : RowCount(c)' >= RowCount(c) /\ RowCount(c) \in Nat /\ RowCount(c)' \in Nat
  BY RowsGrow
\* The handlers and broadcasts stay, with what they know of their calls.
<1>3. ASSUME handlers' = handlers, broadcasts' = broadcasts, faults' = faults,
             \A c \in Calls : stage[c] \in {"started", "finished", "over"} => stage'[c] = stage[c],
             \A q \in active : conn[q] = "down" => q \in active' /\ conn'[q] = "down"
      PROVE  Goal
  <2>1. ASSUME NEW h \in handlers \cup broadcasts, StageFits(h, stage[h.call], faults[h.call])
        PROVE  StageFits(h, stage'[h.call], faults'[h.call])
    BY <1>1, <1>3, <2>1 DEF StageFits, Over, Events
  <2>2. \A h \in handlers : h.pc = "broadcast" => RowCount(h.call)' >= 1
    BY <1>1, <1>2 DEF RunningOK
  <2> QED BY <1>3, <2>1, <2>2 DEF RunningOK, AwaitedOnce, RowCount
<1>4. ASSUME NEW c \in Calls, RoomCreated(c) \/ WorkerRecords(c) \/ RoomCloses(c) PROVE Goal
  <2>1. UNCHANGED <<handlers, broadcasts, active, conn, faults>>
    BY <1>4 DEF RoomCreated, WorkerRecords, RoomCloses, pageVars
  <2>2. \A d \in Calls : stage[d] \in {"started", "finished", "over"} => stage'[d] = stage[d]
    BY <1>4 DEF RoomCreated, WorkerRecords, RoomCloses, TypeOK
  <2> QED BY <1>3, <2>1, <2>2
<1>5. ASSUME NEW c \in Calls, Deliver(c) PROVE Goal
  <2> DEFINE new == [event |-> IF stage[c] = "started" THEN "call_started" ELSE "call_ended",
                     call |-> c, late |-> 0, pc |-> "select"]
  <2>1. /\ UNCHANGED <<stage, broadcasts, active, conn, faults>> /\ handlers' = handlers \cup {new}
        /\ stage[c] \in {"started", "finished"}
        /\ \A h \in handlers \cup broadcasts : h.call = c => h.late # 0
    BY <1>5 DEF Deliver, pageVars
  <2>2. /\ new.event = IF stage[c] = "started" THEN "call_started" ELSE "call_ended"
        /\ new.call = c /\ new.late = 0 /\ new.pc = "select"
    OBVIOUS
  <2> HIDE DEF new
  <2>3. StageFits(new, stage'[new.call], faults'[new.call])
    BY <2>1, <2>2 DEF StageFits, Over
  <2>4. ASSUME NEW h \in handlers \cup broadcasts, StageFits(h, stage[h.call], faults[h.call])
        PROVE  StageFits(h, stage'[h.call], faults'[h.call])
    BY <2>1, <2>4 DEF StageFits
  <2>5. \A h \in handlers : h.pc = "broadcast" => RowCount(h.call)' >= 1
    BY <1>1, <1>2 DEF RunningOK
  <2>6. AwaitedOnce(handlers)'
    BY <2>1, <2>2 DEF RunningOK, AwaitedOnce
  <2>7. AwaitedOnce(broadcasts)' /\ \A h \in handlers', b \in broadcasts' :
                                       ~(h.call = b.call /\ h.late = 0 /\ b.late = 0)
    BY <2>1, <2>2 DEF RunningOK, AwaitedOnce
  <2> QED BY <2>1, <2>2, <2>3, <2>4, <2>5, <2>6, <2>7 DEF RunningOK, RowCount
<1>6. ASSUME NEW c \in Calls, AnswerTimesOut(c) PROVE Goal
  <2> DEFINE Late(h) == IF h.call = c /\ h.late = 0 THEN [h EXCEPT !.late = faults'[c]] ELSE h
  <2>1. /\ handlers' = {Late(h) : h \in handlers} /\ broadcasts' = {Late(b) : b \in broadcasts}
        /\ Fault(c) /\ (stage' = stage \/ Advance(c))
        /\ UNCHANGED <<active, conn>>
        /\ \E h \in handlers \cup broadcasts : h.call = c /\ h.late = 0
    BY <1>6 DEF AnswerTimesOut, pageVars
  <2>2. faults'[c] > 0 /\ faults'[c] \in Nat /\ \A d \in Calls : faults'[d] = 0 => faults[d] = 0
    BY <2>1, FaultType, FaultElsewhere
  <2>3. stage[c] \in {"started", "finished"}
    BY <2>1 DEF RunningOK, StageFits
  <2>4. /\ \A d \in Calls : d # c => stage'[d] = stage[d]
        /\ stage[c] \in Over => stage'[c] \in Over
    BY <2>1, <2>3 DEF Advance, TypeOK, Over
  <2>5. /\ \A h \in handlers : /\ Late(h).call = h.call /\ Late(h).event = h.event
                               /\ Late(h).pc = h.pc
                               /\ Late(h).late = IF h.call = c /\ h.late = 0 THEN faults'[c] ELSE h.late
        /\ \A b \in broadcasts : /\ Late(b).call = b.call /\ Late(b).event = b.event
                                 /\ Late(b).dead = b.dead
                                 /\ Late(b).late = IF b.call = c /\ b.late = 0 THEN faults'[c]
                                                                               ELSE b.late
    BY DEF TypeOK, Handler, Broadcast
  <2> HIDE DEF Late
  <2>6. ASSUME NEW h \in handlers \cup broadcasts, StageFits(h, stage[h.call], faults[h.call])
        PROVE  StageFits(Late(h), stage'[Late(h).call], faults'[Late(h).call])
    <3>1. /\ Late(h).call = h.call /\ Late(h).event = h.event
          /\ Late(h).late = IF h.call = c /\ h.late = 0 THEN faults'[c] ELSE h.late
      BY <2>5
    <3>2. CASE h.call = c
      <4>1. Late(h).late # 0 /\ faults'[h.call] # 0
        BY <2>2, <3>1, <3>2
      <4> QED BY <2>4, <2>6, <3>1, <3>2, <4>1 DEF StageFits
    <3>3. CASE h.call # c
      BY <1>1, <2>2, <2>4, <2>6, <3>1, <3>3 DEF StageFits
    <3> QED BY <3>2, <3>3
  <2>7. \A h \in handlers : h.pc = "broadcast" => workerRows'[h.call] + handlerRows'[h.call] >= 1
    BY <1>1, <1>2 DEF RunningOK, RowCount
  <2>8. /\ \A h \in handlers : Late(h).late = 0 => Late(h) = h /\ h.late = 0
        /\ \A b \in broadcasts : Late(b).late = 0 => Late(b) = b /\ b.late = 0
    BY <2>2 DEF Late, TypeOK, Handler, Broadcast
  <2>9. AwaitedOnce(handlers)' /\ AwaitedOnce(broadcasts)'
    BY <2>1, <2>8 DEF RunningOK, AwaitedOnce
  <2>10. \A h \in handlers', b \in broadcasts' : ~(h.call = b.call /\ h.late = 0 /\ b.late = 0)
    BY <2>1, <2>8 DEF RunningOK
  <2>11. \A a \in handlers' : /\ StageFits(a, stage'[a.call], faults'[a.call])
                              /\ a.pc = "broadcast" => workerRows'[a.call] + handlerRows'[a.call] >= 1
    <3> SUFFICES ASSUME NEW h \in handlers
                 PROVE  /\ StageFits(Late(h), stage'[Late(h).call], faults'[Late(h).call])
                        /\ Late(h).pc = "broadcast" =>
                              workerRows'[Late(h).call] + handlerRows'[Late(h).call] >= 1
      BY <2>1
    <3> QED BY <2>5, <2>6, <2>7 DEF RunningOK
  <2>12. \A b \in broadcasts' : /\ StageFits(b, stage'[b.call], faults'[b.call])
                                /\ \A q \in b.dead : q \in active' /\ conn'[q] = "down"
    <3> SUFFICES ASSUME NEW b \in broadcasts
                 PROVE  /\ StageFits(Late(b), stage'[Late(b).call], faults'[Late(b).call])
                        /\ \A q \in Late(b).dead : q \in active' /\ conn'[q] = "down"
      BY <2>1
    <3> QED BY <2>1, <2>5, <2>6 DEF RunningOK, RowCount
  <2> QED BY <2>9, <2>10, <2>11, <2>12 DEF RunningOK, RowCount
\* A handler or broadcast is gone, and with it the answer.
<1>7. ASSUME NEW h \in handlers, handlers' = handlers \ {h}, Answer500(h),
             faults' = faults \/ Fault(h.call), UNCHANGED <<broadcasts, active, conn>>
      PROVE  Goal
  <2>1. \A d \in Calls : faults'[d] = 0 => faults[d] = 0
    BY <1>1, <1>7, FaultElsewhere
  <2>2. ASSUME NEW g \in handlers' \cup broadcasts PROVE StageFits(g, stage'[g.call], faults'[g.call])
    <3>1. g \in handlers \cup broadcasts /\ StageFits(g, stage[g.call], faults[g.call])
          /\ ~(g.call = h.call /\ g.late = 0 /\ h.late = 0)
      BY <1>7 DEF RunningOK, AwaitedOnce
    <3>2. /\ g.late = 0 => stage'[g.call] = stage[g.call]
          /\ stage[g.call] \in Over => stage'[g.call] \in Over
      BY <1>7, <3>1, AnswerKeepsStage
    <3>3. faults'[g.call] = 0 => faults[g.call] = 0
      BY <1>1, <2>1, <3>1
    <3> QED BY <3>1, <3>2, <3>3, FitsStays
  <2>3. \A g \in handlers : g.pc = "broadcast" => RowCount(g.call)' >= 1
    BY <1>1, <1>2 DEF RunningOK
  <2> QED BY <1>7, <2>2, <2>3 DEF RunningOK, AwaitedOnce, RowCount
<1>8. ASSUME NEW b \in broadcasts, UNCHANGED <<handlers, conn>>, Answer500(b),
             faults' = faults \/ Fault(b.call), \A q \in active' : q \in active,
             \A a \in broadcasts' : \E d \in broadcasts \ {b} :
                /\ a.call = d.call /\ a.event = d.event /\ a.late = d.late
                /\ \A q \in a.dead : q \in d.dead /\ q \in active',
             AwaitedOnce(broadcasts)'
      PROVE  Goal
  <2>1. \A d \in Calls : faults'[d] = 0 => faults[d] = 0
    BY <1>1, <1>8, FaultElsewhere
  <2>2. ASSUME NEW g \in handlers \cup (broadcasts \ {b}), NEW a, a.call = g.call, a.event = g.event,
               a.late = g.late
        PROVE  StageFits(a, stage'[a.call], faults'[a.call])
    <3>1. g \in handlers \cup broadcasts /\ StageFits(g, stage[g.call], faults[g.call])
          /\ ~(g.call = b.call /\ g.late = 0 /\ b.late = 0)
      BY <1>8 DEF RunningOK, AwaitedOnce
    <3>2. /\ g.late = 0 => stage'[g.call] = stage[g.call]
          /\ stage[g.call] \in Over => stage'[g.call] \in Over
      BY <1>8, <3>1, AnswerKeepsStage
    <3>3. faults'[g.call] = 0 => faults[g.call] = 0
      BY <1>1, <2>1, <3>1
    <3> QED BY <2>2, <3>1, <3>2, <3>3, FitsStays
  <2>3. \A g \in handlers : g.pc = "broadcast" => RowCount(g.call)' >= 1
    BY <1>1, <1>2 DEF RunningOK
  <2>4. \A a \in broadcasts' : /\ StageFits(a, stage'[a.call], faults'[a.call])
                               /\ \A q \in a.dead : q \in active' /\ conn'[q] = "down"
    <3> SUFFICES ASSUME NEW a \in broadcasts'
                 PROVE  /\ StageFits(a, stage'[a.call], faults'[a.call])
                        /\ \A q \in a.dead : q \in active' /\ conn'[q] = "down"
      OBVIOUS
    <3>1. PICK d \in broadcasts \ {b} : /\ a.call = d.call /\ a.event = d.event /\ a.late = d.late
                                         /\ \A q \in a.dead : q \in d.dead /\ q \in active'
      BY <1>8
    <3> QED BY <1>8, <2>2, <3>1 DEF RunningOK, RowCount
  <2>5. \A h \in handlers', a \in broadcasts' : ~(h.call = a.call /\ h.late = 0 /\ a.late = 0)
    BY <1>8 DEF RunningOK
  <2>6. \A h \in handlers' : StageFits(h, stage'[h.call], faults'[h.call])
    BY <1>8, <2>2
  <2>7. AwaitedOnce(handlers)'
    BY <1>8 DEF RunningOK, AwaitedOnce
  <2> QED BY <1>8, <2>3, <2>4, <2>5, <2>6, <2>7 DEF RunningOK, RowCount
\* A handler goes on.
<1>9. ASSUME NEW h \in handlers, NEW pc, Continues(h, [h EXCEPT !.pc = pc]),
             UNCHANGED <<stage, broadcasts, active, conn, faults>>,
             pc = "broadcast" => RowCount(h.call)' >= 1
      PROVE  Goal
  <2> DEFINE after == [h EXCEPT !.pc = pc]
  <2>1. after.call = h.call /\ after.event = h.event /\ after.late = h.late /\ after.pc = pc
    BY DEF TypeOK, Handler
  <2>2. handlers' = (handlers \ {h}) \cup {after}
    BY <1>9 DEF Continues
  <2> HIDE DEF after
  <2>3. ASSUME NEW g \in handlers \cup broadcasts, StageFits(g, stage[g.call], faults[g.call])
        PROVE  StageFits(g, stage'[g.call], faults'[g.call])
    BY <1>9, <2>3 DEF StageFits
  <2>4. StageFits(after, stage'[after.call], faults'[after.call])
    BY <1>9, <2>1 DEF StageFits, RunningOK
  <2>5. \A g \in handlers : g.pc = "broadcast" => RowCount(g.call)' >= 1
    BY <1>1, <1>2 DEF RunningOK
  <2> QED BY <1>9, <2>1, <2>2, <2>3, <2>4, <2>5 DEF RunningOK, AwaitedOnce, RowCount
<1>10. ASSUME NEW h \in handlers, SelectRaises(h) \/ HandlerFails(h) PROVE Goal
  <2>1. /\ handlers' = handlers \ {h} /\ Answer500(h) /\ UNCHANGED <<broadcasts, active, conn>>
        /\ faults' = faults \/ Fault(h.call)
    BY <1>10 DEF SelectRaises, HandlerFails, pageVars
  <2> HIDE DEF Goal
  <2> QED BY <1>7, <2>1
<1>11. ASSUME NEW h \in handlers, FindsCall(h) PROVE Goal
  <2>1. /\ Continues(h, [h EXCEPT !.pc = "broadcast"]) /\ RowCount(h.call) = 1
        /\ UNCHANGED <<stage, broadcasts, active, conn, faults>>
    BY <1>11 DEF FindsCall, pageVars
  <2>2. RowCount(h.call)' >= 1
    BY <1>1, <1>2, <2>1
  <2> HIDE DEF Goal
  <2> QED BY <1>9, <2>1, <2>2
<1>12. ASSUME NEW h \in handlers, FindsNone(h) PROVE Goal
  <2>1. UNCHANGED <<broadcasts, active, conn, faults>>
    BY <1>12 DEF FindsNone, pageVars
  <2>2. \/ Continues(h, [h EXCEPT !.pc = "insert"]) /\ UNCHANGED stage
        \/ handlers' = handlers \ {h} /\ Answer500(h)
    BY <1>12 DEF FindsNone, Answer500
  <2> HIDE DEF Goal
  <2> QED BY <1>7, <1>9, <2>1, <2>2
<1>13. ASSUME NEW h \in handlers, CommitsRow(h) PROVE Goal
  <2>1. /\ Continues(h, [h EXCEPT !.pc = "broadcast"])
        /\ UNCHANGED <<stage, broadcasts, active, conn, faults>>
    BY <1>13 DEF CommitsRow, pageVars
  <2>2. RowCount(h.call)' >= 1
    <3>1. /\ h.call \in Calls /\ workerRows' = workerRows
          /\ handlerRows' = [handlerRows EXCEPT ![h.call] = @ + 1]
      BY <1>1, <1>13 DEF CommitsRow
    <3>2. handlerRows'[h.call] = handlerRows[h.call] + 1
      BY <3>1 DEF TypeOK
    <3>3. workerRows \in [Calls -> 0..1] /\ handlerRows \in [Calls -> Nat]
      BY DEF TypeOK
    <3>4. workerRows'[h.call] \in Nat /\ handlerRows[h.call] \in Nat
      BY <3>1, <3>3
    <3> QED BY <3>2, <3>4 DEF RowCount
  <2> HIDE DEF Goal
  <2> QED BY <1>9, <2>1, <2>2
<1>14. ASSUME NEW h \in handlers, BroadcastBegins(h) PROVE Goal
  <2> DEFINE new == [event |-> h.event, call |-> h.call, late |-> h.late,
                     size |-> Cardinality(active), unseen |-> active, seen |-> {}, dead |-> {},
                     moved |-> FALSE]
  <2>1. /\ broadcasts' = broadcasts \cup {new} /\ handlers' = handlers \ {h}
        /\ UNCHANGED <<stage, active, conn, faults>>
    BY <1>14 DEF BroadcastBegins, Begin, pageVars
  <2>2. new.call = h.call /\ new.event = h.event /\ new.late = h.late /\ new.dead = {}
    OBVIOUS
  <2> HIDE DEF new
  <2>3. ASSUME NEW g \in handlers \cup broadcasts, StageFits(g, stage[g.call], faults[g.call])
        PROVE  StageFits(g, stage'[g.call], faults'[g.call])
    BY <2>1, <2>3 DEF StageFits
  <2>4. StageFits(new, stage'[new.call], faults'[new.call])
    BY <2>1, <2>2 DEF StageFits, RunningOK
  <2>5. \A g \in handlers : g.pc = "broadcast" => RowCount(g.call)' >= 1
    BY <1>1, <1>2 DEF RunningOK
  <2>6. AwaitedOnce(handlers)' /\ AwaitedOnce(broadcasts)'
    BY <2>1, <2>2 DEF RunningOK, AwaitedOnce
  <2>7. \A g \in handlers', b \in broadcasts' : ~(g.call = b.call /\ g.late = 0 /\ b.late = 0)
    BY <2>1, <2>2 DEF RunningOK, AwaitedOnce
  <2> QED BY <2>1, <2>2, <2>3, <2>4, <2>5, <2>6, <2>7 DEF RunningOK, RowCount
<1>15. ASSUME NEW b \in broadcasts, BroadcastEnds(b) \/ BroadcastSkips(b) PROVE Goal
  <2>1. /\ Unregister(b.dead, broadcasts \ {b}) /\ Answer500(b) /\ UNCHANGED <<handlers, conn>>
        /\ faults' = faults \/ Fault(b.call)
    BY <1>15 DEF BroadcastEnds, BroadcastSkips, Answer500, pageVars
  <2>2. active' = active \ b.dead
    BY <2>1 DEF Unregister
  <2>3. /\ \A a \in broadcasts' : \E d \in broadcasts \ {b} :
              /\ a.call = d.call /\ a.event = d.event /\ a.late = d.late
              /\ a.unseen = d.unseen \ b.dead /\ a.dead = d.dead \ b.dead
        /\ AwaitedOnce(broadcasts)'
    BY <2>1, Unregistered
  <2>4. \A a \in broadcasts' : \E d \in broadcasts \ {b} :
           /\ a.call = d.call /\ a.event = d.event /\ a.late = d.late
           /\ \A q \in a.dead : q \in d.dead /\ q \in active'
    BY <2>2, <2>3 DEF RunningOK
  <2> HIDE DEF Goal
  <2> QED BY <1>8, <2>1, <2>2, <2>3, <2>4
<1>16. ASSUME NEW b \in broadcasts, BroadcastRaises(b) PROVE Goal
  <2>1. /\ broadcasts' = broadcasts \ {b} /\ UNCHANGED <<handlers, active, conn>>
        /\ Answer500(b) /\ (faults' = faults \/ Fault(b.call))
    BY <1>16 DEF BroadcastRaises, Answer500, Answer200, pageVars
  <2>2. AwaitedOnce(broadcasts)'
    BY <2>1 DEF RunningOK, AwaitedOnce
  <2>3. \A a \in broadcasts' : \E d \in broadcasts \ {b} :
           /\ a.call = d.call /\ a.event = d.event /\ a.late = d.late
           /\ \A q \in a.dead : q \in d.dead /\ q \in active'
    BY <2>1 DEF RunningOK
  <2> HIDE DEF Goal
  <2> QED BY <1>8, <2>1, <2>2, <2>3
\* Broadcasts go on.
<1>17. ASSUME UNCHANGED <<stage, handlers, faults>>, AwaitedOnce(broadcasts)',
              \A a \in broadcasts' : \E d \in broadcasts :
                 /\ a.call = d.call /\ a.event = d.event /\ a.late = d.late
                 /\ \A q \in a.dead : q \in active' /\ conn'[q] = "down"
       PROVE  Goal
  <2>1. ASSUME NEW h \in handlers \cup broadcasts, NEW a,
               StageFits(h, stage[h.call], faults[h.call]), a.call = h.call, a.event = h.event, a.late = h.late
        PROVE  StageFits(a, stage'[a.call], faults'[a.call])
    BY <1>17, <2>1 DEF StageFits
  <2>2. \A g \in handlers : g.pc = "broadcast" => RowCount(g.call)' >= 1
    BY <1>1, <1>2 DEF RunningOK
  <2>3. \A a \in broadcasts' : StageFits(a, stage'[a.call], faults'[a.call])
    BY <1>17, <2>1 DEF RunningOK
  <2>4. \A h \in handlers' : StageFits(h, stage'[h.call], faults'[h.call])
    BY <1>17, <2>1 DEF RunningOK
  <2>5. \A h \in handlers', a \in broadcasts' : ~(h.call = a.call /\ h.late = 0 /\ a.late = 0)
    BY <1>17 DEF RunningOK
  <2>6. AwaitedOnce(handlers)'
    BY <1>17 DEF RunningOK, AwaitedOnce
  <2> QED BY <1>17, <2>2, <2>3, <2>4, <2>5, <2>6 DEF RunningOK, RowCount
<1>18. ASSUME NEW b \in broadcasts, NEW q \in Sockets, SendTo(b, q) PROVE Goal
  <2>1. PICK raises \in BOOLEAN :
          /\ raises => conn[q] = "down"
          /\ broadcasts' = (broadcasts \ {b}) \cup
                {[b EXCEPT !.unseen = @ \ {q}, !.seen = @ \cup {q},
                           !.dead = IF raises THEN @ \cup {q} ELSE @]}
    BY <1>18 DEF SendTo
  <2> DEFINE new == [b EXCEPT !.unseen = @ \ {q}, !.seen = @ \cup {q},
                              !.dead = IF raises THEN @ \cup {q} ELSE @]
  <2>2. /\ new.call = b.call /\ new.event = b.event /\ new.late = b.late
        /\ new.dead = IF raises THEN b.dead \cup {q} ELSE b.dead
    BY DEF TypeOK, Broadcast
  <2>3. broadcasts' = (broadcasts \ {b}) \cup {new}
    BY <2>1
  <2>4. UNCHANGED <<stage, handlers, faults, active, conn>> /\ q \in active
    BY <1>18 DEF SendTo
  <2> HIDE DEF new
  <2>5. AwaitedOnce(broadcasts)'
    BY <2>2, <2>3 DEF RunningOK, AwaitedOnce
  <2>6. \A a \in broadcasts' : \E d \in broadcasts :
           /\ a.call = d.call /\ a.event = d.event /\ a.late = d.late
           /\ \A r \in a.dead : r \in active' /\ conn'[r] = "down"
    BY <2>1, <2>2, <2>3, <2>4 DEF RunningOK
  <2> HIDE DEF Goal
  <2> QED BY <1>17, <2>4, <2>5, <2>6
<1>19. ASSUME NEW q \in Sockets, Join(q) PROVE Goal
  <2> DEFINE Moved(b) == [b EXCEPT !.moved = TRUE]
  <2>1. \A b \in broadcasts : /\ Moved(b).call = b.call /\ Moved(b).event = b.event
                              /\ Moved(b).late = b.late /\ Moved(b).dead = b.dead
    BY DEF TypeOK, Broadcast
  <2>2. broadcasts' = {Moved(b) : b \in broadcasts}
    BY <1>19 DEF Join
  <2>3. /\ UNCHANGED <<stage, handlers, faults>> /\ active \subseteq active'
        /\ \A r \in Sockets : conn[r] = "down" => conn'[r] = "down"
    BY <1>19 DEF Join, TypeOK
  <2>4. \A b \in broadcasts : b.dead \subseteq Sockets
    BY DEF TypeOK, Broadcast
  <2> HIDE DEF Moved
  <2>5. AwaitedOnce(broadcasts)'
    BY <2>1, <2>2 DEF RunningOK, AwaitedOnce
  <2>6. \A a \in broadcasts' : \E d \in broadcasts :
           /\ a.call = d.call /\ a.event = d.event /\ a.late = d.late
           /\ \A r \in a.dead : r \in active' /\ conn'[r] = "down"
    BY <2>1, <2>2, <2>3, <2>4 DEF RunningOK
  <2> HIDE DEF Goal
  <2> QED BY <1>17, <2>3, <2>5, <2>6
<1>20. ASSUME NEW q \in Sockets, Disconnect(q) PROVE Goal
  <2>1. Unregister({q}, broadcasts) /\ UNCHANGED <<stage, handlers, faults, conn>>
    BY <1>20 DEF Disconnect, pageVars
  <2>2. active' = active \ {q}
    BY <2>1 DEF Unregister
  <2>3. /\ \A a \in broadcasts' : \E d \in broadcasts :
              /\ a.call = d.call /\ a.event = d.event /\ a.late = d.late
              /\ a.unseen = d.unseen \ {q} /\ a.dead = d.dead \ {q}
        /\ AwaitedOnce(broadcasts)'
    BY <2>1, Unregistered
  <2>4. \A a \in broadcasts' : \E d \in broadcasts :
           /\ a.call = d.call /\ a.event = d.event /\ a.late = d.late
           /\ \A r \in a.dead : r \in active' /\ conn'[r] = "down"
    BY <2>1, <2>2, <2>3 DEF RunningOK
  <2> HIDE DEF Goal
  <2> QED BY <1>17, <2>1, <2>3, <2>4
<1>21. ASSUME UNCHANGED serverVars, faults' = faults,
              \A q \in active : conn[q] = "down" => conn'[q] = "down"
       PROVE  Goal
  BY <1>3, <1>21 DEF serverVars
<1>22. ASSUME NEW p \in Pages,
              \/ ServeSnapshot(p) \/ LoadSnapshot(p) \/ FetchFails(p) \/ Receive(p) \/ Drop(p)
       PROVE  Goal
  <2>1. /\ UNCHANGED serverVars /\ faults' = faults
        /\ \A q \in active : conn[q] = "down" => conn'[q] = "down"
    BY <1>22 DEF ServeSnapshot, LoadSnapshot, FetchFails, Receive, Drop, TypeOK
  <2> HIDE DEF Goal
  <2> QED BY <1>21, <2>1
<1>23. ASSUME NEW q \in Sockets, DropOther(q) \/ Remount(q) PROVE Goal
  <2>1. /\ UNCHANGED serverVars /\ faults' = faults
        /\ \A r \in active : conn[r] = "down" => conn'[r] = "down"
    BY <1>23 DEF DropOther, Remount, TypeOK
  <2> HIDE DEF Goal
  <2> QED BY <1>21, <2>1
<1>24. ASSUME UNCHANGED vars PROVE Goal
  BY <1>21, <1>24 DEF vars, pageVars
<1> HIDE DEF Goal
<1>25. ASSUME NEW h \in handlers, HandlerStep(h) \/ HandlerFails(h) PROVE Goal
  BY <1>10, <1>11, <1>12, <1>13, <1>14, <1>25 DEF HandlerStep
<1>26. ASSUME NEW b \in broadcasts, Broadcasting(b) \/ BroadcastSkips(b) PROVE Goal
  BY <1>15, <1>16, <1>18, <1>26 DEF Broadcasting
<1>27. Goal
  BY <1>4, <1>5, <1>6, <1>19, <1>20, <1>22, <1>23, <1>24, <1>25, <1>26 DEF Next
<1> QED BY <1>27 DEF Goal

(***************************************************************************)
(* What a page that follows a call will show of it.                         *)
(***************************************************************************)
\* What happened to a call stays.
LEMMA FaultsGrow ==
    ASSUME TypeOK, [Next]_vars, NEW c \in Calls
    PROVE  faults'[c] = 0 => faults[c] = 0
<1>1. ASSUME NEW d \in Calls, Fault(d) PROVE faults'[c] = 0 => faults[c] = 0
  BY <1>1, FaultElsewhere
<1>2. CASE faults' = faults
  BY <1>2
<1> QED BY <1>1, <1>2, RunningType DEF Next, vars, HandlerStep, Broadcasting, RoomCreated,
        WorkerRecords, RoomCloses, Deliver, AnswerTimesOut, SelectRaises, FindsCall, FindsNone,
        CommitsRow, BroadcastBegins, HandlerFails, BroadcastEnds, BroadcastSkips, BroadcastRaises,
        SendTo, Join, ServeSnapshot, LoadSnapshot, FetchFails, Receive, Drop, DropOther,
        Disconnect, Remount

\* A page begins to follow a call only when its start is broadcast in time.
LEMMA FollowingBegins ==
    ASSUME TypeOK, [Next]_vars, NEW p \in Pages, NEW c \in followed'[p]
    PROVE  c \in followed[p] \/ \E h \in handlers : /\ BroadcastBegins(h) /\ h.call = c /\ h.late = 0
                                                    /\ h.event = "call_started" /\ Follows(p)
<1> DEFINE Goal == c \in followed[p] \/ \E h \in handlers :
                      /\ BroadcastBegins(h) /\ h.call = c /\ h.late = 0
                      /\ h.event = "call_started" /\ Follows(p)
<1>1. ASSUME followed' = followed PROVE Goal
  BY <1>1
<1>2. ASSUME NEW h \in handlers, BroadcastBegins(h) PROVE Goal
  <2>1. c \in followed[p] \/ (h.event = "call_started" /\ h.late = 0 /\ Follows(p) /\ h.call = c)
    BY <1>2 DEF BroadcastBegins
  <2> QED BY <1>2, <2>1
<1>3. ASSUME NEW q \in Pages, Drop(q) PROVE Goal
  BY <1>3 DEF Drop, TypeOK
<1> HIDE DEF Goal
<1>4. Goal
  BY <1>1, <1>2, <1>3 DEF Next, vars, HandlerStep, Broadcasting, RoomCreated, WorkerRecords,
     RoomCloses, Deliver, AnswerTimesOut, SelectRaises, FindsCall, FindsNone, CommitsRow,
     HandlerFails, BroadcastEnds, BroadcastSkips, BroadcastRaises, SendTo, Join, ServeSnapshot,
     LoadSnapshot, FetchFails, Receive, DropOther, Disconnect, Remount
<1> QED BY <1>4 DEF Goal

\* LiveKit goes through the stages of a room one by one.
LEMMA StagesMove ==
    ASSUME TypeOK, RunningOK, [Next]_vars, NEW c \in Calls
    PROVE  \/ stage'[c] = stage[c]
           \/ stage[c] = "none" /\ stage'[c] = "started"
           \/ stage[c] = "started" /\ stage'[c] = "talking"
           \/ stage[c] = "talking" /\ stage'[c] = "finished"
           \/ stage[c] = "finished" /\ stage'[c] = "over"
<1> DEFINE Goal == \/ stage'[c] = stage[c]
                   \/ stage[c] = "none" /\ stage'[c] = "started"
                   \/ stage[c] = "started" /\ stage'[c] = "talking"
                   \/ stage[c] = "talking" /\ stage'[c] = "finished"
                   \/ stage[c] = "finished" /\ stage'[c] = "over"
<1>1. ASSUME stage' = stage PROVE Goal
  BY <1>1
<1>2. ASSUME NEW d \in Calls, RoomCreated(d) \/ RoomCloses(d) PROVE Goal
  BY <1>2 DEF RoomCreated, RoomCloses, TypeOK
<1>3. ASSUME NEW d \in Calls, Advance(d), stage[d] \in {"started", "finished"} PROVE Goal
  BY <1>3 DEF Advance, TypeOK
<1>4. \A h \in handlers \cup broadcasts :
         h.call \in Calls /\ (h.late = 0 => stage[h.call] \in {"started", "finished"})
  BY RunningType DEF RunningOK, StageFits
<1>5. ASSUME NEW h \in handlers \cup broadcasts, Answer500(h) PROVE Goal
  <2>1. stage' = stage \/ (h.late = 0 /\ Advance(h.call))
    BY <1>5 DEF Answer500, Answer200
  <2> QED BY <1>1, <1>3, <1>4, <2>1
<1>6. ASSUME NEW b \in broadcasts, BroadcastRaises(b) PROVE Goal
  BY <1>1, <1>3, <1>4, <1>6 DEF BroadcastRaises
<1>7. ASSUME NEW d \in Calls, AnswerTimesOut(d) PROVE Goal
  <2>1. stage' = stage \/ Advance(d)
    BY <1>7 DEF AnswerTimesOut
  <2>2. stage[d] \in {"started", "finished"}
    BY <1>4, <1>7 DEF AnswerTimesOut
  <2> QED BY <1>1, <1>3, <2>1, <2>2
<1> HIDE DEF Goal
<1>8. ASSUME NEW h \in handlers, HandlerStep(h) \/ HandlerFails(h) PROVE Goal
  BY <1>1, <1>5, <1>8 DEF HandlerStep, SelectRaises, FindsCall, FindsNone, CommitsRow,
     BroadcastBegins, HandlerFails, Answer500
<1>9. ASSUME NEW b \in broadcasts, Broadcasting(b) \/ BroadcastSkips(b) PROVE Goal
  BY <1>1, <1>5, <1>6, <1>9 DEF Broadcasting, BroadcastEnds, BroadcastSkips, SendTo, Answer500
<1>10. Goal
  BY <1>1, <1>2, <1>7, <1>8, <1>9 DEF Next, vars, WorkerRecords, Deliver, Join, ServeSnapshot,
     LoadSnapshot, FetchFails, Receive, Drop, DropOther, Remount, Disconnect, serverVars
<1> QED BY <1>10 DEF Goal

\* A page that follows a call has not been dropped, and nobody removes its
\* socket.
LEMMA StepsKeepLoaded ==
    ASSUME TypeOK, TypeOK', FeedInv, [Next]_vars, NEW p \in Pages, NEW c \in followed'[p]
    PROVE  Loaded(p, c)'
<1>1. c \in Calls /\ RunningOK
  BY DEF TypeOK, FeedInv
<1>2. /\ stage[c] # "none" => stage'[c] # "none"
      /\ RowCount(c) >= 1 => RowCount(c)' >= 1
  BY <1>1, StagesMove, RowsGrow
<1> DEFINE Stays == p \in active' /\ conn'[p] = "up" /\ fetch'[p] = "done"
<1>3. ASSUME NEW h \in handlers, BroadcastBegins(h), h.call = c, h.late = 0,
             h.event = "call_started", Follows(p)
      PROVE  Loaded(p, c)'
  <2>1. stage[c] = "started" /\ RowCount(c) >= 1
    BY <1>1, <1>3 DEF RunningOK, StageFits, BroadcastBegins
  <2>2. UNCHANGED <<active, conn, fetch>>
    BY <1>3 DEF BroadcastBegins, pageVars
  <2>3. stage'[c] # "none" /\ RowCount(c)' >= 1
    BY <1>2, <2>1
  <2> QED BY <1>3, <2>2, <2>3 DEF Loaded, Follows
<1>4. ASSUME c \in followed[p] PROVE Loaded(p, c)'
  <2>1. p \in active /\ conn[p] = "up" /\ fetch[p] = "done" /\ stage[c] # "none" /\ RowCount(c) >= 1
    BY <1>4 DEF FeedInv, Loaded
  <2>2. \A b \in broadcasts : p \notin b.dead
    BY <1>1, <2>1 DEF RunningOK
  <2>3. ASSUME UNCHANGED <<active, conn, fetch>> PROVE Stays
    BY <2>1, <2>3
  <2>4. ASSUME UNCHANGED pageVars, UNCHANGED active PROVE Stays
    BY <2>3, <2>4 DEF pageVars
  <2>5. ASSUME NEW b \in broadcasts, BroadcastEnds(b) \/ BroadcastSkips(b) PROVE Stays
    BY <2>1, <2>2, <2>5 DEF BroadcastEnds, BroadcastSkips, Unregister, pageVars
  <2>6. ASSUME NEW q \in Sockets, Join(q) \/ Remount(q) \/ DropOther(q) PROVE p # q => Stays
    BY <2>1, <2>6 DEF Join, Remount, DropOther, TypeOK, serverVars
  <2>7. ASSUME NEW q \in Sockets, Join(q) \/ Remount(q) PROVE Stays
    BY <2>1, <2>6, <2>7 DEF Join, Remount
  <2>8. ASSUME NEW q \in Sockets \ Pages, DropOther(q) PROVE Stays
    BY <2>6, <2>8
  <2>9. ASSUME NEW q \in Sockets, Disconnect(q) PROVE Stays
    BY <2>1, <2>9 DEF Disconnect, Unregister, pageVars
  <2>10. ASSUME NEW q \in Pages, ServeSnapshot(q) \/ LoadSnapshot(q) \/ FetchFails(q) \/ Receive(q)
         PROVE  Stays
    BY <2>1, <2>10 DEF ServeSnapshot, LoadSnapshot, FetchFails, Receive, TypeOK, serverVars
  <2>11. ASSUME NEW q \in Pages, Drop(q) PROVE Stays
    BY <2>1, <2>11 DEF Drop, TypeOK, serverVars
  <2> HIDE DEF Stays
  <2>12. ASSUME NEW h \in handlers, HandlerStep(h) \/ HandlerFails(h) PROVE Stays
    BY <2>4, <2>12 DEF HandlerStep, SelectRaises, FindsCall, FindsNone, CommitsRow,
       BroadcastBegins, HandlerFails
  <2>13. ASSUME NEW b \in broadcasts, Broadcasting(b) \/ BroadcastSkips(b) PROVE Stays
    BY <2>3, <2>4, <2>5, <2>13 DEF Broadcasting, BroadcastRaises, SendTo
  <2>14. ASSUME NEW d \in Calls, \/ RoomCreated(d) \/ WorkerRecords(d) \/ RoomCloses(d) \/ Deliver(d)
                                 \/ AnswerTimesOut(d)
         PROVE  Stays
    BY <2>4, <2>14 DEF RoomCreated, WorkerRecords, RoomCloses, Deliver, AnswerTimesOut
  <2>15. Stays
    BY <2>4, <2>7, <2>8, <2>9, <2>10, <2>11, <2>12, <2>13, <2>14 DEF Next, vars, serverVars
  <2> QED BY <1>2, <2>1, <2>15 DEF Loaded, Stays
<1> QED BY <1>3, <1>4, FollowingBegins

\* Nothing on its way to the page, and nothing that it shows, is touched.
LEMMA HearsSame ==
    ASSUME NEW p, NEW c, channel'[p] = channel[p], shown'[p] = shown[p]
    PROVE  \A e \in Events : Hears(p, c, e) => Hears(p, c, e)'
BY DEF Hears

LEMMA ToldStays ==
    ASSUME TypeOK, NEW p, NEW c, Told(p, c), stage'[c] = stage[c],
           \A e \in Events : Hears(p, c, e) => Hears(p, c, e)',
           \A a \in broadcasts' : a.call = c =>
              \E b \in broadcasts : /\ b.call = c /\ b.event = a.event
                                    /\ p \in b.unseen => p \in a.unseen \/ Hears(p, c, a.event)'
    PROVE  Told(p, c)'
<1>1. \A b \in broadcasts : b.event \in Events
  BY RunningType
<1>2. "call_started" \in Events /\ "call_ended" \in Events
  BY DEF Events
<1> HIDE DEF Hears
<1> QED BY <1>1, <1>2 DEF Told

\* The call's own broadcast begins: it has every registered page before it.
LEMMA BeginTells ==
    ASSUME TypeOK, RunningOK, NEW p \in active, NEW h \in handlers, Begin(h), h.late = 0,
           h.call \in Calls, UNCHANGED stage
    PROVE  \A c : c = h.call /\ (\A b \in broadcasts : b.call = c => b.late = 0) => Told(p, c)'
<1> DEFINE new == [event |-> h.event, call |-> h.call, late |-> h.late,
                   size |-> Cardinality(active), unseen |-> active, seen |-> {}, dead |-> {},
                   moved |-> FALSE]
<1>1. broadcasts' = broadcasts \cup {new} /\ new.call = h.call /\ new.unseen = active
  BY DEF Begin
<1> HIDE DEF new
<1>2. stage'[h.call] \in {"started", "finished"}
  BY DEF RunningOK, StageFits
<1> SUFFICES ASSUME NEW c, c = h.call, \A b \in broadcasts : b.call = c => b.late = 0
             PROVE  Told(p, c)'
  OBVIOUS
<1>3. \A b \in broadcasts' : b.call = c => p \in b.unseen
  BY <1>1 DEF RunningOK
<1> QED BY <1>2, <1>3 DEF Told

\* A broadcast that has reached every socket has told every page that follows.
LEMMA EndTells ==
    ASSUME TypeOK, RunningOK, NEW b \in broadcasts, BroadcastEnds(b), NEW p, Told(p, b.call),
           b.late = 0, \A a \in broadcasts : a.call = b.call => a.late = 0
    PROVE  \A c : c = b.call => Told(p, c)'
<1>1. /\ Unregister(b.dead, broadcasts \ {b}) /\ Advance(b.call) /\ b.unseen = {}
      /\ channel' = channel /\ shown' = shown
  BY DEF BroadcastEnds, Answer200, pageVars
<1> SUFFICES ASSUME NEW c, c = b.call PROVE Told(p, c)'
  OBVIOUS
<1>2. c \in Calls /\ b.event \in Events
  BY RunningType
<1>3. stage[c] = IF b.event = "call_started" THEN "started" ELSE "finished"
  BY DEF RunningOK, StageFits
<1>4. stage'[c] = IF b.event = "call_started" THEN "talking" ELSE "over"
  BY <1>1, <1>2, <1>3 DEF Advance, TypeOK
<1>5. \A a \in broadcasts' : a.call # c
  <2>1. \A a \in broadcasts \ {b} : a.call # c
    BY DEF RunningOK, AwaitedOnce
  <2>2. \A a \in broadcasts' : \E d \in broadcasts \ {b} : a.call = d.call
    BY <1>1, Unregistered
  <2> QED BY <2>1, <2>2
<1>6. Hears(p, c, b.event)
  BY <1>1 DEF Told
<1>7. Hears(p, c, b.event)'
  BY <1>1, <1>6 DEF Hears
<1>8. b.event = "call_started" \/ b.event = "call_ended"
  BY <1>2 DEF Events
<1> HIDE DEF Hears
<1>9. \/ b.event = "call_started" /\ stage'[c] = "talking" /\ Hears(p, c, "call_started")'
      \/ b.event = "call_ended" /\ stage'[c] = "over" /\ Hears(p, c, "call_ended")'
  BY <1>4, <1>7, <1>8
<1> QED BY <1>5, <1>9 DEF Told

LEMMA SendTells ==
    ASSUME TypeOK, RunningOK, NEW b \in broadcasts, NEW q \in Sockets, SendTo(b, q),
           NEW p \in Pages, conn[p] = "up", NEW c \in Calls, Told(p, c),
           \A a \in broadcasts : a.call = c => a.late = 0
    PROVE  Told(p, c)'
<1>1. PICK raises \in BOOLEAN :
        broadcasts' = (broadcasts \ {b}) \cup
           {[b EXCEPT !.unseen = @ \ {q}, !.seen = @ \cup {q},
                      !.dead = IF raises THEN @ \cup {q} ELSE @]}
  BY DEF SendTo
<1> DEFINE new == [b EXCEPT !.unseen = @ \ {q}, !.seen = @ \cup {q},
                            !.dead = IF raises THEN @ \cup {q} ELSE @]
           m == [event |-> b.event, call |-> b.call]
<1>2. b \in Broadcast /\ b.event \in Events /\ b.call \in Calls
  BY DEF TypeOK, Broadcast
<1>3. new.call = b.call /\ new.event = b.event /\ new.unseen = b.unseen \ {q}
  BY <1>2 DEF Broadcast
<1>4. broadcasts' = (broadcasts \ {b}) \cup {new}
  BY <1>1
<1>5. stage' = stage /\ shown' = shown
  BY DEF SendTo
<1>6. m \in Message /\ channel[p] \in Seq(Message) /\ m.event = b.event /\ m.call = b.call
  BY <1>2 DEF Message, TypeOK
<1>7. channel'[p] = IF p = q THEN Append(channel[p], m) ELSE channel[p]
  BY DEF SendTo, TypeOK
<1> HIDE DEF new, m
<1>8. CASE p # q \/ c # b.call
  <2>1. \A e \in Events : Hears(p, c, e) => Hears(p, c, e)'
    BY <1>5, <1>6, <1>7, <1>8, WordAppended DEF Hears
  <2>2. \A a \in broadcasts' : a.call = c =>
           \E d \in broadcasts : d.call = c /\ d.event = a.event /\ (p \in d.unseen => p \in a.unseen)
    BY <1>3, <1>4, <1>8
  <2> QED BY <1>5, <2>1, <2>2, ToldStays
<1>9. CASE p = q /\ c = b.call
  <2>1. \A a \in broadcasts' : a.call = c => a = new
    BY <1>4, <1>9 DEF RunningOK, AwaitedOnce
  <2>2. Hears(p, c, b.event)'
    BY <1>5, <1>6, <1>7, <1>9, WordAppended DEF Hears
  <2>3. stage'[c] \in {"started", "finished"}
    BY <1>5, <1>9 DEF RunningOK, StageFits
  <2> HIDE DEF Hears
  <2>4. \A a \in broadcasts' : a.call = c => Hears(p, c, a.event)'
    <3> SUFFICES ASSUME NEW a \in broadcasts', a.call = c PROVE Hears(p, c, a.event)'
      OBVIOUS
    <3> QED BY <1>3, <2>1, <2>2
  <2> QED BY <2>3, <2>4 DEF Told
<1> QED BY <1>8, <1>9

LEMMA ReceiveTells ==
    ASSUME TypeOK, NEW q \in Pages, Receive(q), NEW p \in Pages, NEW c \in Calls, Told(p, c)
    PROVE  Told(p, c)'
<1>1. UNCHANGED <<stage, broadcasts>>
  BY DEF Receive, serverVars
<1>2. \A e \in Events : Hears(p, c, e) => Hears(p, c, e)'
  <2>1. CASE p # q
    BY <2>1, HearsSame DEF Receive, TypeOK
  <2>2. CASE p = q
    <3>1. channel[p] \in Seq(Message) /\ channel[p] # <<>> /\ channel'[p] = Tail(channel[p])
      BY <2>2 DEF Receive, TypeOK
    <3>2. Head(channel[p]) \in Message
      BY <3>1
    <3>3. c \in shown'[p] <=> IF Head(channel[p]).call = c
                              THEN Head(channel[p]).event = "call_started" ELSE c \in shown[p]
      BY <2>2, <3>2 DEF Receive, TypeOK, Message
    <3> QED BY <3>1, <3>3, WordRead DEF Hears
  <2> QED BY <2>1, <2>2
<1> QED BY <1>1, <1>2, ToldStays

LEMMA StepsKeepTold ==
    ASSUME TypeOK, TypeOK', FeedInv, [Next]_vars,
           NEW p \in Pages, NEW c \in followed'[p], faults'[c] = 0, RowCount(c)' = 1
    PROVE  Told(p, c)'
<1>1. c \in Calls /\ RunningOK
  BY DEF TypeOK, FeedInv
<1>2. faults[c] = 0 /\ RowCount(c) \in Nat /\ RowCount(c) <= 1
  BY <1>1, FaultsGrow, RowsGrow
<1>3. \A h \in handlers \cup broadcasts : h.call = c => h.late = 0
  BY <1>1, <1>2 DEF RunningOK, StageFits
<1>4. \A h \in handlers \cup broadcasts : h.call = c => stage[c] \in {"started", "finished"}
  BY <1>1, <1>3 DEF RunningOK, StageFits
<1>5. ASSUME c \in followed[p]
      PROVE  /\ Loaded(p, c) /\ RowCount(c) = 1 /\ Told(p, c)
             /\ p \in active /\ conn[p] = "up" /\ fetch[p] = "done"
  <2>1. Loaded(p, c)
    BY <1>5 DEF FeedInv
  <2>2. RowCount(c) = 1
    BY <1>2, <2>1 DEF Loaded
  <2> QED BY <1>2, <1>5, <2>1, <2>2 DEF FeedInv, Loaded
<1> DEFINE Goal == Told(p, c)'
<1>6. ASSUME c \in followed[p], stage'[c] = stage[c], channel'[p] = channel[p], shown'[p] = shown[p],
             \A a \in broadcasts' : a.call = c => \E b \in broadcasts :
                b.call = c /\ b.event = a.event /\ (p \in b.unseen => p \in a.unseen)
      PROVE  Goal
  BY <1>5, <1>6, ToldStays, HearsSame
<1>7. ASSUME c \in followed[p], stage'[c] = stage[c], UNCHANGED <<broadcasts, pageVars>> PROVE Goal
  BY <1>6, <1>7 DEF pageVars
<1>8. ASSUME NEW h \in handlers \cup broadcasts, Answer500(h), h.call # c PROVE stage'[c] = stage[c]
  BY <1>1, <1>8, RunningType DEF Answer500, Answer200, Advance, TypeOK
<1>9. ASSUME NEW d \in Calls, Fault(d) PROVE c # d
  BY <1>2, <1>9, FaultType
<1> HIDE DEF Goal
<1>10. ASSUME NEW d \in Calls, RoomCreated(d) \/ RoomCloses(d), c \in followed[p] PROVE Goal
  <2>1. UNCHANGED <<broadcasts, pageVars>>
    BY <1>10 DEF RoomCreated, RoomCloses
  <2>2. CASE stage'[c] = stage[c]
    BY <1>7, <1>10, <2>1, <2>2
  <2>3. CASE stage'[c] # stage[c]
    <3>1. stage[c] = "talking" /\ stage'[c] = "finished"
      BY <1>5, <1>10, <2>3 DEF RoomCreated, RoomCloses, TypeOK, Loaded
    <3>2. \A b \in broadcasts : b.call # c
      BY <1>4, <3>1
    <3> QED BY <2>1, <3>1, <3>2 DEF Told, Goal
  <2> QED BY <2>2, <2>3
<1>11. ASSUME NEW d \in Calls, WorkerRecords(d) \/ Deliver(d), c \in followed[p] PROVE Goal
  BY <1>7, <1>11 DEF WorkerRecords, Deliver
<1>12. ASSUME NEW d \in Calls, AnswerTimesOut(d), c \in followed[p] PROVE Goal
  <2> DEFINE Late(h) == IF h.call = d /\ h.late = 0 THEN [h EXCEPT !.late = faults'[d]] ELSE h
  <2>1. /\ Fault(d) /\ broadcasts' = {Late(b) : b \in broadcasts} /\ UNCHANGED pageVars
        /\ stage' = stage \/ Advance(d)
    BY <1>12 DEF AnswerTimesOut
  <2>2. stage'[c] = stage[c]
    BY <1>1, <1>9, <2>1 DEF Advance, TypeOK
  <2>3. \A b \in broadcasts : /\ Late(b).call = b.call /\ Late(b).event = b.event
                              /\ Late(b).unseen = b.unseen
    BY DEF TypeOK, Broadcast
  <2> HIDE DEF Late
  <2>4. \A a \in broadcasts' : \E b \in broadcasts :
           b.call = a.call /\ b.event = a.event /\ b.unseen = a.unseen
    BY <2>1, <2>3
  <2>5. channel' = channel /\ shown' = shown
    BY <2>1 DEF pageVars
  <2> QED BY <1>6, <1>12, <2>2, <2>4, <2>5
<1>13. ASSUME NEW h \in handlers, c \in followed[p],
              \/ SelectRaises(h) \/ FindsCall(h) \/ FindsNone(h) \/ CommitsRow(h) \/ HandlerFails(h)
       PROVE  Goal
  <2>1. UNCHANGED <<broadcasts, pageVars>>
    BY <1>13 DEF SelectRaises, FindsCall, FindsNone, CommitsRow, HandlerFails
  <2>2. stage' = stage \/ (Answer500(h) /\ (Fault(h.call) \/ RowCount(h.call) # 1))
    BY <1>2, <1>13 DEF SelectRaises, FindsCall, FindsNone, CommitsRow, HandlerFails, Answer500
  <2>3. stage'[c] = stage[c]
    BY <1>5, <1>8, <1>9, <1>13, <2>2, RunningType
  <2> QED BY <1>7, <1>13, <2>1, <2>3
<1>14. ASSUME NEW h \in handlers, BroadcastBegins(h) PROVE Goal
  <2>1. Begin(h) /\ UNCHANGED <<stage, pageVars>>
    BY <1>14 DEF BroadcastBegins
  <2>2. CASE h.call = c
    <3>1. p \in active
      BY <1>5, FollowingBegins DEF Follows
    <3> QED BY <1>1, <1>3, <2>1, <2>2, <3>1, BeginTells DEF Goal
  <2>3. CASE h.call # c
    <3>1. c \in followed[p]
      BY <1>14, <2>3 DEF BroadcastBegins
    <3>2. \A a \in broadcasts' : a.call = c => a \in broadcasts
      BY <2>1, <2>3 DEF Begin
    <3>3. stage' = stage /\ channel' = channel /\ shown' = shown
      BY <2>1 DEF pageVars
    <3> QED BY <1>6, <3>1, <3>2, <3>3
  <2> QED BY <2>2, <2>3
<1>15. ASSUME NEW b \in broadcasts, c \in followed[p], BroadcastEnds(b) \/ BroadcastSkips(b) PROVE Goal
  <2>1. /\ Unregister(b.dead, broadcasts \ {b}) /\ Answer500(b) /\ UNCHANGED pageVars
    BY <1>15 DEF BroadcastEnds, BroadcastSkips, Answer500
  <2>2. p \notin b.dead
    BY <1>1, <1>5, <1>15 DEF RunningOK
  <2>3. \A a \in broadcasts' : \E d \in broadcasts :
            d.call = a.call /\ d.event = a.event /\ (p \in d.unseen => p \in a.unseen)
    BY <1>1, <2>1, <2>2, Unregistered
  <2>4. CASE c # b.call
    <3>1. stage'[c] = stage[c]
      BY <1>8, <2>1, <2>4
    <3>2. channel' = channel /\ shown' = shown
      BY <2>1 DEF pageVars
    <3> QED BY <1>6, <1>15, <2>3, <3>1, <3>2
  <2>5. CASE c = b.call
    <3>1. BroadcastEnds(b)
      BY <1>1, <1>9, <1>15, <2>5 DEF BroadcastSkips
    <3>2. b.late = 0 /\ Told(p, b.call) /\ \A a \in broadcasts : a.call = b.call => a.late = 0
      BY <1>3, <1>5, <1>15, <2>5
    <3> QED BY <1>1, <2>5, <3>1, <3>2, EndTells DEF Goal
  <2> QED BY <2>4, <2>5
<1>16. ASSUME NEW b \in broadcasts, c \in followed[p], BroadcastRaises(b) PROVE Goal
  <2>1. broadcasts' = broadcasts \ {b} /\ channel' = channel /\ shown' = shown
    BY <1>16 DEF BroadcastRaises, pageVars
  <2>2. stage'[c] = stage[c]
    BY <1>1, <1>9, <1>16, RunningType DEF BroadcastRaises, Advance, TypeOK
  <2> QED BY <1>6, <1>16, <2>1, <2>2
<1>17. ASSUME NEW b \in broadcasts, NEW q \in Sockets, c \in followed[p], SendTo(b, q) PROVE Goal
  BY <1>1, <1>3, <1>5, <1>17, SendTells DEF Goal
<1>18. ASSUME NEW q \in Sockets, c \in followed[p], Join(q) PROVE Goal
  <2>1. /\ UNCHANGED <<stage, channel, shown>>
        /\ broadcasts' = {[b EXCEPT !.moved = TRUE] : b \in broadcasts}
    BY <1>18 DEF Join
  <2>2. \A b \in broadcasts : /\ [b EXCEPT !.moved = TRUE].call = b.call
                              /\ [b EXCEPT !.moved = TRUE].event = b.event
                              /\ [b EXCEPT !.moved = TRUE].unseen = b.unseen
    BY DEF TypeOK, Broadcast
  <2>3. \A a \in broadcasts' : \E b \in broadcasts :
           b.call = a.call /\ b.event = a.event /\ b.unseen = a.unseen
    BY <2>1, <2>2
  <2> QED BY <1>6, <1>18, <2>1, <2>3
<1>19. ASSUME NEW q \in Pages, c \in followed[p], Receive(q) PROVE Goal
  BY <1>1, <1>5, <1>19, ReceiveTells DEF Goal
<1>20. ASSUME NEW q \in Pages, c \in followed[p], ServeSnapshot(q) \/ LoadSnapshot(q) \/ FetchFails(q)
       PROVE  Goal
  <2>1. /\ UNCHANGED <<stage, broadcasts, channel>>
        /\ p # q => shown'[p] = shown[p]
    BY <1>20 DEF ServeSnapshot, LoadSnapshot, FetchFails, serverVars, TypeOK
  <2>2. fetch[q] # "done"
    BY <1>20 DEF ServeSnapshot, LoadSnapshot, FetchFails
  <2> QED BY <1>5, <1>6, <1>20, <2>1, <2>2
<1>21. ASSUME NEW q \in Sockets, c \in followed[p], DropOther(q) \/ Remount(q) PROVE Goal
  BY <1>6, <1>21 DEF DropOther, Remount, serverVars
<1>22. ASSUME NEW q \in Pages, c \in followed'[p], c \in followed[p], Drop(q) PROVE Goal
  <2>1. p # q
    BY <1>22 DEF Drop, TypeOK
  <2>2. UNCHANGED <<stage, broadcasts>> /\ channel'[p] = channel[p] /\ shown'[p] = shown[p]
    BY <1>22, <2>1 DEF Drop, TypeOK, serverVars
  <2> QED BY <1>6, <1>22, <2>2
<1>23. ASSUME NEW q \in Sockets, c \in followed[p], Disconnect(q) PROVE Goal
  <2>1. /\ Unregister({q}, broadcasts) /\ conn[q] = "down" /\ UNCHANGED <<stage, channel, shown>>
    BY <1>23 DEF Disconnect, pageVars
  <2>2. p # q
    BY <1>5, <1>23, <2>1
  <2>3. \A a \in broadcasts' : \E d \in broadcasts :
            d.call = a.call /\ d.event = a.event /\ (p \in d.unseen => p \in a.unseen)
    BY <1>1, <2>1, <2>2, Unregistered
  <2> QED BY <1>6, <1>23, <2>1, <2>3
<1>24. ASSUME UNCHANGED vars, c \in followed[p] PROVE Goal
  BY <1>7, <1>24 DEF vars, serverVars
<1>25. ASSUME NEW h \in handlers, HandlerStep(h) \/ HandlerFails(h), c \in followed[p] PROVE Goal
  BY <1>13, <1>14, <1>25 DEF HandlerStep
<1>26. ASSUME NEW b \in broadcasts, Broadcasting(b) \/ BroadcastSkips(b), c \in followed[p] PROVE Goal
  BY <1>15, <1>16, <1>17, <1>26 DEF Broadcasting
<1>27. ASSUME c \in followed[p] PROVE Goal
  BY <1>10, <1>11, <1>12, <1>18, <1>19, <1>20, <1>21, <1>22, <1>23, <1>24, <1>25, <1>26, <1>27
     DEF Next
<1>28. Goal
  BY <1>14, <1>27, FollowingBegins
<1> QED BY <1>28 DEF Goal

LEMMA FeedStepsKeepInv == ASSUME TypeOK, TypeOK', FeedInv, [Next]_vars PROVE FeedInv'
<1>1. RunningOK'
  BY FeedStepsKeepRunning DEF FeedInv
<1>2. ASSUME NEW p \in Pages, NEW c \in followed'[p]
      PROVE  Loaded(p, c)' /\ (faults'[c] = 0 /\ RowCount(c)' = 1 => Told(p, c)')
  BY StepsKeepLoaded, StepsKeepTold
<1> QED BY <1>1, <1>2 DEF FeedInv

\* A page that was loaded and registered before a call began shows the call
\* while it lasts and not after it, for any number of calls and dashboards:
\* broadcasts that fail are repeated, sockets that die are only removed by
\* those that saw them die, and messages stay in order.
THEOREM FeedFollows == Spec => []FollowsCalls
<1>1. Init => FeedInv
  BY DEF Init, FeedInv, RunningOK, AwaitedOnce
<1>2. ASSUME TypeOK, FeedInv PROVE FollowsCalls
  <2> SUFFICES ASSUME NEW p \in Pages, NEW c \in followed[p], faults[c] = 0, conn[p] = "up",
                      RowCount(c) = 1, channel[p] = <<>>
               PROVE  /\ stage[c] = "talking" => c \in shown[p]
                      /\ stage[c] = "over" => c \notin shown[p]
    BY DEF FollowsCalls
  <2>1. /\ stage[c] = "talking" => Hears(p, c, "call_started")
        /\ stage[c] = "over" => Hears(p, c, "call_ended")
    BY <1>2 DEF FeedInv, Told
  <2> QED BY <2>1, WordOfNothing DEF Hears
<1> QED BY <1>1, <1>2, FeedStepsKeepInv, FeedTypeCorrect, PTL DEF Spec

(***************************************************************************)
(* The cards: CallFeed implements FeedCards.                                *)
(***************************************************************************)
EndIn(s, c) == \E i \in 1..Len(s) : s[i].call = c /\ s[i].event = "call_ended"

\* No start of the call comes after an end of it.
Ordered(s, c) ==
    \A i, j \in 1..Len(s) :
        (i < j /\ s[i].call = c /\ s[j].call = c /\ s[i].event = "call_ended")
            => s[j].event = "call_ended"

\* What the cards need besides FeedInv: an end is on its way only when the
\* room has closed, and only a failure puts a start after an end.
CardInv ==
    \A p \in Pages, c \in Calls :
        /\ faults[c] = 0 => Ordered(channel[p], c)
        /\ EndIn(channel[p], c) => stage[c] \in Over

\* What a message adds to those that are on their way.
LEMMA OneMoreMessage ==
    ASSUME NEW s \in Seq(Message), NEW m \in Message, NEW c
    PROVE  /\ StartIn(Append(s, m), c) <=> StartIn(s, c) \/ (m.call = c /\ m.event = "call_started")
           /\ EndIn(Append(s, m), c) <=> EndIn(s, c) \/ (m.call = c /\ m.event = "call_ended")
           /\ Ordered(s, c) /\ (m.call = c /\ m.event = "call_started" => ~EndIn(s, c))
                 => Ordered(Append(s, m), c)
<1> DEFINE t == Append(s, m)
<1>1. Len(s) \in Nat /\ Len(t) = Len(s) + 1
  OBVIOUS
<1>2. t[Len(s) + 1] = m /\ \A i \in 1..Len(s) : t[i] = s[i]
  OBVIOUS
<1>3. m.event = "call_started" \/ m.event = "call_ended"
  BY DEF Message, Events
<1> HIDE DEF t
<1>4. \A i \in 1..Len(t) : i \in 1..Len(s) \/ i = Len(s) + 1
  BY <1>1
<1>5. Len(s) + 1 \in 1..Len(t) /\ \A i \in 1..Len(s) : i \in 1..Len(t)
  BY <1>1
<1>6. StartIn(t, c) <=> StartIn(s, c) \/ (m.call = c /\ m.event = "call_started")
  BY <1>2, <1>4, <1>5 DEF StartIn
<1>7. EndIn(t, c) <=> EndIn(s, c) \/ (m.call = c /\ m.event = "call_ended")
  BY <1>2, <1>4, <1>5 DEF EndIn
<1>8. ASSUME Ordered(s, c), m.call = c /\ m.event = "call_started" => ~EndIn(s, c)
      PROVE  Ordered(t, c)
  <2> SUFFICES ASSUME NEW i \in 1..Len(t), NEW j \in 1..Len(t), i < j, t[i].call = c,
                      t[j].call = c, t[i].event = "call_ended"
               PROVE  t[j].event = "call_ended"
    BY DEF Ordered
  <2>1. i \in 1..Len(s)
    BY <1>1
  <2>2. CASE j \in 1..Len(s)
    BY <1>2, <1>8, <2>1, <2>2 DEF Ordered
  <2>3. CASE j = Len(s) + 1
    BY <1>2, <1>3, <1>8, <2>1, <2>3 DEF EndIn
  <2> QED BY <1>4, <2>2, <2>3
<1> QED BY <1>6, <1>7, <1>8 DEF t

\* What is left when the first message is read.
LEMMA OneMessageRead ==
    ASSUME NEW s \in Seq(Message), s # <<>>, NEW c
    PROVE  /\ StartIn(s, c) <=> StartIn(Tail(s), c)
                               \/ (Head(s).call = c /\ Head(s).event = "call_started")
           /\ EndIn(s, c) <=> EndIn(Tail(s), c)
                             \/ (Head(s).call = c /\ Head(s).event = "call_ended")
           /\ Ordered(s, c) =>
                 /\ Ordered(Tail(s), c)
                 /\ Head(s).call = c /\ Head(s).event = "call_ended" => ~StartIn(s, c)
<1> DEFINE t == Tail(s)
<1>1. Len(s) \in Nat /\ Len(s) >= 1 /\ Len(t) = Len(s) - 1 /\ Head(s) = s[1]
  OBVIOUS
<1>2. \A i \in 1..Len(t) : t[i] = s[i + 1]
  OBVIOUS
<1> HIDE DEF t
<1>3. \A i \in 1..Len(t) : i + 1 \in 1..Len(s)
  BY <1>1
<1>4. ASSUME NEW i \in 1..Len(s) PROVE i = 1 \/ (i - 1 \in 1..Len(t) /\ t[i - 1] = s[i])
  <2>1. CASE i # 1
    <3>1. i - 1 \in 1..Len(t) /\ (i - 1) + 1 = i
      BY <1>1, <2>1
    <3> QED BY <1>2, <3>1
  <2> QED BY <2>1
<1>5. 1 \in 1..Len(s)
  BY <1>1
<1>6. StartIn(s, c) <=> StartIn(t, c) \/ (Head(s).call = c /\ Head(s).event = "call_started")
  BY <1>1, <1>2, <1>3, <1>4, <1>5 DEF StartIn
<1>7. EndIn(s, c) <=> EndIn(t, c) \/ (Head(s).call = c /\ Head(s).event = "call_ended")
  BY <1>1, <1>2, <1>3, <1>4, <1>5 DEF EndIn
<1>8. ASSUME Ordered(s, c) PROVE Ordered(t, c)
  <2> SUFFICES ASSUME NEW i \in 1..Len(t), NEW j \in 1..Len(t), i < j, t[i].call = c,
                      t[j].call = c, t[i].event = "call_ended"
               PROVE  t[j].event = "call_ended"
    BY DEF Ordered
  <2>1. i + 1 \in 1..Len(s) /\ j + 1 \in 1..Len(s) /\ i + 1 < j + 1
    BY <1>3
  <2> QED BY <1>2, <1>8, <2>1 DEF Ordered
<1>9. ASSUME Ordered(s, c), Head(s).call = c, Head(s).event = "call_ended" PROVE ~StartIn(s, c)
  <2> SUFFICES ASSUME NEW j \in 1..Len(s), s[j].call = c, s[j].event = "call_started" PROVE FALSE
    BY DEF StartIn
  <2>1. j # 1
    BY <1>1, <1>9
  <2>2. 1 < j
    BY <1>1, <2>1
  <2>3. s[j].event = "call_ended"
    BY <1>1, <1>5, <1>9, <2>2 DEF Ordered
  <2> QED BY <2>3
<1> QED BY <1>6, <1>7, <1>8, <1>9 DEF t
\* What is on its way to a page changes in three ways.
LEMMA ChannelMoves ==
    ASSUME TypeOK, [Next]_vars, NEW p \in Pages
    PROVE  \/ channel'[p] = channel[p]
           \/ \E b \in broadcasts :
                 /\ channel'[p] = Append(channel[p], [event |-> b.event, call |-> b.call])
                 /\ stage' = stage
           \/ channel[p] # <<>> /\ channel'[p] = Tail(channel[p]) /\ stage' = stage
           \/ channel'[p] = <<>>
<1> DEFINE Goal == \/ channel'[p] = channel[p]
                   \/ \E b \in broadcasts :
                         /\ channel'[p] = Append(channel[p], [event |-> b.event, call |-> b.call])
                         /\ stage' = stage
                   \/ channel[p] # <<>> /\ channel'[p] = Tail(channel[p]) /\ stage' = stage
                   \/ channel'[p] = <<>>
<1>1. ASSUME channel' = channel PROVE Goal
  BY <1>1
<1>2. ASSUME NEW b \in broadcasts, NEW q \in Sockets, SendTo(b, q) PROVE Goal
  BY <1>2 DEF SendTo, TypeOK
<1>3. ASSUME NEW q \in Pages, Receive(q) PROVE Goal
  BY <1>3 DEF Receive, TypeOK, serverVars
<1>4. ASSUME NEW q \in Pages, Drop(q) PROVE Goal
  BY <1>4 DEF Drop, TypeOK
<1> HIDE DEF Goal
<1>5. Goal
  BY <1>1, <1>2, <1>3, <1>4 DEF Next, vars, pageVars, HandlerStep, Broadcasting, RoomCreated,
     WorkerRecords, RoomCloses, Deliver, AnswerTimesOut, SelectRaises, FindsCall, FindsNone,
     CommitsRow, BroadcastBegins, HandlerFails, BroadcastEnds, BroadcastSkips, BroadcastRaises,
     Join, ServeSnapshot, LoadSnapshot, FetchFails, DropOther, Disconnect, Remount
<1> QED BY <1>5 DEF Goal

\* A broadcast starts a call after its end only when its answer came too late.
LEMMA LateStarts ==
    ASSUME TypeOK, RunningOK, NEW b \in broadcasts
    PROVE  /\ b.event = "call_started" /\ faults[b.call] = 0 => stage[b.call] = "started"
           /\ b.event = "call_ended" => stage[b.call] \in Over
BY DEF RunningOK, StageFits

\* No step reorders the messages on their way to a page.
LEMMA StepsKeepCardInv ==
    ASSUME TypeOK, FeedInv, CardInv, [Next]_vars
    PROVE  CardInv'
<1> SUFFICES ASSUME NEW p \in Pages, NEW c \in Calls
             PROVE  /\ faults'[c] = 0 => Ordered(channel'[p], c)
                    /\ EndIn(channel'[p], c) => stage'[c] \in Over
  BY DEF CardInv, Ordered, EndIn
<1> DEFINE s == channel[p]
           Goal == /\ faults'[c] = 0 => Ordered(channel'[p], c)
                   /\ EndIn(channel'[p], c) => stage'[c] \in Over
<1>1. /\ faults[c] = 0 => Ordered(s, c)
      /\ EndIn(s, c) => stage[c] \in Over
      /\ s \in Seq(Message) /\ RunningOK
  BY DEF CardInv, TypeOK, FeedInv
<1>2. stage[c] \in Over => stage'[c] \in Over
  BY <1>1, StagesMove DEF Over
<1>3. faults'[c] = 0 => faults[c] = 0
  BY FaultsGrow
<1>4. CASE channel'[p] = channel[p]
  BY <1>1, <1>2, <1>3, <1>4
<1>5. ASSUME NEW b \in broadcasts, stage' = stage,
             channel'[p] = Append(channel[p], [event |-> b.event, call |-> b.call])
      PROVE  Goal
  <2> DEFINE m == [event |-> b.event, call |-> b.call]
  <2>1. m \in Message /\ m.call = b.call /\ m.event = b.event
    BY RunningType DEF Message
  <2>2. channel'[p] = Append(s, m)
    BY <1>5
  <2>3. faults[c] = 0 /\ m.call = c /\ m.event = "call_started" => ~EndIn(s, c)
    BY <1>1, <2>1, LateStarts DEF Over
  <2>4. m.call = c /\ m.event = "call_ended" => stage[c] \in Over
    BY <1>1, <2>1, LateStarts
  <2> HIDE DEF m, s
  <2>5. /\ EndIn(Append(s, m), c) <=> EndIn(s, c) \/ (m.call = c /\ m.event = "call_ended")
        /\ Ordered(s, c) /\ (m.call = c /\ m.event = "call_started" => ~EndIn(s, c))
              => Ordered(Append(s, m), c)
    BY <1>1, <2>1, OneMoreMessage, Zenon
  <2> QED BY <1>1, <1>3, <1>5, <2>2, <2>3, <2>4, <2>5
<1>6. CASE channel[p] # <<>> /\ channel'[p] = Tail(channel[p]) /\ stage' = stage
  <2>1. /\ Ordered(s, c) => Ordered(Tail(s), c)
        /\ EndIn(Tail(s), c) => EndIn(s, c)
    BY <1>1, <1>6, OneMessageRead
  <2> QED BY <1>1, <1>3, <1>6, <2>1
<1>7. CASE channel'[p] = <<>>
  BY <1>7 DEF Ordered, EndIn
<1> QED BY <1>4, <1>5, <1>6, <1>7, ChannelMoves

(* The card of a call on a page, after the step.                            *)
CardNext(p, c) ==
    IF c \notin followed'[p] \/ conn'[p] # "up" THEN "none"
    ELSE IF c \in shown'[p] THEN "shown"
    ELSE IF stage'[c] \in {"started", "talking"} \/ StartIn(channel'[p], c) THEN "awaited"
    ELSE "gone"

\* A page that follows a call before and after a step has changed by reading a
\* message, or has what it had and at most one message more.
LEMMA FollowerMoves ==
    ASSUME TypeOK, FeedInv, [Next]_vars, NEW p \in Pages, NEW c \in Calls,
           c \in followed[p], c \in followed'[p]
    PROVE  \/ Receive(p)
           \/ /\ shown'[p] = shown[p]
              /\ StartIn(channel[p], c) => StartIn(channel'[p], c)
              /\ StartIn(channel'[p], c) =>
                    StartIn(channel[p], c) \/ stage[c] = "started" \/ faults[c] # 0
<1> DEFINE Goal == \/ Receive(p)
                   \/ /\ shown'[p] = shown[p]
                      /\ StartIn(channel[p], c) => StartIn(channel'[p], c)
                      /\ StartIn(channel'[p], c) =>
                            StartIn(channel[p], c) \/ stage[c] = "started" \/ faults[c] # 0
<1>1. fetch[p] = "done" /\ RunningOK
  BY DEF FeedInv, Loaded
<1>2. ASSUME shown'[p] = shown[p], channel'[p] = channel[p] PROVE Goal
  BY <1>2
<1>3. ASSUME UNCHANGED <<shown, channel>> PROVE Goal
  BY <1>2, <1>3
<1>4. ASSUME NEW q \in Pages, LoadSnapshot(q) \/ Receive(q) \/ Drop(q) PROVE Goal
  <2>1. CASE p = q
    BY <1>1, <1>4, <2>1 DEF LoadSnapshot, Drop, TypeOK
  <2>2. CASE p # q
    <3>1. shown'[p] = shown[p] /\ channel'[p] = channel[p]
      BY <1>4, <2>2 DEF LoadSnapshot, Receive, Drop, TypeOK
    <3> QED BY <1>2, <3>1
  <2> QED BY <2>1, <2>2
<1>5. ASSUME NEW b \in broadcasts, NEW q \in Sockets, SendTo(b, q) PROVE Goal
  <2>1. CASE channel'[p] = channel[p]
    BY <1>2, <1>5, <2>1 DEF SendTo
  <2>2. CASE channel'[p] # channel[p]
    <3> DEFINE m == [event |-> b.event, call |-> b.call]
               s == channel[p]
    <3>1. m \in Message /\ m.call = b.call /\ m.event = b.event /\ s \in Seq(Message)
      BY RunningType DEF TypeOK, Message
    <3>2. shown' = shown /\ channel'[p] = Append(s, m)
      BY <1>5, <2>2 DEF SendTo, TypeOK
    <3>3. b.event = "call_started" => stage[b.call] = "started" \/ faults[b.call] # 0
      BY <1>1, LateStarts
    <3> HIDE DEF m
    <3>4. s = channel[p]
      OBVIOUS
    <3> HIDE DEF s
    <3>5. StartIn(Append(s, m), c) <=> StartIn(s, c) \/ (m.call = c /\ m.event = "call_started")
      BY <3>1, OneMoreMessage, Zenon
    <3> QED BY <3>1, <3>2, <3>3, <3>4, <3>5
  <2> QED BY <2>1, <2>2
<1> HIDE DEF Goal
<1>6. Goal
  BY <1>3, <1>4, <1>5 DEF Next, vars, pageVars, HandlerStep, Broadcasting, RoomCreated,
     WorkerRecords, RoomCloses, Deliver, AnswerTimesOut, SelectRaises, FindsCall, FindsNone,
     CommitsRow, BroadcastBegins, HandlerFails, BroadcastEnds, BroadcastSkips, BroadcastRaises,
     Join, ServeSnapshot, FetchFails, DropOther, Disconnect, Remount
<1> QED BY <1>6 DEF Goal

\* While nothing of a call was lost, a page that follows it shows it when it is
\* talking, or has its start on the way.
LEMMA SureStarts ==
    ASSUME FeedInv, NEW p \in Pages, NEW c \in followed[p], stage[c] = "talking",
           faults[c] = 0, RowCount(c) \in Nat, RowCount(c) < 2
    PROVE  c \in shown[p] \/ StartIn(channel[p], c)
<1>1. LastWord(channel[p], shown[p], c, "call_started")
  BY DEF FeedInv, Loaded, Told, Hears
<1> QED BY <1>1 DEF LastWord, StartIn

\* The message that a page reads moves a card it follows.
LEMMA ReadingMoves ==
    ASSUME TypeOK, CardInv, NEW p \in Pages, Receive(p), NEW c \in Calls,
           c \in followed[p], conn[p] = "up", stage[c] # "none"
    PROVE  \/ CardNext(p, c) = Card(p, c)
           \/ Card(p, c) = "awaited" /\ CardNext(p, c) = "shown"
           \/ Card(p, c) = "shown" /\ CardNext(p, c) = "gone" /\ stage'[c] \in Over
           \/ /\ Card(p, c) = "shown" /\ CardNext(p, c) = "awaited" /\ stage'[c] \in Over
              /\ faults[c] # 0
<1> DEFINE s == channel[p]
           m == Head(s)
<1>1. /\ s \in Seq(Message) /\ s # <<>> /\ channel'[p] = Tail(s) /\ stage' = stage
      /\ c \in shown'[p] <=> IF m.event = "call_started" THEN c \in shown[p] \/ c = m.call
                                                         ELSE c \in shown[p] /\ c # m.call
      /\ conn' = conn /\ followed' = followed
  BY DEF Receive, TypeOK, serverVars
<1>2. m \in Message
  BY <1>1
<1>3. m.event = "call_started" \/ m.event = "call_ended"
  BY <1>2 DEF Message, Events
<1>4. (faults[c] = 0 => Ordered(s, c)) /\ (EndIn(s, c) => stage[c] \in Over)
  BY DEF CardInv
<1> HIDE DEF m
<1>5. s = channel[p] /\ m = Head(s)
  BY DEF m
<1> HIDE DEF s
<1>6. /\ StartIn(s, c) <=> StartIn(Tail(s), c) \/ (m.call = c /\ m.event = "call_started")
      /\ EndIn(s, c) <=> EndIn(Tail(s), c) \/ (m.call = c /\ m.event = "call_ended")
      /\ Ordered(s, c) /\ m.call = c /\ m.event = "call_ended" => ~StartIn(s, c)
  BY <1>1, <1>5, OneMessageRead
<1>7. CASE m.call = c /\ m.event = "call_started"
  BY <1>1, <1>5, <1>6, <1>7 DEF Card, CardNext
<1>8. CASE m.call = c /\ m.event = "call_ended"
  <2>1. stage[c] \in Over /\ stage[c] \notin {"started", "talking"}
    BY <1>4, <1>6, <1>8 DEF Over
  <2>2. CASE c \in shown[p] /\ ~StartIn(Tail(s), c)
    BY <1>1, <1>5, <1>8, <2>1, <2>2 DEF Card, CardNext
  <2>3. CASE c \in shown[p] /\ StartIn(Tail(s), c)
    BY <1>1, <1>4, <1>5, <1>6, <1>8, <2>1, <2>3 DEF Card, CardNext
  <2>4. CASE c \notin shown[p]
    BY <1>1, <1>5, <1>6, <1>8, <2>1, <2>4 DEF Card, CardNext
  <2> QED BY <2>2, <2>3, <2>4
<1>9. CASE m.call # c
  BY <1>1, <1>3, <1>5, <1>6, <1>9 DEF Card, CardNext
<1> QED BY <1>3, <1>7, <1>8, <1>9

\* A step moves the card of a call on a page in no way FeedCards does not know.
LEMMA CardMoves ==
    ASSUME TypeOK, TypeOK', FeedInv, FeedInv', CardInv, [Next]_vars, NEW p \in Pages, NEW c \in Calls
    PROVE  \/ CardNext(p, c) = Card(p, c)
           \/ /\ Card(p, c) = "none" /\ CardNext(p, c) \in {"awaited", "shown"}
              /\ stage'[c] \notin Over
           \/ CardNext(p, c) = "none"
           \/ Card(p, c) = "awaited" /\ CardNext(p, c) = "shown"
           \/ Card(p, c) = "shown" /\ CardNext(p, c) = "gone" /\ stage'[c] \in Over
           \/ /\ Card(p, c) = "awaited" /\ CardNext(p, c) = "gone" /\ stage'[c] \in Over
              /\ ~(faults[c] = 0 /\ RowCount(c) < 2)
           \/ /\ Card(p, c) \in {"shown", "gone"} /\ CardNext(p, c) = "awaited"
              /\ stage'[c] \in Over /\ faults'[c] # 0
<1>1. CASE c \notin followed'[p]
  BY <1>1 DEF CardNext
<1>2. CASE c \in followed'[p] /\ c \notin followed[p]
  <2>1. PICK h \in handlers : /\ BroadcastBegins(h) /\ h.call = c /\ h.late = 0
                               /\ h.event = "call_started" /\ Follows(p)
    BY <1>2, FollowingBegins
  <2>2. stage'[c] = "started" /\ conn'[p] = "up"
    BY <2>1 DEF FeedInv, RunningOK, StageFits, BroadcastBegins, Follows, pageVars
  <2> QED BY <1>2, <2>2 DEF Card, CardNext, Over
<1>3. CASE c \in followed'[p] /\ c \in followed[p]
  <2>1. /\ conn[p] = "up" /\ conn'[p] = "up" /\ stage[c] # "none"
        /\ stage[c] \in Stages /\ stage'[c] \in Stages /\ RunningOK
    BY <1>3 DEF FeedInv, Loaded, TypeOK
  <2>2. faults[c] # 0 => faults'[c] # 0
    BY FaultsGrow
  <2>3. CASE Receive(p)
    BY <1>3, <2>1, <2>2, <2>3, ReadingMoves
  <2>4. CASE /\ shown'[p] = shown[p]
             /\ StartIn(channel[p], c) => StartIn(channel'[p], c)
             /\ StartIn(channel'[p], c) =>
                   StartIn(channel[p], c) \/ stage[c] = "started" \/ faults[c] # 0
    <3>1. \/ stage'[c] = stage[c]
          \/ stage[c] = "started" /\ stage'[c] = "talking"
          \/ stage[c] = "talking" /\ stage'[c] = "finished"
          \/ stage[c] = "finished" /\ stage'[c] = "over"
      BY <2>1, StagesMove
    <3>2. CASE c \in shown[p]
      BY <1>3, <2>1, <2>4, <3>2 DEF Card, CardNext
    <3>3. CASE c \notin shown[p] /\ stage[c] \in {"started", "talking"} /\ stage'[c] \notin Over
      BY <1>3, <2>1, <2>4, <3>1, <3>3 DEF Card, CardNext, Over
    <3>4. CASE c \notin shown[p] /\ stage[c] = "talking" /\ stage'[c] = "finished"
      <4>1. RowCount(c) \in Nat
        BY RowsGrow
      <4>2. ASSUME faults[c] = 0, RowCount(c) < 2 PROVE StartIn(channel[p], c)
        BY <1>3, <3>4, <4>1, <4>2, SureStarts
      <4> QED BY <1>3, <2>1, <2>4, <3>4, <4>2 DEF Card, CardNext, Over
    <3>5. CASE c \notin shown[p] /\ stage[c] \in Over
      <4>1. stage'[c] \in Over /\ stage'[c] \notin {"started", "talking"}
            /\ stage[c] \notin {"started", "talking"}
        BY <3>1, <3>5 DEF Over
      <4>2. CASE StartIn(channel[p], c)
        BY <1>3, <2>1, <2>4, <3>5, <4>1, <4>2 DEF Card, CardNext
      <4>3. CASE ~StartIn(channel[p], c)
        BY <1>3, <2>1, <2>2, <2>4, <3>5, <4>1, <4>3 DEF Card, CardNext
      <4> QED BY <4>2, <4>3
    <3> QED BY <2>1, <3>1, <3>2, <3>3, <3>4, <3>5 DEF Stages, Over
  <2> QED BY <1>3, <2>3, <2>4, FollowerMoves
<1> QED BY <1>1, <1>2, <1>3

Ended == {c \in Calls : stage[c] \in {"finished", "over"}}
Sure == {c \in Calls : faults[c] = 0 /\ RowCount(c) < 2}

\* Every step of CallFeed is a step of FeedCards, or leaves the cards alone.
LEMMA StepsMoveCards ==
    ASSUME TypeOK, TypeOK', FeedInv, FeedInv', CardInv, [Next]_vars
    PROVE  Feed!Next
<1>1. Ended \subseteq Ended'
  BY StagesMove DEF Ended, FeedInv
<1>2. Sure' \subseteq Sure
  <2>1. ASSUME NEW c \in Calls, faults'[c] = 0, RowCount(c)' < 2
        PROVE  faults[c] = 0 /\ RowCount(c) < 2
    BY <2>1, FaultsGrow, RowsGrow
  <2> QED BY <2>1 DEF Sure, RowCount
<1>3. ASSUME NEW p \in Pages, NEW c \in Calls
      PROVE  Feed!Move(p, c)
  <2> DEFINE old == [q \in Pages |-> [d \in Calls |-> Card(q, d)]]
             new == [q \in Pages |-> [d \in Calls |-> CardNext(q, d)]]
  <2>1. new = [q \in Pages |-> [d \in Calls |-> Card(q, d)]]'
    BY DEF Card, CardNext, StartIn
  <2>2. old[p][c] = Card(p, c) /\ new[p][c] = CardNext(p, c)
    OBVIOUS
  <2>3. /\ c \in Ended' <=> stage'[c] \in Over
        /\ c \in Sure <=> faults[c] = 0 /\ RowCount(c) < 2
        /\ faults'[c] # 0 => c \notin Sure'
    BY DEF Ended, Sure, Over
  <2> HIDE DEF old, new
  <2>4. \/ new[p][c] = old[p][c]
        \/ old[p][c] = "none" /\ new[p][c] \in {"awaited", "shown"} /\ c \notin Ended'
        \/ new[p][c] = "none"
        \/ old[p][c] = "awaited" /\ new[p][c] = "shown"
        \/ old[p][c] = "shown" /\ new[p][c] = "gone" /\ c \in Ended'
        \/ old[p][c] = "awaited" /\ new[p][c] = "gone" /\ c \in Ended' /\ c \notin Sure
        \/ old[p][c] \in {"shown", "gone"} /\ new[p][c] = "awaited" /\ c \in Ended' /\ c \notin Sure'
    BY <2>2, <2>3, CardMoves
  <2> QED BY <2>1, <2>4 DEF old, Ended, Sure, Feed!Move, Feed!Follow, Feed!Leave, Feed!Show,
             Feed!TakeOff, Feed!Miss, Feed!Return
<1> QED BY <1>1, <1>2, <1>3 DEF Feed!Next, Ended, Sure

\* Broadcasts that are cut short and repeated, of webhooks that overlap with
\* dashboards opening and closing, and handlers that run on when LiveKit has
\* given them up, move the cards of each page as FeedCards says, for any number
\* of calls, dashboards and failures: a call that nothing happened to is shown
\* once and taken off once, and none is taken off before its end.
THEOREM FeedKeepsCards == Spec => CardsKept
<1>1. Init => CardInv
  BY DEF Init, CardInv, Ordered, EndIn
<1>2. Init => Feed!Init
  <2> SUFFICES ASSUME Init PROVE Feed!Init
    OBVIOUS
  <2>1. \A p \in Pages, c \in Calls : Card(p, c) = "none"
    BY DEF Init, Card
  <2>2. Ended = {} /\ Sure = Calls
    BY DEF Init, Ended, Sure, RowCount
  <2> QED BY <2>1, <2>2 DEF Feed!Init, Ended, Sure
<1>3. Init => FeedInv
  BY DEF Init, FeedInv, RunningOK, AwaitedOnce
<1>4. Feed!Next => [Feed!Next]_(Feed!vars)
  OBVIOUS
<1> QED BY <1>1, <1>2, <1>3, <1>4, StepsMoveCards, StepsKeepCardInv, FeedStepsKeepInv,
        FeedTypeCorrect, PTL DEF Spec, CardsKept, Feed!Spec
=============================================================================
