-------------------------- MODULE CallLifecycleProofs --------------------------
(***************************************************************************)
(* Theorems about CallLifecycle, for any number of leads, numbers, calls    *)
(* and failures.                                                            *)
(***************************************************************************)
EXTENDS CallLifecycle, TLAPS

\* What holds of the types and of the references between the processes.
RefsOK ==
    /\ DispatchHasLead
    /\ RequestsNameRows
    /\ SessionsNameRows
    /\ OneAwaited
    /\ JobsNameEndedCalls

(***************************************************************************)
(* Types.                                                                   *)
(***************************************************************************)
LEMMA TablesUntouched ==
    ASSUME TablesTypeOK, UNCHANGED <<leadVars, campaigns, dnc, calls, transcripts>>,
           faults' \in 0..MaxFaults
    PROVE  TablesTypeOK'
BY DEF TablesTypeOK, leadVars

LEMMA LiveKitUntouched == ASSUME LiveKitTypeOK, UNCHANGED livekitVars PROVE LiveKitTypeOK'
BY DEF LiveKitTypeOK, livekitVars

LEMMA WorkerUntouched ==
    ASSUME WorkerTypeOK, UNCHANGED <<workerVars, dialHistory>>
    PROVE  WorkerTypeOK'
BY DEF WorkerTypeOK, workerVars, dialHistory

LEMMA ReceiverUntouched == ASSUME ReceiverTypeOK, UNCHANGED receiverVars PROVE ReceiverTypeOK'
BY DEF ReceiverTypeOK, receiverVars

LEMMA AnalysisUntouched == ASSUME AnalysisTypeOK, UNCHANGED notified PROVE AnalysisTypeOK'
BY DEF AnalysisTypeOK

LEMMA TablesActionsKeepType ==
    ASSUME TypeOK, UNCHANGED othersOfTables,
           \/ DashboardNext
           \/ \E l \in Leads : BackoffElapses(l)
           \/ \E p \in Phones : RegistryImport(p)
    PROVE  TypeOK'
<1>1. LiveKitTypeOK' /\ WorkerTypeOK' /\ ReceiverTypeOK' /\ AnalysisTypeOK'
  BY LiveKitUntouched, WorkerUntouched, ReceiverUntouched, AnalysisUntouched
  DEF TypeOK, othersOfTables
<1> SUFFICES TablesTypeOK'
  BY <1>1 DEF TypeOK
<1> USE DEF TypeOK, TablesTypeOK, leadVars
<1>2. ASSUME NEW k \in Campaigns, CreateCampaign(k) PROVE TablesTypeOK'
  BY <1>2 DEF CreateCampaign
<1>3. ASSUME NEW t, NEW k \in Campaigns \cup {NoCampaign}, UploadLeads(t, k) PROVE TablesTypeOK'
  BY <1>3 DEF UploadLeads, ContactStatus
<1>4. ASSUME NEW ls \in SUBSET Leads, NEW k \in Campaigns, AssignLeads(ls, k) PROVE TablesTypeOK'
  BY <1>4 DEF AssignLeads
<1>5. ASSUME NEW l \in Leads, BackoffElapses(l) PROVE TablesTypeOK'
  BY <1>5 DEF BackoffElapses
<1>6. ASSUME NEW p \in Phones, RegistryImport(p) PROVE TablesTypeOK'
  BY <1>6 DEF RegistryImport
<1>7. DashboardNext => TablesTypeOK'
  BY <1>2, <1>3, <1>4 DEF DashboardNext
<1> QED BY <1>5, <1>6, <1>7

LEMMA FaultKeepsType ==
    ASSUME faults \in 0..MaxFaults, Fault
    PROVE  faults' \in 0..MaxFaults
BY LeadsAssumption DEF Fault

LEMMA HookAppended ==
    ASSUME hooks \in [Leads -> Seq(Hook)], NEW l \in Leads, NEW h \in Hook
    PROVE  [hooks EXCEPT ![l] = Append(@, h)] \in [Leads -> Seq(Hook)]
<1>1. Append(hooks[l], h) \in Seq(Hook)
  OBVIOUS
<1> QED BY <1>1

(* A room is opened, or is already open: what it does to LiveKit's types.   *)
LEMMA OpenRoomKeepsType ==
    ASSUME LiveKitTypeOK, NEW l \in Leads, NEW kind \in {"open", "bare"}, OpenRoom(l, kind)
    PROVE  /\ room' \in [Leads -> {"none", "open", "bare"}]
           /\ answered' \in [Leads -> BOOLEAN]
           /\ hooks' \in [Leads -> Seq(Hook)]
           /\ sending' \in [Leads -> BOOLEAN]
           /\ sessions' \subseteq Session
<1>1. CASE room[l] = "none"
  <2>1. room' \in [Leads -> {"none", "open", "bare"}]
    BY <1>1 DEF OpenRoom, LiveKitTypeOK
  <2>2. [event |-> "room_started", meta |-> room'[l] = "open"] \in Hook
    BY DEF Hook, Events
  <2>3. hooks' \in [Leads -> Seq(Hook)]
    <3>1. hooks' = [hooks EXCEPT
              ![l] = Append(@, [event |-> "room_started", meta |-> room'[l] = "open"])]
      BY <1>1 DEF OpenRoom, Emit
    <3> QED BY <2>2, <3>1, HookAppended DEF LiveKitTypeOK
  <2>4. sessions' \subseteq Session
    BY <1>1 DEF OpenRoom, LiveKitTypeOK, Session, Texts
  <2> QED BY <1>1, <2>1, <2>3, <2>4 DEF OpenRoom, LiveKitTypeOK
<1>2. CASE room[l] # "none"
  BY <1>2 DEF OpenRoom, LiveKitTypeOK
<1> QED BY <1>1, <1>2

LEMMA ServerActionsKeepType ==
    ASSUME LiveKitTypeOK, NEW l \in Leads, CreateRoom(l) \/ CreateSipParticipant(l)
    PROVE  LiveKitTypeOK'
<1>1. CASE CreateRoom(l)
  BY <1>1, OpenRoomKeepsType DEF CreateRoom, LiveKitTypeOK
<1>2. CASE CreateSipParticipant(l)
  BY <1>2, OpenRoomKeepsType DEF CreateSipParticipant, LiveKitTypeOK
<1> QED BY <1>1, <1>2

LEMMA LiveKitKeepsType ==
    ASSUME TypeOK, LiveKitNext, UNCHANGED othersOfLiveKit
    PROVE  TypeOK'
<1>1. /\ TablesTypeOK' /\ WorkerTypeOK' /\ ReceiverTypeOK' /\ AnalysisTypeOK'
  <2>1. faults' \in 0..MaxFaults
    BY FaultKeepsType DEF LiveKitNext, TypeOK, TablesTypeOK
  <2> QED BY <2>1, TablesUntouched, WorkerUntouched, ReceiverUntouched, AnalysisUntouched
          DEF TypeOK, othersOfLiveKit
<1>2. LiveKitTypeOK'
  <2> PICK l \in Leads : SipJoins(l) \/ SipLeaves(l) \/ RoomCloses(l)
    BY DEF LiveKitNext
  <2>1. /\ [event |-> "participant_joined", meta |-> room[l] = "open"] \in Hook
        /\ [event |-> "room_finished", meta |-> room[l] = "open"] \in Hook
    BY DEF Hook, Events
  <2>2. CASE SipJoins(l)
    BY <2>1, <2>2, HookAppended DEF TypeOK, LiveKitTypeOK, SipJoins
  <2>3. CASE SipLeaves(l)
    BY <2>3 DEF TypeOK, LiveKitTypeOK, SipLeaves
  <2>4. CASE RoomCloses(l)
    BY <2>1, <2>4, HookAppended DEF TypeOK, LiveKitTypeOK, RoomCloses
  <2> QED BY <2>2, <2>3, <2>4
<1> QED BY <1>1, <1>2 DEF TypeOK

LEMMA WorkerKeepsType ==
    ASSUME TypeOK, DispatchHasLead, WorkerNext, UNCHANGED othersOfWorker
    PROVE  TypeOK'
<1>1. ReceiverTypeOK' /\ AnalysisTypeOK'
  BY DEF TypeOK, ReceiverTypeOK, AnalysisTypeOK, othersOfWorker, receiverVars
<1>2. worker \in HoldsLead => current \in Leads
  BY DEF DispatchHasLead
<1> SUFFICES TablesTypeOK' /\ LiveKitTypeOK' /\ WorkerTypeOK'
  BY <1>1 DEF TypeOK
<1>3. CASE \/ StartWorker \/ BatchEnds \/ MergeDialed \/ MergeRetry
           \/ \E rows, dialable \in SUBSET Leads : FetchBatch(rows, dialable)
           \/ \E rows \in SUBSET Leads : UnknownTimeZone(rows)
           \/ \E l \in Leads : NextLead(l)
  <2>1. TablesTypeOK' /\ LiveKitTypeOK'
    BY <1>3 DEF TypeOK, StartWorker, BatchEnds, MergeDialed, MergeRetry, Merge, FetchBatch,
       UnknownTimeZone, NextLead, TablesTypeOK, LiveKitTypeOK, tableVars, livekitVars
  <2> USE DEF TypeOK, TablesTypeOK, WorkerTypeOK, WorkerPoints, Forget, dialHistory
  <2>2. CASE StartWorker
    BY <2>1, <2>2 DEF StartWorker
  <2>3. CASE BatchEnds
    BY <2>1, <2>3 DEF BatchEnds
  <2>4. CASE MergeDialed \/ MergeRetry
    BY <2>1, <2>4 DEF MergeDialed, MergeRetry, Merge, DirtyColumns
  <2>5. CASE \E rows, dialable \in SUBSET Leads : FetchBatch(rows, dialable)
    BY <2>1, <2>5 DEF FetchBatch
  <2>6. CASE \E rows \in SUBSET Leads : UnknownTimeZone(rows)
    BY <2>1, <2>6 DEF UnknownTimeZone
  <2>7. CASE \E l \in Leads : NextLead(l)
    BY <2>1, <2>7 DEF NextLead
  <2> QED BY <1>3, <2>2, <2>3, <2>4, <2>5, <2>6, <2>7
<1>4. CASE RoomCreated \/ RoomFails \/ SipDialed \/ SipFails
  <2>1. current \in Leads
    BY <1>2, <1>4 DEF RoomCreated, RoomFails, SipDialed, SipFails, HoldsLead
  <2>2. LiveKitTypeOK'
    <3>1. CreateRoom(current) \/ CreateSipParticipant(current) \/ UNCHANGED livekitVars
      BY <1>4 DEF RoomCreated, RoomFails, SipDialed, SipFails, PlaceDial
    <3> QED BY <2>1, <3>1, ServerActionsKeepType DEF TypeOK, LiveKitTypeOK, livekitVars
  <2>3. TablesTypeOK'
    BY <1>4, FaultKeepsType DEF RoomCreated, RoomFails, SipDialed, SipFails, TypeOK, TablesTypeOK,
       tableVars, leadVars
  <2>4. WorkerTypeOK'
    <3>1. CASE RoomCreated \/ RoomFails
      BY <1>2, <3>1 DEF RoomCreated, RoomFails, Goto, TypeOK, WorkerTypeOK, WorkerPoints, dialHistory
    <3>2. CASE SipDialed
      BY <2>1, <3>2 DEF SipDialed, Goto, PlaceDial, TypeOK, WorkerTypeOK, WorkerPoints
    <3>3. CASE SipFails
      BY <2>1, <3>3 DEF SipFails, Goto, PlaceDial, LoseRecord, TypeOK, WorkerTypeOK, WorkerPoints,
         dialHistory
    <3> QED BY <1>4, <3>1, <3>2, <3>3
  <2> QED BY <2>2, <2>3, <2>4
<1>5. CASE \/ CommitDialed \/ CommitRetry \/ DatabaseFails \/ WorkerCrashes
           \/ \E l \in Leads : SessionGetFails(l)
  <2>1. LiveKitTypeOK'
    BY <1>5 DEF CommitDialed, CommitRetry, DatabaseFails, SessionGetFails, WorkerCrashes, TypeOK,
       LiveKitTypeOK, livekitVars
  <2>2. WorkerTypeOK'
    <3> USE DEF TypeOK, WorkerTypeOK, WorkerPoints, Forget, DispatchEnds, LoseRecord, dialHistory
    <3>1. CASE CommitDialed
      BY <3>1 DEF CommitDialed
    <3>2. CASE CommitRetry
      BY <3>2 DEF CommitRetry
    <3>3. CASE DatabaseFails
      BY <3>3 DEF DatabaseFails
    <3>4. CASE WorkerCrashes
      BY <3>4 DEF WorkerCrashes
    <3>5. CASE \E l \in Leads : SessionGetFails(l)
      BY <3>5 DEF SessionGetFails
    <3> QED BY <1>5, <3>1, <3>2, <3>3, <3>4, <3>5
  <2>3. ASSUME worker = "commit", DialFlushed, faults' \in 0..MaxFaults
        PROVE  TablesTypeOK'
    <3>1. current \in Leads
      BY <1>2, <2>3 DEF HoldsLead
    <3>2. calls' \in [CallIds -> CallRow \cup {NoRow}]
      BY <2>3, <3>1 DEF DialFlushed, InsertCall, TypeOK, TablesTypeOK, CallRow
    <3> QED BY <2>3, <3>1, <3>2 DEF DialFlushed, FlushLead, TypeOK, TablesTypeOK, WorkerTypeOK,
               ContactStatus
  <2>4. ASSUME worker = "retry_commit", RetryFlushed, faults' \in 0..MaxFaults
        PROVE  TablesTypeOK'
    <3>1. current \in Leads
      BY <1>2, <2>4 DEF HoldsLead
    <3> QED BY <2>4, <3>1 DEF RetryFlushed, FlushLead, TypeOK, TablesTypeOK, WorkerTypeOK,
               ContactStatus
  <2>5. ASSUME UNCHANGED <<leadVars, campaigns, dnc, calls, transcripts>>, faults' \in 0..MaxFaults
        PROVE  TablesTypeOK'
    BY <2>5 DEF TypeOK, TablesTypeOK, leadVars
  <2>6. faults' \in 0..MaxFaults
    BY <1>5, FaultKeepsType DEF CommitDialed, CommitRetry, DatabaseFails, SessionGetFails,
       WorkerCrashes, TypeOK, TablesTypeOK
  <2> QED BY <1>5, <2>1, <2>2, <2>3, <2>4, <2>5, <2>6 DEF CommitDialed, CommitRetry,
             DatabaseFails, SessionGetFails, WorkerCrashes
<1> QED BY <1>3, <1>4, <1>5 DEF WorkerNext, Dispatching

(* A row that starts or ends is still a row.                                *)
LEMMA RowUpdated ==
    ASSUME calls \in [CallIds -> CallRow \cup {NoRow}], NEW c \in CallIds, calls[c] # NoRow
    PROVE  /\ [calls EXCEPT ![c].started = TRUE] \in [CallIds -> CallRow \cup {NoRow}]
           /\ [calls EXCEPT ![c].ended = TRUE] \in [CallIds -> CallRow \cup {NoRow}]
<1>1. calls[c] \in CallRow
  OBVIOUS
<1>2. [calls[c] EXCEPT !.started = TRUE] \in CallRow /\ [calls[c] EXCEPT !.ended = TRUE] \in CallRow
  BY <1>1 DEF CallRow
<1> QED BY <1>2

(* The webhooks of a room lose their oldest.                                *)
LEMMA StopSendingKeepsType ==
    ASSUME hooks \in [Leads -> Seq(Hook)], sending \in [Leads -> BOOLEAN],
           NEW l \in Leads, NEW done \in BOOLEAN, hooks[l] # <<>>, StopSending(l, done)
    PROVE  /\ hooks' \in [Leads -> Seq(Hook)]
           /\ sending' \in [Leads -> BOOLEAN]
<1>1. Tail(hooks[l]) \in Seq(Hook)
  OBVIOUS
<1> QED BY <1>1 DEF StopSending

(* However a handler answers, LiveKit's types stay.                         *)
LEMMA AnswerKeepsType ==
    ASSUME LiveKitTypeOK, requests \subseteq Request, OneAwaited,
           NEW r \in requests, Answer200(r) \/ Answer500(r)
    PROVE  /\ LiveKitTypeOK'
           /\ requests' \subseteq Request
<1>1. r.lead \in Leads /\ r.awaited \in BOOLEAN
  BY DEF Request
<1>2. r.awaited => hooks[r.lead] # <<>>
  BY DEF OneAwaited
<1>3. \/ UNCHANGED <<hooks, sending>>
      \/ r.awaited /\ \E done \in BOOLEAN : StopSending(r.lead, done)
  BY <1>1 DEF Answer200, Answer500
<1>4. hooks' \in [Leads -> Seq(Hook)] /\ sending' \in [Leads -> BOOLEAN]
  BY <1>1, <1>2, <1>3, StopSendingKeepsType DEF LiveKitTypeOK
<1> QED BY <1>4 DEF Answer200, Answer500, Ends, LiveKitTypeOK

LEMMA ReceiverKeepsType ==
    ASSUME TypeOK, RequestsNameRows, OneAwaited, ReceiverNext, UNCHANGED othersOfReceiver
    PROVE  TypeOK'
<1> USE DEF TypeOK
<1>1. WorkerTypeOK' /\ AnalysisTypeOK'
  BY WorkerUntouched, AnalysisUntouched DEF othersOfReceiver
<1> SUFFICES TablesTypeOK' /\ LiveKitTypeOK' /\ ReceiverTypeOK'
  BY <1>1
<1>2. ASSUME NEW r \in requests
      PROVE  /\ r.lead \in Leads
             /\ r.call \in CallIds \cup {NoRow}
             /\ r.awaited \in BOOLEAN
  BY DEF ReceiverTypeOK, Request
<1>3. Fault => faults' \in 0..MaxFaults
  BY FaultKeepsType DEF TablesTypeOK
<1>4. UNCHANGED tableVars => TablesTypeOK'
  BY DEF TablesTypeOK, tableVars
<1>5. ASSUME NEW l \in Leads, Deliver(l)
      PROVE  TablesTypeOK' /\ LiveKitTypeOK' /\ ReceiverTypeOK'
  <2>1. LiveKitTypeOK'
    BY <1>5 DEF Deliver, LiveKitTypeOK
  <2>2. Head(hooks[l]) \in Hook
    BY <1>5 DEF Deliver, LiveKitTypeOK
  <2>3. [lead |-> l, event |-> Head(hooks[l]).event, meta |-> Head(hooks[l]).meta,
         awaited |-> TRUE, pc |-> "select", call |-> NoRow] \in Request
    BY <2>2 DEF Hook, Request
  <2>4. ReceiverTypeOK'
    BY <1>5, <2>3 DEF Deliver, ReceiverTypeOK
  <2> QED BY <1>4, <1>5, <2>1, <2>4 DEF Deliver
<1>6. ASSUME NEW r \in requests, NEW pc \in {"commit", "enqueue"},
             NEW c \in CallIds \cup {NoRow}, Continues(r, pc, c)
      PROVE  requests' \subseteq Request
  <2>1. [r EXCEPT !.pc = pc, !.call = c] \in Request
    BY DEF ReceiverTypeOK, Request
  <2> QED BY <1>6, <2>1 DEF Continues, ReceiverTypeOK
<1>7. ASSUME NEW r \in requests, Answer200(r) \/ Answer500(r)
      PROVE  LiveKitTypeOK' /\ requests' \subseteq Request
  BY <1>7, AnswerKeepsType DEF ReceiverTypeOK
<1>8. ASSUME NEW r \in requests, BroadcastAndAnswer(r)
      PROVE  LiveKitTypeOK' /\ requests' \subseteq Request /\ faults' \in 0..MaxFaults
  BY <1>3, <1>7, <1>8 DEF BroadcastAndAnswer, TablesTypeOK
<1>9. ASSUME NEW r \in requests, Handling(r)
      PROVE  TablesTypeOK' /\ LiveKitTypeOK' /\ ReceiverTypeOK'
  <2>1. CASE SelectRaises(r)
    BY <1>4, <1>7, <2>1 DEF SelectRaises, ReceiverTypeOK
  <2>2. CASE SelectFindsNone(r)
    BY <1>4, <1>6, <1>7, <2>2, LiveKitUntouched DEF SelectFindsNone, ReceiverTypeOK
  <2>3. ASSUME NEW c \in CallIds, SelectFindsCall(r, c)
        PROVE  TablesTypeOK' /\ LiveKitTypeOK' /\ ReceiverTypeOK'
    BY <1>4, <1>6, <2>3, LiveKitUntouched DEF SelectFindsCall, ReceiverTypeOK
  <2>4. CASE CommitRoomStarted(r)
    <3>1. LiveKitTypeOK' /\ ReceiverTypeOK' /\ faults' \in 0..MaxFaults
      BY <1>8, <2>4 DEF CommitRoomStarted, ReceiverTypeOK
    <3>2. calls' \in [CallIds -> CallRow \cup {NoRow}]
      <4>1. CASE r.call # NoRow
        <5>1. r.call \in CallIds /\ calls[r.call] # NoRow
          BY <1>2, <4>1 DEF RequestsNameRows
        <5>2. calls' = [calls EXCEPT ![r.call].started = TRUE]
          BY <2>4, <4>1 DEF CommitRoomStarted
        <5> QED BY <5>1, <5>2, RowUpdated DEF TablesTypeOK
      <4>2. CASE r.call = NoRow
        <5>1. [lead |-> r.lead, status |-> "CALLING", started |-> TRUE, ended |-> FALSE] \in CallRow
          BY <1>2 DEF CallRow
        <5> QED BY <2>4, <4>2, <5>1 DEF CommitRoomStarted, InsertCall, TablesTypeOK
      <4> QED BY <4>1, <4>2
    <3> QED BY <1>2, <2>4, <3>1, <3>2 DEF CommitRoomStarted, SetLeadStatus, TablesTypeOK,
               ContactStatus
  <2>5. CASE ParticipantJoined(r)
    <3>1. LiveKitTypeOK' /\ ReceiverTypeOK'
      BY <1>7, <2>5 DEF ParticipantJoined, ReceiverTypeOK
    <3> QED BY <1>2, <2>5, <3>1 DEF ParticipantJoined, SetLeadStatus, TablesTypeOK, ContactStatus
  <2>6. CASE CommitRoomFinished(r)
    <3>1. LiveKitTypeOK' /\ ReceiverTypeOK'
      BY <1>2, <1>6, <2>6, LiveKitUntouched DEF CommitRoomFinished, ReceiverTypeOK
    <3>2. calls' \in [CallIds -> CallRow \cup {NoRow}]
      BY <1>2, <2>6, RowUpdated DEF CommitRoomFinished, RequestsNameRows, TablesTypeOK
    <3> QED BY <1>2, <2>6, <3>1, <3>2 DEF CommitRoomFinished, SetLeadStatus, TablesTypeOK,
               ContactStatus
  <2>7. CASE EnqueueAnalysis(r)
    <3>1. LiveKitTypeOK' /\ requests' \subseteq Request /\ faults' \in 0..MaxFaults
      BY <1>8, <2>7 DEF EnqueueAnalysis
    <3>2. r.call \in CallIds
      BY <1>2, <2>7 DEF EnqueueAnalysis, RequestsNameRows
    <3>3. ReceiverTypeOK'
      <4>1. enqueued[r.call] + 1 \in Nat /\ enqueued' \in [CallIds -> Nat]
        BY <2>7, <3>2 DEF EnqueueAnalysis, ReceiverTypeOK
      <4>2. [call |-> r.call, nth |-> enqueued[r.call] + 1, left |-> JobRetries,
             pc |-> "queued", optOut |-> FALSE, flag |-> FALSE] \in Job
        BY <3>2, <4>1, JobRetriesAssumption DEF Job
      <4> QED BY <2>7, <3>1, <4>1, <4>2 DEF EnqueueAnalysis, ReceiverTypeOK
    <3> QED BY <2>7, <3>1, <3>3, TablesUntouched DEF EnqueueAnalysis
  <2> QED BY <1>9, <2>1, <2>2, <2>3, <2>4, <2>5, <2>6, <2>7 DEF Handling
<1>10. ASSUME NEW r \in requests, EnqueueSwallowed(r) \/ HandlerRaises(r)
       PROVE  TablesTypeOK' /\ LiveKitTypeOK' /\ ReceiverTypeOK'
  BY <1>3, <1>7, <1>10, TablesUntouched DEF EnqueueSwallowed, HandlerRaises, ReceiverTypeOK
<1>11. ASSUME NEW r \in requests, AnswerTimesOut(r)
       PROVE  TablesTypeOK' /\ LiveKitTypeOK' /\ ReceiverTypeOK'
  <2>1. [r EXCEPT !.awaited = FALSE] \in Request
    BY DEF ReceiverTypeOK, Request
  <2>2. hooks[r.lead] # <<>>
    BY <1>11 DEF AnswerTimesOut, OneAwaited
  <2>3. LiveKitTypeOK'
    BY <1>2, <1>11, <2>2, StopSendingKeepsType DEF AnswerTimesOut, LiveKitTypeOK
  <2> QED BY <1>3, <1>11, <2>1, <2>3, TablesUntouched DEF AnswerTimesOut, ReceiverTypeOK
<1>12. ASSUME ApiCrashes
       PROVE  TablesTypeOK' /\ LiveKitTypeOK' /\ ReceiverTypeOK'
  BY <1>3, <1>12, TablesUntouched DEF ApiCrashes, LiveKitTypeOK, ReceiverTypeOK
<1> QED BY <1>5, <1>9, <1>10, <1>11, <1>12 DEF ReceiverNext

LEMMA AgentKeepsType ==
    ASSUME TypeOK, SessionsNameRows, AgentNext, UNCHANGED othersOfAgent
    PROVE  TypeOK'
<1> USE DEF TypeOK
<1>1. WorkerTypeOK' /\ ReceiverTypeOK' /\ AnalysisTypeOK'
  BY WorkerUntouched, ReceiverUntouched, AnalysisUntouched DEF othersOfAgent
<1> SUFFICES TablesTypeOK' /\ LiveKitTypeOK'
  BY <1>1
<1> PICK s \in sessions : \/ \E text \in Texts : SessionEnds(s, text)
                          \/ Saving(s)
                          \/ SessionCrashes(s)
  BY DEF AgentNext
<1>2. s.lead \in Leads /\ s.text \in Texts /\ s.call \in CallIds \cup {NoRow}
  BY DEF LiveKitTypeOK, Session
<1>3. ASSUME NEW text \in Texts, SessionEnds(s, text) PROVE TablesTypeOK' /\ LiveKitTypeOK'
  <2>1. [s EXCEPT !.pc = "saving", !.text = text] \in Session
    BY DEF LiveKitTypeOK, Session
  <2>2. LiveKitTypeOK'
    BY <1>3, <2>1 DEF SessionEnds, LiveKitTypeOK
  <2> QED BY <1>3, <2>2 DEF SessionEnds, tableVars, TablesTypeOK
<1>4. JobEnds(s) => LiveKitTypeOK'
  BY DEF JobEnds, LiveKitTypeOK
<1>5. ASSUME SaveTranscript(s) PROVE TablesTypeOK' /\ LiveKitTypeOK'
  <2> DEFINE c == s.call
  <2>1. c \in CallIds /\ calls[c] # NoRow
    BY <1>2, <1>5 DEF SaveTranscript, SessionsNameRows
  <2>2. calls' \in [CallIds -> CallRow \cup {NoRow}]
    BY <1>5, <2>1, RowUpdated DEF SaveTranscript, TablesTypeOK
  <2>3. (IF transcripts[c] = NoRow THEN [text |-> s.text, data |-> "null"]
         ELSE [transcripts[c] EXCEPT !.text = s.text]) \in TranscriptRow
    BY <1>2, <2>1 DEF TablesTypeOK, TranscriptRow, StructuredData
  <2>4. transcripts' \in [CallIds -> TranscriptRow \cup {NoRow}]
    BY <1>5, <2>1, <2>3 DEF SaveTranscript, CreateTranscript, TablesTypeOK
  <2> QED BY <1>4, <1>5, <2>2, <2>4 DEF SaveTranscript, TablesTypeOK, leadVars
<1>6. CASE TranscriptDropped(s)
  BY <1>4, <1>6 DEF TranscriptDropped, tableVars, TablesTypeOK
<1>7. CASE SessionCrashes(s)
  BY <1>4, <1>7, FaultKeepsType, TablesUntouched DEF SessionCrashes, TablesTypeOK
<1>8. ASSUME NEW c \in CallIds, FindsCallToSave(s, c) PROVE TablesTypeOK' /\ LiveKitTypeOK'
  <2>1. [s EXCEPT !.pc = "writing", !.call = c] \in Session
    BY <1>2 DEF LiveKitTypeOK, Session
  <2>2. LiveKitTypeOK'
    BY <1>8, <2>1 DEF FindsCallToSave, LiveKitTypeOK
  <2> QED BY <1>8, <2>2 DEF FindsCallToSave, tableVars, TablesTypeOK
<1> QED BY <1>3, <1>5, <1>6, <1>7, <1>8 DEF Saving

LEMMA AnalysisKeepsType ==
    ASSUME TypeOK, JobsNameEndedCalls, AnalysisNext, UNCHANGED othersOfAnalysis
    PROVE  TypeOK'
<1> USE DEF TypeOK
<1>1. WorkerTypeOK'
  BY WorkerUntouched DEF othersOfAnalysis
<1> SUFFICES TablesTypeOK' /\ LiveKitTypeOK' /\ ReceiverTypeOK' /\ AnalysisTypeOK'
  BY <1>1
<1> PICK j \in jobs : Analysing(j) \/ AnalysisRaises(j) \/ WorkHorseKilled(j)
  BY DEF AnalysisNext
<1>2. j \in Job /\ j.call \in CallIds /\ j.left \in 0..JobRetries
  BY DEF ReceiverTypeOK, Job
<1>3. LeadOf(j) \in Leads
  <2>1. calls[j.call] \in CallRow
    BY <1>2 DEF JobsNameEndedCalls, TablesTypeOK
  <2> QED BY <2>1 DEF LeadOf, CallRow
<1>4. UNCHANGED tableVars => TablesTypeOK'
  BY DEF TablesTypeOK, tableVars
<1>5. ASSUME NEW k \in Job, Becomes(j, k), requests' = requests, enqueued' = enqueued
      PROVE  ReceiverTypeOK'
  BY <1>5 DEF Becomes, ReceiverTypeOK
<1>6. Finishes(j) /\ requests' = requests /\ enqueued' = enqueued => ReceiverTypeOK'
  BY DEF Finishes, ReceiverTypeOK
<1>7. ASSUME NEW d \in StructuredData, SetData(j.call, d)
      PROVE  transcripts' \in [CallIds -> TranscriptRow \cup {NoRow}]
  <2>1. transcripts[j.call] # NoRow => [transcripts[j.call] EXCEPT !.data = d] \in TranscriptRow
    BY <1>2 DEF TablesTypeOK, TranscriptRow
  <2> QED BY <1>2, <1>7, <2>1 DEF SetData, TablesTypeOK
<1>8. Requeue(j) /\ requests' = requests /\ enqueued' = enqueued => ReceiverTypeOK'
  <2>1. j.left > 0 => j.left - 1 \in 0..JobRetries
    BY <1>2, JobRetriesAssumption
  <2>2. j.left > 0 => [j EXCEPT !.pc = "queued", !.left = @ - 1,
                                !.optOut = FALSE, !.flag = FALSE] \in Job
    BY <1>2, <2>1 DEF Job
  <2> QED BY <1>5, <2>2 DEF Requeue
<1>9. Fault => faults' \in 0..MaxFaults
  BY FaultKeepsType DEF TablesTypeOK
<1>10. notified' = [notified EXCEPT ![j.call] = @ + 1] => AnalysisTypeOK'
  BY <1>2 DEF AnalysisTypeOK
<1>11. CASE ReadTranscript(j)
  <2>1. [j EXCEPT !.pc = "extract", !.optOut = transcripts[j.call].text = "opt_out"] \in Job
    BY <1>2 DEF Job
  <2> QED BY <1>4, <1>5, <1>6, <1>11, <2>1, LiveKitUntouched, AnalysisUntouched DEF ReadTranscript
<1>12. ASSUME NEW flag \in BOOLEAN, Extract(j, flag)
       PROVE  TablesTypeOK' /\ LiveKitTypeOK' /\ ReceiverTypeOK' /\ AnalysisTypeOK'
  <2>1. [j EXCEPT !.pc = "write", !.flag = flag, !.optOut = flag \/ @] \in Job
    BY <1>2 DEF Job
  <2> QED BY <1>4, <1>5, <1>12, <2>1, LiveKitUntouched, AnalysisUntouched DEF Extract
<1>13. CASE WriteResult(j)
  <2>1. [j EXCEPT !.pc = "notify"] \in Job
    BY <1>2 DEF Job
  <2>2. transcripts' \in [CallIds -> TranscriptRow \cup {NoRow}]
    BY <1>7, <1>13 DEF WriteResult, StructuredData
  <2>3. dnc' \subseteq Phones /\ status' \in [Leads -> ContactStatus]
    BY <1>3, <1>13, LeadsAssumption DEF WriteResult, SetLeadStatus, TablesTypeOK, ContactStatus
  <2>4. TablesTypeOK'
    BY <1>13, <2>2, <2>3 DEF WriteResult, TablesTypeOK
  <2> QED BY <1>5, <1>13, <2>1, <2>4, LiveKitUntouched, AnalysisUntouched DEF WriteResult
<1>14. CASE NotifyN8n(j)
  BY <1>4, <1>6, <1>10, <1>14, LiveKitUntouched DEF NotifyN8n
<1>15. CASE AnalysisRaises(j)
  <2>1. ReceiverTypeOK' /\ LiveKitTypeOK' /\ AnalysisTypeOK'
    BY <1>6, <1>8, <1>15, LiveKitUntouched, AnalysisUntouched DEF AnalysisRaises
  <2>2. transcripts' \in [CallIds -> TranscriptRow \cup {NoRow}]
    BY <1>7, <1>15 DEF AnalysisRaises, StructuredData, TablesTypeOK
  <2> QED BY <1>9, <1>15, <2>1, <2>2 DEF AnalysisRaises, TablesTypeOK, leadVars
<1>16. CASE WorkHorseKilled(j)
  <2>1. ReceiverTypeOK' /\ LiveKitTypeOK' /\ AnalysisTypeOK'
    BY <1>6, <1>8, <1>10, <1>16, LiveKitUntouched, AnalysisUntouched DEF WorkHorseKilled
  <2> QED BY <1>9, <1>16, <2>1, TablesUntouched DEF WorkHorseKilled
<1> QED BY <1>11, <1>12, <1>13, <1>14, <1>15, <1>16 DEF Analysing

(***************************************************************************)
(* References.                                                              *)
(***************************************************************************)
\* A row of call_logs stays, keeps its lead, and once ended stays ended.
RowsKept ==
    \A c \in CallIds : calls[c] # NoRow =>
        /\ calls'[c] # NoRow /\ calls'[c].lead = calls[c].lead
        /\ calls[c].ended => calls'[c].ended

LEMMA InsertKeepsRows == ASSUME NEW row, InsertCall(row) PROVE RowsKept
BY DEF InsertCall, RowsKept

LEMMA UpdateKeepsRows ==
    ASSUME TablesTypeOK, NEW c \in CallIds, calls[c] # NoRow,
           \/ calls' = [calls EXCEPT ![c].started = TRUE]
           \/ calls' = [calls EXCEPT ![c].ended = TRUE]
    PROVE  RowsKept
<1>1. calls[c] \in CallRow
  BY DEF TablesTypeOK
<1>2. /\ calls'[c] \in CallRow /\ calls'[c].lead = calls[c].lead
      /\ calls[c].ended => calls'[c].ended
  <2>1. \/ calls'[c] = [calls[c] EXCEPT !.started = TRUE]
        \/ calls'[c] = [calls[c] EXCEPT !.ended = TRUE]
    BY DEF TablesTypeOK
  <2> QED BY <1>1, <2>1 DEF CallRow
<1>3. \A d \in CallIds \ {c} : calls'[d] = calls[d]
  BY DEF TablesTypeOK
<1> QED BY <1>2, <1>3, NoRowAssumption DEF RowsKept

LEMMA StepsKeepRows ==
    ASSUME TypeOK, RequestsNameRows, SessionsNameRows, [Next]_vars
    PROVE  RowsKept
<1>1. calls' = calls => RowsKept
  BY DEF RowsKept
<1>2. CASE WorkerNext
  <2>1. CASE CommitDialed \/ DatabaseFails
    BY <1>1, <2>1, InsertKeepsRows DEF CommitDialed, DatabaseFails, DialFlushed, RetryFlushed
  <2> QED BY <1>1, <1>2, <2>1 DEF WorkerNext, Dispatching, StartWorker, BatchEnds, FetchBatch,
             UnknownTimeZone, NextLead, SessionGetFails, RoomCreated, RoomFails, SipDialed, SipFails,
             MergeDialed, MergeRetry, Merge, CommitRetry, RetryFlushed, WorkerCrashes, tableVars
<1>3. CASE ReceiverNext
  <2>1. ASSUME NEW r \in requests, CommitRoomStarted(r) \/ CommitRoomFinished(r)
        PROVE  RowsKept
    <3>1. r.call # NoRow => r.call \in CallIds /\ calls[r.call] # NoRow
      BY DEF TypeOK, ReceiverTypeOK, Request, RequestsNameRows
    <3>2. CommitRoomFinished(r) => r.call # NoRow
      BY DEF CommitRoomFinished, RequestsNameRows
    <3> QED BY <2>1, <3>1, <3>2, InsertKeepsRows, UpdateKeepsRows
            DEF CommitRoomStarted, CommitRoomFinished, TypeOK
  <2> QED BY <1>1, <1>3, <2>1 DEF ReceiverNext, Handling, Deliver, SelectRaises, SelectFindsNone,
             SelectFindsCall, ParticipantJoined, EnqueueAnalysis, EnqueueSwallowed, HandlerRaises,
             AnswerTimesOut, ApiCrashes, tableVars
<1>4. CASE AgentNext
  <2>1. ASSUME NEW s \in sessions, SaveTranscript(s) PROVE RowsKept
    <3>1. s.call \in CallIds /\ calls[s.call] # NoRow
      BY <2>1 DEF SaveTranscript, SessionsNameRows, TypeOK, LiveKitTypeOK, Session
    <3> QED BY <2>1, <3>1, UpdateKeepsRows DEF SaveTranscript, TypeOK
  <2> QED BY <1>1, <1>4, <2>1 DEF AgentNext, Saving, SessionEnds, FindsCallToSave,
             TranscriptDropped, SessionCrashes, tableVars
<1>5. CASE AnalysisNext
  BY <1>1, <1>5 DEF AnalysisNext, Analysing, ReadTranscript, Extract, WriteResult, NotifyN8n,
     AnalysisRaises, WorkHorseKilled, tableVars
<1>6. CASE \/ DashboardNext
           \/ \E l \in Leads : BackoffElapses(l)
           \/ \E p \in Phones : RegistryImport(p)
  BY <1>1, <1>6 DEF DashboardNext, CreateCampaign, UploadLeads, AssignLeads, BackoffElapses,
     RegistryImport
<1> QED BY <1>1, <1>2, <1>3, <1>4, <1>5, <1>6 DEF Next, othersOfLiveKit, vars, tableVars

LEMMA DispatchKeepsLead ==
    ASSUME TypeOK, DispatchHasLead, [Next]_vars
    PROVE  DispatchHasLead'
<1>1. CASE UNCHANGED workerVars
  BY <1>1 DEF DispatchHasLead, workerVars
<1>2. CASE WorkerNext
  <2> USE DEF DispatchHasLead, HoldsLead
  <2>1. ASSUME NEW l \in Leads, NextLead(l) \/ SessionGetFails(l) PROVE DispatchHasLead'
    BY <2>1 DEF NextLead, SessionGetFails, TypeOK, WorkerTypeOK
  <2>2. CASE \/ StartWorker \/ BatchEnds \/ DatabaseFails \/ WorkerCrashes
             \/ CommitDialed \/ CommitRetry
             \/ \E rows, dialable \in SUBSET Leads : FetchBatch(rows, dialable)
             \/ \E rows \in SUBSET Leads : UnknownTimeZone(rows)
    BY <2>2 DEF StartWorker, BatchEnds, DatabaseFails, WorkerCrashes, CommitDialed, CommitRetry,
       FetchBatch, UnknownTimeZone, Forget, DispatchEnds
  <2>3. CASE \/ RoomCreated \/ SipDialed \/ MergeDialed \/ MergeRetry \/ RoomFails \/ SipFails
    BY <2>3 DEF RoomCreated, SipDialed, MergeDialed, MergeRetry, RoomFails, SipFails, Goto, Merge
  <2> QED BY <1>2, <2>1, <2>2, <2>3 DEF WorkerNext, Dispatching
<1> QED BY <1>1, <1>2 DEF Next, othersOfTables, othersOfLiveKit, othersOfReceiver, othersOfAgent,
           othersOfAnalysis, vars

(* LiveKit's webhooks of a room are not lost while their delivery is awaited. *)
LEMMA OpenRoomKeepsHooks ==
    ASSUME LiveKitTypeOK, NEW l \in Leads,
           CreateRoom(l) \/ CreateSipParticipant(l)
    PROVE  /\ \A m \in Leads : hooks[m] # <<>> => hooks'[m] # <<>>
           /\ sending' = sending
<1>1. UNCHANGED hooks \/ \E h : hooks' = [hooks EXCEPT ![l] = Append(@, h)]
  BY DEF CreateRoom, CreateSipParticipant, OpenRoom, Emit
<1>2. \A h : Append(hooks[l], h) # <<>>
  BY DEF LiveKitTypeOK
<1> QED BY <1>1, <1>2 DEF LiveKitTypeOK, CreateRoom, CreateSipParticipant, OpenRoom

LEMMA LiveKitKeepsHooks ==
    ASSUME LiveKitTypeOK, LiveKitNext
    PROVE  /\ \A m \in Leads : hooks[m] # <<>> => hooks'[m] # <<>>
           /\ sending' = sending
<1> PICK l \in Leads : SipJoins(l) \/ SipLeaves(l) \/ RoomCloses(l)
  BY DEF LiveKitNext
<1>1. UNCHANGED hooks \/ \E h : hooks' = [hooks EXCEPT ![l] = Append(@, h)]
  BY DEF SipJoins, SipLeaves, RoomCloses
<1>2. \A h : Append(hooks[l], h) # <<>>
  BY DEF LiveKitTypeOK
<1> QED BY <1>1, <1>2 DEF LiveKitTypeOK, SipJoins, SipLeaves, RoomCloses

LEMMA WorkerKeepsHooks ==
    ASSUME TypeOK, DispatchHasLead, WorkerNext
    PROVE  /\ \A m \in Leads : hooks[m] # <<>> => hooks'[m] # <<>>
           /\ sending' = sending
<1>1. CASE UNCHANGED livekitVars
  BY <1>1 DEF livekitVars
<1>2. CASE /\ CreateRoom(current) \/ CreateSipParticipant(current)
           /\ worker \in {"create_room", "create_sip"}
  BY <1>2, OpenRoomKeepsHooks DEF TypeOK, DispatchHasLead, HoldsLead
<1> QED BY <1>1, <1>2 DEF WorkerNext, Dispatching, StartWorker, BatchEnds, FetchBatch,
           UnknownTimeZone, NextLead, SessionGetFails, RoomCreated, RoomFails, SipDialed, SipFails,
           PlaceDial, MergeDialed, MergeRetry, Merge, CommitDialed, CommitRetry, DatabaseFails,
           WorkerCrashes

(* The answer to an awaited request ends its delivery and no other.          *)
LEMMA AnswerKeepsAwaited ==
    ASSUME LiveKitTypeOK, requests \subseteq Request, OneAwaited,
           NEW r \in requests, Answer200(r) \/ Answer500(r)
    PROVE  OneAwaited'
<1>1. CASE ~r.awaited
  BY <1>1 DEF Answer200, Answer500, Ends, OneAwaited
<1>2. CASE r.awaited
  <2>1. ASSUME NEW q \in requests', q.awaited
        PROVE  q.lead \in Leads /\ q.lead # r.lead /\ sending[q.lead] /\ hooks[q.lead] # <<>>
    <3>1. q \in requests /\ q # r
      BY DEF Answer200, Answer500, Ends
    <3>2. q.lead \in Leads
      BY <3>1 DEF Request
    <3> QED BY <1>2, <2>1, <3>1, <3>2 DEF OneAwaited
  <2>2. \A m \in Leads \ {r.lead} : hooks'[m] = hooks[m] /\ sending'[m] = sending[m]
    BY <1>2 DEF Answer200, Answer500, StopSending, LiveKitTypeOK
  <2> QED BY <2>1, <2>2 DEF Answer200, Answer500, Ends, OneAwaited
<1> QED BY <1>1, <1>2 DEF Request

LEMMA StepsKeepOneAwaited ==
    ASSUME TypeOK, DispatchHasLead, OneAwaited, [Next]_vars
    PROVE  OneAwaited'
<1>1. ASSUME requests' = requests,
             \A m \in Leads : hooks[m] # <<>> => hooks'[m] # <<>>,
             sending' = sending
      PROVE  OneAwaited'
  <2>1. \A r \in requests : r.lead \in Leads
    BY DEF TypeOK, ReceiverTypeOK, Request
  <2> QED BY <1>1, <2>1 DEF OneAwaited
<1>2. CASE WorkerNext /\ UNCHANGED othersOfWorker
  BY <1>1, <1>2, WorkerKeepsHooks DEF othersOfWorker, receiverVars
<1>3. CASE LiveKitNext /\ UNCHANGED othersOfLiveKit
  BY <1>1, <1>3, LiveKitKeepsHooks DEF othersOfLiveKit, receiverVars, TypeOK
<1>4. CASE ReceiverNext
  <2> USE DEF TypeOK, ReceiverTypeOK
  <2>1. ASSUME NEW l \in Leads, Deliver(l) PROVE OneAwaited'
    <3>1. \A r \in requests : r.awaited => r.lead # l /\ r.lead \in Leads
      BY <2>1 DEF Deliver, OneAwaited, Request
    <3>2. sending'[l] /\ \A m \in Leads \ {l} : sending'[m] = sending[m]
      BY <2>1 DEF Deliver, LiveKitTypeOK
    <3> DEFINE new == [lead |-> l, event |-> Head(hooks[l]).event, meta |-> Head(hooks[l]).meta,
                       awaited |-> TRUE, pc |-> "select", call |-> NoRow]
    <3>3. requests' = requests \cup {new} /\ hooks' = hooks /\ hooks[l] # <<>>
      BY <2>1 DEF Deliver
    <3>4. new.lead = l
      OBVIOUS
    <3> HIDE DEF new
    <3> QED BY <3>1, <3>2, <3>3, <3>4 DEF OneAwaited
  <2>2. ASSUME NEW r \in requests, Answer200(r) \/ Answer500(r) PROVE OneAwaited'
    BY <2>2, AnswerKeepsAwaited
  <2>3. ASSUME NEW r \in requests, NEW pc, NEW c, Continues(r, pc, c), UNCHANGED livekitVars
        PROVE  OneAwaited'
    <3> DEFINE new == [r EXCEPT !.pc = pc, !.call = c]
    <3>1. new.lead = r.lead /\ new.awaited = r.awaited
      BY DEF Request
    <3>2. requests' = (requests \ {r}) \cup {new} /\ hooks' = hooks /\ sending' = sending
      BY <2>3 DEF Continues, livekitVars
    <3> HIDE DEF new
    <3> QED BY <3>1, <3>2 DEF OneAwaited
  <2>4. ASSUME NEW r \in requests, AnswerTimesOut(r) PROVE OneAwaited'
    <3> DEFINE new == [r EXCEPT !.awaited = FALSE]
    <3>1. ~new.awaited
      BY DEF Request
    <3>2. requests' = (requests \ {r}) \cup {new} /\ r.awaited /\ r.lead \in Leads
      BY <2>4 DEF AnswerTimesOut, Request
    <3>3. \A m \in Leads \ {r.lead} : hooks'[m] = hooks[m] /\ sending'[m] = sending[m]
      BY <2>4, <3>2 DEF AnswerTimesOut, StopSending, LiveKitTypeOK
    <3> HIDE DEF new
    <3>4. ASSUME NEW q \in requests', q.awaited
          PROVE  q \in requests /\ q.lead \in Leads \ {r.lead}
      <4>1. q \in requests /\ q # r
        BY <3>1, <3>2, <3>4
      <4>2. q.lead \in Leads
        BY <4>1 DEF Request
      <4> QED BY <3>2, <3>4, <4>1, <4>2 DEF OneAwaited
    <3> QED BY <3>3, <3>4 DEF OneAwaited
  <2>5. CASE ApiCrashes
    BY <2>5 DEF ApiCrashes, OneAwaited
  <2> QED BY <1>4, <2>1, <2>2, <2>3, <2>4, <2>5 DEF ReceiverNext, Handling, SelectRaises,
          SelectFindsCall, SelectFindsNone, CommitRoomStarted, ParticipantJoined,
          CommitRoomFinished, EnqueueAnalysis, EnqueueSwallowed, HandlerRaises, BroadcastAndAnswer
<1>5. CASE AgentNext /\ UNCHANGED othersOfAgent
  BY <1>1, <1>5 DEF AgentNext, Saving, SessionEnds, FindsCallToSave, SaveTranscript,
     TranscriptDropped, SessionCrashes, JobEnds, othersOfAgent, receiverVars
<1>6. CASE AnalysisNext \/ UNCHANGED othersOfTables \/ UNCHANGED vars
  BY <1>1, <1>6 DEF AnalysisNext, Analysing, ReadTranscript, Extract, WriteResult, NotifyN8n,
     AnalysisRaises, WorkHorseKilled, othersOfTables, livekitVars, receiverVars, vars
<1> QED BY <1>2, <1>3, <1>4, <1>5, <1>6 DEF Next

(* A writing session keeps the row it found: rows are never deleted.         *)
LEMMA StepsKeepSessions ==
    ASSUME TypeOK, RequestsNameRows, SessionsNameRows, [Next]_vars
    PROVE  SessionsNameRows'
<1>1. RowsKept
  BY StepsKeepRows
<1> DEFINE Good(s) == s.pc = "writing" => s.call # NoRow /\ calls'[s.call] # NoRow
<1>2. ASSUME NEW s \in sessions PROVE Good(s)
  BY <1>1, <1>2 DEF SessionsNameRows, RowsKept, TypeOK, LiveKitTypeOK, Session
<1> SUFFICES ASSUME NEW t \in sessions', t \notin sessions PROVE Good(t)
  BY <1>2 DEF SessionsNameRows
<1>3. ASSUME NEW l \in Leads, NEW kind, OpenRoom(l, kind) PROVE Good(t)
  BY <1>3 DEF OpenRoom
<1>4. CASE WorkerNext
  <2>1. (\E kind : OpenRoom(current, kind)) \/ sessions' = sessions
    BY <1>4 DEF WorkerNext, Dispatching, StartWorker, BatchEnds, FetchBatch, UnknownTimeZone,
       NextLead, SessionGetFails, RoomCreated, RoomFails, SipDialed, SipFails, PlaceDial,
       CreateRoom, CreateSipParticipant, MergeDialed, MergeRetry, Merge, CommitDialed, CommitRetry,
       DatabaseFails, WorkerCrashes, livekitVars
  <2> QED BY <2>1 DEF OpenRoom
<1>5. CASE AgentNext
  <2>1. ASSUME NEW s \in sessions, NEW text \in Texts, SessionEnds(s, text) PROVE Good(t)
    BY <2>1 DEF SessionEnds, TypeOK, LiveKitTypeOK, Session
  <2>2. ASSUME NEW s \in sessions, NEW c \in CallIds, FindsCallToSave(s, c) PROVE Good(t)
    <3>1. calls'[c] # NoRow /\ c # NoRow
      BY <2>2, NoRowAssumption DEF FindsCallToSave, OneFound, RowsOf, tableVars
    <3>2. t = [s EXCEPT !.pc = "writing", !.call = c]
      BY <2>2 DEF FindsCallToSave
    <3>3. t.call = c
      BY <3>2 DEF TypeOK, LiveKitTypeOK, Session
    <3> QED BY <3>1, <3>3
  <2> QED BY <1>5, <2>1, <2>2 DEF AgentNext, Saving, SaveTranscript, TranscriptDropped,
             SessionCrashes, JobEnds
<1> QED BY <1>4, <1>5 DEF Next, LiveKitNext, SipJoins, SipLeaves, RoomCloses, ReceiverNext,
        Handling, Deliver, SelectRaises, SelectFindsCall, SelectFindsNone, CommitRoomStarted,
        ParticipantJoined, CommitRoomFinished, EnqueueAnalysis, EnqueueSwallowed, HandlerRaises,
        AnswerTimesOut, ApiCrashes, BroadcastAndAnswer, Answer200, Answer500, AnalysisNext,
        Analysing, ReadTranscript, Extract, WriteResult, NotifyN8n, AnalysisRaises,
        WorkHorseKilled, othersOfTables, livekitVars, vars

LEMMA StepsKeepRequests ==
    ASSUME TypeOK, RequestsNameRows, SessionsNameRows, [Next]_vars
    PROVE  RequestsNameRows'
<1>1. RowsKept
  BY StepsKeepRows
<1> DEFINE Good(r) ==
      /\ r.call # NoRow => calls'[r.call] # NoRow /\ calls'[r.call].lead = r.lead
      /\ r.event = "room_finished" /\ r.pc = "commit" => r.call # NoRow
      /\ r.pc = "enqueue" => r.call # NoRow /\ calls'[r.call].ended
<1>2. ASSUME NEW r \in requests PROVE Good(r)
  <2>1. r.call \in CallIds \cup {NoRow}
    BY DEF TypeOK, ReceiverTypeOK, Request
  <2> QED BY <1>1, <2>1 DEF RequestsNameRows, RowsKept
<1> SUFFICES \A q \in requests' : q \notin requests => Good(q)
  BY <1>2 DEF RequestsNameRows
<1>3. CASE ReceiverNext
  <2> USE DEF TypeOK, ReceiverTypeOK
  <2>1. ASSUME NEW l \in Leads, Deliver(l), NEW q \in requests', q \notin requests
        PROVE  Good(q)
    BY <2>1 DEF Deliver
  <2>2. ASSUME NEW r \in requests, NEW c \in CallIds, SelectFindsCall(r, c),
               NEW q \in requests', q \notin requests
        PROVE  Good(q)
    <3>1. q = [r EXCEPT !.pc = "commit", !.call = c]
      BY <2>2 DEF SelectFindsCall, Continues
    <3>2. q.lead = r.lead /\ q.pc = "commit" /\ q.call = c
      BY <3>1 DEF Request
    <3>3. calls[c] # NoRow /\ calls[c].lead = r.lead /\ c # NoRow
      BY <2>2, NoRowAssumption DEF SelectFindsCall, OneFound, RowsOf
    <3> QED BY <1>1, <3>2, <3>3 DEF RowsKept
  <2>3. ASSUME NEW r \in requests, SelectFindsNone(r), NEW q \in requests', q \notin requests
        PROVE  Good(q)
    <3>1. q = [r EXCEPT !.pc = "commit", !.call = NoRow] /\ r.event = "room_started"
      BY <2>3 DEF SelectFindsNone, Continues, Answer200, Ends
    <3>2. q.event = "room_started" /\ q.pc = "commit" /\ q.call = NoRow
      BY <3>1 DEF Request
    <3> QED BY <3>2
  <2>4. ASSUME NEW r \in requests, CommitRoomFinished(r), NEW q \in requests', q \notin requests
        PROVE  Good(q)
    <3>1. q = [r EXCEPT !.pc = "enqueue", !.call = r.call]
      BY <2>4 DEF CommitRoomFinished, Continues
    <3>2. q.lead = r.lead /\ q.pc = "enqueue" /\ q.call = r.call
      BY <3>1 DEF Request
    <3>3. r.call # NoRow /\ r.call \in CallIds
      BY <2>4 DEF CommitRoomFinished, RequestsNameRows, Request
    <3>4. calls[r.call] \in CallRow
      BY <3>3 DEF RequestsNameRows, TablesTypeOK
    <3>5. calls'[r.call].ended
      BY <2>4, <3>3, <3>4 DEF CommitRoomFinished, TablesTypeOK, CallRow
    <3> QED BY <1>2, <3>2, <3>3, <3>5
  <2>5. ASSUME NEW r \in requests, AnswerTimesOut(r), NEW q \in requests', q \notin requests
        PROVE  Good(q)
    <3>1. q = [r EXCEPT !.awaited = FALSE]
      BY <2>5 DEF AnswerTimesOut
    <3>2. q.lead = r.lead /\ q.event = r.event /\ q.pc = r.pc /\ q.call = r.call
      BY <3>1 DEF Request
    <3> QED BY <1>2, <3>2
  <2>6. ASSUME NEW r \in requests, Answer200(r) \/ Answer500(r) PROVE requests' \subseteq requests
    BY <2>6 DEF Answer200, Answer500, Ends
  <2>7. ApiCrashes => requests' \subseteq requests
    BY DEF ApiCrashes
  <2> HIDE DEF Good
  <2> QED BY <1>3, <2>1, <2>2, <2>3, <2>4, <2>5, <2>6, <2>7 DEF ReceiverNext, Handling,
          SelectRaises, CommitRoomStarted, ParticipantJoined, EnqueueAnalysis, EnqueueSwallowed,
          HandlerRaises, BroadcastAndAnswer
<1>4. CASE requests' = requests
  BY <1>4
<1> HIDE DEF Good
<1> QED BY <1>3, <1>4 DEF Next, othersOfTables, othersOfWorker, othersOfLiveKit, othersOfAgent,
        AnalysisNext, Analysing, ReadTranscript, Extract, WriteResult, NotifyN8n, AnalysisRaises,
        WorkHorseKilled, receiverVars, vars

LEMMA StepsKeepJobs ==
    ASSUME TypeOK, RequestsNameRows, SessionsNameRows, JobsNameEndedCalls, [Next]_vars
    PROVE  JobsNameEndedCalls'
<1>1. RowsKept
  BY StepsKeepRows
<1> DEFINE Good(j) == calls'[j.call] # NoRow /\ calls'[j.call].ended
<1>2. ASSUME NEW j \in jobs PROVE Good(j)
  <2>1. j.call \in CallIds
    BY DEF TypeOK, ReceiverTypeOK, Job
  <2> QED BY <1>1, <2>1 DEF JobsNameEndedCalls, RowsKept
<1> SUFFICES \A k \in jobs' : k \notin jobs => Good(k)
  BY <1>2 DEF JobsNameEndedCalls
<1>3. ASSUME NEW r \in requests, EnqueueAnalysis(r), NEW k \in jobs', k \notin jobs
      PROVE  Good(k)
  <2>1. k.call = r.call
    BY <1>3 DEF EnqueueAnalysis
  <2>2. r.call \in CallIds /\ calls[r.call] # NoRow /\ calls[r.call].ended
    BY <1>3 DEF EnqueueAnalysis, RequestsNameRows, TypeOK, ReceiverTypeOK, Request
  <2> QED BY <1>1, <2>1, <2>2 DEF RowsKept
<1>4. ASSUME NEW j \in jobs, NEW k, Becomes(j, k), k.call = j.call PROVE \A h \in jobs' : Good(h)
  <2>1. calls'[k.call] # NoRow /\ calls'[k.call].ended
    BY <1>2, <1>4
  <2> QED BY <1>2, <1>4, <2>1 DEF Becomes
<1>5. ASSUME NEW j \in jobs, Analysing(j) \/ AnalysisRaises(j) \/ WorkHorseKilled(j)
      PROVE  \A h \in jobs' : Good(h)
  <2>1. j \in Job
    BY DEF TypeOK, ReceiverTypeOK
  <2>2. Finishes(j) => \A h \in jobs' : Good(h)
    BY <1>2 DEF Finishes
  <2>3. Requeue(j) => \A h \in jobs' : Good(h)
    <3>1. [j EXCEPT !.pc = "queued", !.left = @ - 1, !.optOut = FALSE, !.flag = FALSE].call = j.call
      BY <2>1 DEF Job
    <3> HIDE DEF Good
    <3> QED BY <1>4, <3>1 DEF Requeue
  <2>4. ReadTranscript(j) => \A h \in jobs' : Good(h)
    <3>1. [j EXCEPT !.pc = "extract", !.optOut = transcripts[j.call].text = "opt_out"].call = j.call
      BY <2>1 DEF Job
    <3> HIDE DEF Good
    <3> QED BY <1>4, <2>2, <3>1 DEF ReadTranscript
  <2>5. ASSUME NEW flag \in BOOLEAN, Extract(j, flag) PROVE \A h \in jobs' : Good(h)
    <3>1. [j EXCEPT !.pc = "write", !.flag = flag, !.optOut = flag \/ @].call = j.call
      BY <2>1 DEF Job
    <3> HIDE DEF Good
    <3> QED BY <1>4, <2>5, <3>1 DEF Extract
  <2>6. WriteResult(j) => \A h \in jobs' : Good(h)
    <3>1. [j EXCEPT !.pc = "notify"].call = j.call
      BY <2>1 DEF Job
    <3> HIDE DEF Good
    <3> QED BY <1>4, <3>1 DEF WriteResult
  <2> HIDE DEF Good
  <2> QED BY <1>5, <2>2, <2>3, <2>4, <2>5, <2>6 DEF Analysing, NotifyN8n, AnalysisRaises,
          WorkHorseKilled
<1>6. CASE jobs' = jobs
  BY <1>6
<1> HIDE DEF Good
<1> QED BY <1>3, <1>5, <1>6 DEF Next, ReceiverNext, Handling, Deliver, SelectRaises,
        SelectFindsCall, SelectFindsNone, CommitRoomStarted, ParticipantJoined,
        CommitRoomFinished, EnqueueSwallowed, HandlerRaises, AnswerTimesOut, ApiCrashes,
        AnalysisNext, othersOfTables, othersOfWorker, othersOfLiveKit, othersOfAgent,
        receiverVars, vars

-----------------------------------------------------------------------------
LEMMA InitRefs == ASSUME Init PROVE TypeOK /\ RefsOK
<1>1. TablesTypeOK
  BY LeadsAssumption DEF Init, TablesInit, TablesTypeOK, ContactStatus
<1>2. LiveKitTypeOK
  BY DEF Init, LiveKitInit, LiveKitTypeOK
<1>3. WorkerTypeOK
  BY DEF Init, WorkerInit, WorkerTypeOK, WorkerPoints
<1>4. ReceiverTypeOK /\ AnalysisTypeOK
  BY DEF Init, ReceiverInit, ReceiverTypeOK, AnalysisInit, AnalysisTypeOK
<1>5. RefsOK
  BY DEF Init, WorkerInit, LiveKitInit, ReceiverInit, RefsOK, DispatchHasLead, HoldsLead,
     RequestsNameRows, SessionsNameRows, OneAwaited, JobsNameEndedCalls
<1> QED BY <1>1, <1>2, <1>3, <1>4, <1>5 DEF TypeOK

LEMMA StepsKeepRefs ==
    ASSUME TypeOK, RefsOK, [Next]_vars
    PROVE  TypeOK' /\ RefsOK'
<1>1. RefsOK'
  BY DispatchKeepsLead, StepsKeepRequests, StepsKeepSessions, StepsKeepOneAwaited, StepsKeepJobs DEF RefsOK
<1>2. TypeOK'
  <2>1. CASE UNCHANGED vars
    BY <2>1, LiveKitUntouched, WorkerUntouched, ReceiverUntouched, AnalysisUntouched
    DEF TypeOK, TablesTypeOK, tableVars, vars
  <2> QED BY <2>1, TablesActionsKeepType, WorkerKeepsType, LiveKitKeepsType, ReceiverKeepsType,
          AgentKeepsType, AnalysisKeepsType DEF Next, RefsOK
<1> QED BY <1>1, <1>2

\* In every behaviour of the whole system every variable keeps its type: no
\* handler, worker or job ever writes a row, a status or a queue entry that
\* the tables and queues cannot hold.
THEOREM TypeCorrect == Spec => []TypeOK
<1>1. Init => TypeOK /\ RefsOK
  BY InitRefs
<1>2. TypeOK /\ RefsOK /\ [Next]_vars => (TypeOK /\ RefsOK)'
  BY StepsKeepRefs
<1> QED BY <1>1, <1>2, PTL DEF Spec

\* What the processes hold of each other's state stays good: a dispatch has a
\* lead, handlers, agents and jobs name rows that exist, one answer per room is awaited.
THEOREM ReferencesKept == Spec => []RefsOK
<1>1. Init => TypeOK /\ RefsOK
  BY InitRefs
<1>2. TypeOK /\ RefsOK /\ [Next]_vars => (TypeOK /\ RefsOK)'
  BY StepsKeepRefs
<1> QED BY <1>1, <1>2, PTL DEF Spec

\* An analysis job always names a call row that exists and has ended: the
\* handler of room_finished enqueues it after its commit, under the id of the
\* row its SELECT found, and no later write of any process undoes that.
THEOREM JobsAreOfEndedCalls == Spec => []JobsNameEndedCalls
<1>1. RefsOK => JobsNameEndedCalls
  BY DEF RefsOK
<1> QED BY <1>1, ReferencesKept, PTL
=============================================================================
