--------------------------- MODULE CallSafetyProofs ---------------------------
(***************************************************************************)
(* The safety properties of CallLifecycle, each from an inductive           *)
(* invariant over the types and references of CallLifecycleProofs.          *)
(***************************************************************************)
EXTENDS CallLifecycleProofs

(***************************************************************************)
(* How the tables change: what each status is written for.                  *)
(***************************************************************************)
EndedCallOf(l) == \E c \in CallIds : calls[c] # NoRow /\ calls[c].lead = l /\ calls[c].ended

\* The causes of a change of one lead's status.
StatusMove(l) ==
    \/ status'[l] = status[l]
    \/ status[l] = "ABSENT" /\ status'[l] = "PENDING"
    \/ status'[l] = "CALLING"
    \/ status'[l] = "PENDING" /\ worker = "retry_commit" /\ current = l
    \/ status'[l] = "COMPLETED" /\ EndedCallOf(l)'
    \/ status'[l] = "FAILED_DNC" /\ PhoneOf[l] \in dnc'

LEMMA StatusMoves ==
    ASSUME TypeOK, RefsOK, [Next]_vars
    PROVE  \A l \in Leads : StatusMove(l)
<1>1. CASE status' = status
  BY <1>1 DEF StatusMove
<1>2. CASE DashboardNext
  <2>1. ASSUME NEW m \in Leads, NEW k, UploadLeads(CreatedAt[m], k), NEW l \in Leads
        PROVE  StatusMove(l)
    <3>1. CreatedAt[l] = CreatedAt[m] => status[l] = "ABSENT"
      BY <2>1, LeadsAssumption DEF UploadLeads
    <3> QED BY <2>1, <3>1 DEF UploadLeads, StatusMove
  <2> QED BY <1>1, <1>2, <2>1 DEF DashboardNext, CreateCampaign, AssignLeads, leadVars
<1>3. CASE WorkerNext
  <2>1. ASSUME worker \in {"commit", "retry_commit"}, NEW s \in {"CALLING", "PENDING"}, FlushLead(s),
               s = "PENDING" => worker = "retry_commit"
        PROVE  \A l \in Leads : StatusMove(l)
    BY <2>1 DEF FlushLead, StatusMove, TypeOK, TablesTypeOK
  <2>2. CASE CommitDialed \/ CommitRetry \/ DatabaseFails
    BY <1>1, <2>1, <2>2 DEF CommitDialed, CommitRetry, DatabaseFails, DialFlushed, RetryFlushed,
       leadVars
  <2> QED BY <1>1, <1>3, <2>2 DEF WorkerNext, Dispatching, StartWorker, BatchEnds, FetchBatch,
          UnknownTimeZone, NextLead, SessionGetFails, RoomCreated, RoomFails, SipDialed, SipFails,
          MergeDialed, MergeRetry, Merge, WorkerCrashes, tableVars, leadVars
<1>4. CASE ReceiverNext
  <2>1. ASSUME NEW r \in requests, CommitRoomStarted(r) \/ ParticipantJoined(r)
        PROVE  \A l \in Leads : StatusMove(l)
    BY <2>1 DEF CommitRoomStarted, ParticipantJoined, SetLeadStatus, StatusMove, TypeOK,
       TablesTypeOK
  <2>2. ASSUME NEW r \in requests, CommitRoomFinished(r)
        PROVE  \A l \in Leads : StatusMove(l)
    <3>1. /\ r.call \in CallIds /\ calls[r.call] # NoRow /\ calls[r.call].lead = r.lead
      BY <2>2 DEF CommitRoomFinished, RefsOK, RequestsNameRows, TypeOK, ReceiverTypeOK, Request
    <3>2. calls[r.call] \in CallRow
      BY <3>1 DEF TypeOK, TablesTypeOK
    <3>3. calls'[r.call] = [calls[r.call] EXCEPT !.ended = TRUE]
      BY <2>2, <3>1 DEF CommitRoomFinished, TypeOK, TablesTypeOK
    <3>4. calls'[r.call] \in CallRow /\ calls'[r.call].lead = r.lead /\ calls'[r.call].ended
      BY <3>1, <3>2, <3>3 DEF CallRow
    <3>5. EndedCallOf(r.lead)'
      BY <3>1, <3>4, NoRowAssumption DEF EndedCallOf
    <3> QED BY <2>2, <3>5 DEF CommitRoomFinished, SetLeadStatus, StatusMove, TypeOK, TablesTypeOK
  <2> QED BY <1>1, <1>4, <2>1, <2>2 DEF ReceiverNext, Handling, Deliver, SelectRaises,
          SelectFindsCall, SelectFindsNone, EnqueueAnalysis, EnqueueSwallowed, HandlerRaises,
          AnswerTimesOut, ApiCrashes, tableVars, leadVars
<1>5. CASE AnalysisNext
  <2>1. ASSUME NEW j \in jobs, WriteResult(j) PROVE \A l \in Leads : StatusMove(l)
    BY <2>1 DEF WriteResult, SetLeadStatus, StatusMove, TypeOK, TablesTypeOK
  <2> QED BY <1>1, <1>5, <2>1 DEF AnalysisNext, Analysing, ReadTranscript, Extract, NotifyN8n,
          AnalysisRaises, WorkHorseKilled, tableVars, leadVars
<1> QED BY <1>1, <1>2, <1>3, <1>4, <1>5 DEF Next, BackoffElapses, RegistryImport, othersOfLiveKit,
        AgentNext, Saving, SessionEnds, FindsCallToSave, SaveTranscript, TranscriptDropped,
        SessionCrashes, tableVars, leadVars, vars

\* Numbers are never taken off the registry.
LEMMA RegistryGrows ==
    ASSUME [Next]_vars
    PROVE  dnc \subseteq dnc'
<1>1. CASE dnc' = dnc
  BY <1>1
<1>2. CASE AnalysisNext
  BY <1>2 DEF AnalysisNext, Analysing, ReadTranscript, Extract, WriteResult, NotifyN8n,
     AnalysisRaises, WorkHorseKilled, tableVars
<1>3. CASE \E p \in Phones : RegistryImport(p)
  BY <1>3 DEF RegistryImport
<1>4. CASE WorkerNext
  BY <1>4 DEF WorkerNext, Dispatching, StartWorker, BatchEnds, FetchBatch, UnknownTimeZone,
     NextLead, SessionGetFails, RoomCreated, RoomFails, SipDialed, SipFails, MergeDialed,
     MergeRetry, Merge, CommitDialed, CommitRetry, DialFlushed, RetryFlushed, DatabaseFails,
     WorkerCrashes, tableVars
<1>5. CASE ReceiverNext
  BY <1>5 DEF ReceiverNext, Handling, Deliver, SelectRaises, SelectFindsCall, SelectFindsNone,
     CommitRoomStarted, ParticipantJoined, CommitRoomFinished, EnqueueAnalysis, EnqueueSwallowed,
     HandlerRaises, AnswerTimesOut, ApiCrashes, tableVars
<1> QED BY <1>1, <1>2, <1>3, <1>4, <1>5 DEF Next, DashboardNext, CreateCampaign, UploadLeads,
        AssignLeads, BackoffElapses, othersOfLiveKit, AgentNext, Saving, SessionEnds,
        FindsCallToSave, SaveTranscript, TranscriptDropped, SessionCrashes, tableVars, vars

-----------------------------------------------------------------------------
\* A lead that shows FAILED_DNC has its number on the registry, in every
\* behaviour of the whole system: the only writer of the status inserts the
\* number in the same transaction, and no code removes it.
THEOREM FailedDncIsListed == Spec => []FailedDncListed
<1>1. Init => FailedDncListed
  BY DEF Init, TablesInit, FailedDncListed
<1>2. TypeOK /\ RefsOK /\ FailedDncListed /\ [Next]_vars => FailedDncListed'
  BY StatusMoves, RegistryGrows DEF FailedDncListed, StatusMove
<1> QED BY <1>1, <1>2, TypeCorrect, ReferencesKept, PTL DEF Spec

\* A lead that shows COMPLETED has a call row that ended: room_finished writes
\* both in one transaction, and neither a stale merge of the worker nor a late
\* handler brings the status back without such a row.
THEOREM CompletedEnded == Spec => []CompletedHasEndedCall
<1>1. Init => CompletedHasEndedCall
  BY DEF Init, TablesInit, CompletedHasEndedCall
<1>2. CompletedHasEndedCall <=> \A l \in Leads : status[l] = "COMPLETED" => EndedCallOf(l)
  BY DEF CompletedHasEndedCall, EndedCallOf, RowsOf
<1>3. ASSUME TypeOK, RefsOK, CompletedHasEndedCall, [Next]_vars PROVE CompletedHasEndedCall'
  <2>1. \A l \in Leads : EndedCallOf(l) => EndedCallOf(l)'
    BY <1>3, StepsKeepRows DEF EndedCallOf, RowsKept, RefsOK
  <2>2. \A l \in Leads : status'[l] = "COMPLETED" => EndedCallOf(l)'
    BY <1>2, <1>3, <2>1, StatusMoves DEF StatusMove
  <2> QED BY <2>2 DEF CompletedHasEndedCall, EndedCallOf, RowsOf
<1> QED BY <1>1, <1>3, TypeCorrect, ReferencesKept, PTL DEF Spec

(***************************************************************************)
(* What analyses decide and tell.                                           *)
(***************************************************************************)
\* OptOutListed, with what makes it inductive: a stored flag is the job's
\* decision, and a transcript belongs to a row, whose lead never changes.
OptOutInv ==
    /\ OptOutListed
    /\ TranscriptsHaveCalls
    /\ \A j \in jobs : j.pc \in {"write", "notify"} /\ j.flag => j.optOut

\* NotifiedAfterStored: the transcript a running job read is not deleted, and
\* what it stored is not reset, neither by a late save nor by another job.
NotifyInv ==
    /\ NotifiedAfterStored
    /\ RunningJobsHaveTranscripts
    /\ \A j \in jobs : j.pc = "notify" => transcripts[j.call].data # "null"

(***************************************************************************)
(* Dials.                                                                   *)
(***************************************************************************)
\* DialedAgainOnlyIfUnrecorded: a lead the worker may still dial has no dial
\* but unrecorded ones.  The middle of the dispatch is where the two differ:
\* the dial is placed and its record not yet written.
DialInv ==
    /\ DialedAgainOnlyIfUnrecorded
    /\ \A l \in Leads :
          \/ status[l] \in {"ABSENT", "PENDING"} /\ ~(current = l /\ worker \in {"merge", "commit"})
          \/ l \in batch
          \/ current = l /\ worker \in {"create_room", "create_sip", "retry_merge", "retry_commit"}
          => dials[l] <= unrecorded[l]
    /\ worker = "commit" /\ "status" \notin dirty => status[current] \notin {"ABSENT", "PENDING"}

\* ListedDialedAtMostOnce: a lead dialed after its number was listed is not in
\* a batch any more, and the query never returns it again.
ListedInv ==
    /\ ListedDialedAtMostOnce
    /\ \A l \in Leads : listedDials[l] > 0 =>
          /\ PhoneOf[l] \in dnc
          /\ l \notin batch
          /\ ~(current = l /\ worker \in {"create_room", "create_sip"})

-----------------------------------------------------------------------------
\* What may happen to one transcript: nothing, its first save, another save of
\* its text, a result or a dead letter, or a result with an opt-out.
TranscriptMove(c) ==
    \/ transcripts'[c] = transcripts[c]
    \/ /\ transcripts'[c] # NoRow
       /\ \/ transcripts[c] = NoRow /\ calls[c] # NoRow /\ transcripts'[c].data = "null"
          \/ transcripts[c] # NoRow /\ transcripts'[c].data = transcripts[c].data
          \/ transcripts[c] # NoRow /\ transcripts'[c].data \in {"result", "failed_analysis"}
          \/ /\ transcripts[c] # NoRow /\ transcripts'[c].data = "result_dnc"
             /\ \E j \in jobs : j.call = c /\ j.flag /\ WriteResult(j)

\* SetData on the transcript of one call.
LEMMA SetDataMoves ==
    ASSUME TypeOK, NEW c \in CallIds, NEW d \in StructuredData, SetData(c, d)
    PROVE  /\ \A e \in CallIds \ {c} : transcripts'[e] = transcripts[e]
           /\ transcripts[c] = NoRow => transcripts'[c] = NoRow
           /\ transcripts[c] # NoRow => transcripts'[c] # NoRow /\ transcripts'[c].data = d
<1>1. transcripts \in [CallIds -> TranscriptRow \cup {NoRow}]
  BY DEF TypeOK, TablesTypeOK
<1>2. ASSUME transcripts[c] # NoRow
      PROVE  transcripts'[c] # NoRow /\ transcripts'[c].data = d
  <2>1. transcripts[c] \in TranscriptRow
    BY <1>1, <1>2
  <2>2. transcripts'[c] = [transcripts[c] EXCEPT !.data = d]
    BY <1>1, <1>2 DEF SetData
  <2>3. transcripts'[c] \in TranscriptRow /\ transcripts'[c].data = d
    BY <2>1, <2>2 DEF TranscriptRow
  <2> QED BY <2>3, NoRowAssumption
<1> QED BY <1>1, <1>2 DEF SetData

LEMMA TranscriptMoves ==
    ASSUME TypeOK, RefsOK, [Next]_vars
    PROVE  \A c \in CallIds : TranscriptMove(c)
<1>1. CASE transcripts' = transcripts
  BY <1>1 DEF TranscriptMove
<1>2. ASSUME NEW s \in sessions, NEW c \in CallIds, s.call = c, SaveTranscript(s)
      PROVE  \A e \in CallIds : TranscriptMove(e)
  <2>1. transcripts \in [CallIds -> TranscriptRow \cup {NoRow}] /\ s.text \in Texts
    BY DEF TypeOK, TablesTypeOK, LiveKitTypeOK, Session
  <2>2. calls[c] # NoRow
    BY <1>2 DEF SaveTranscript, RefsOK, SessionsNameRows
  <2>3. CASE transcripts[c] = NoRow
    <3>1. transcripts'[c] = [text |-> s.text, data |-> "null"]
      BY <1>2, <2>1, <2>3 DEF SaveTranscript, CreateTranscript
    <3>2. transcripts'[c] \in TranscriptRow /\ transcripts'[c].data = "null"
      BY <2>1, <3>1 DEF TranscriptRow, StructuredData
    <3> QED BY <1>2, <2>1, <2>2, <2>3, <3>2, NoRowAssumption
            DEF SaveTranscript, CreateTranscript, TranscriptMove
  <2>4. CASE transcripts[c] # NoRow
    <3>1. transcripts'[c] = [transcripts[c] EXCEPT !.text = s.text]
      BY <1>2, <2>1, <2>4 DEF SaveTranscript, CreateTranscript
    <3>2. transcripts'[c] \in TranscriptRow /\ transcripts'[c].data = transcripts[c].data
      BY <2>1, <2>4, <3>1 DEF TranscriptRow
    <3> QED BY <1>2, <2>1, <2>4, <3>2, NoRowAssumption
            DEF SaveTranscript, CreateTranscript, TranscriptMove
  <2> QED BY <2>3, <2>4
<1>3. ASSUME NEW j \in jobs, WriteResult(j) PROVE \A c \in CallIds : TranscriptMove(c)
  <2>1. j.call \in CallIds /\ j.flag \in BOOLEAN
    BY DEF TypeOK, ReceiverTypeOK, Job
  <2>2. CASE j.flag
    BY <1>3, <2>1, <2>2, SetDataMoves DEF WriteResult, StructuredData, TranscriptMove
  <2>3. CASE ~j.flag
    BY <1>3, <2>1, <2>3, SetDataMoves DEF WriteResult, StructuredData, TranscriptMove
  <2> QED BY <2>1, <2>2, <2>3
<1>4. ASSUME NEW j \in jobs, AnalysisRaises(j) PROVE \A c \in CallIds : TranscriptMove(c)
  <2>1. j.call \in CallIds
    BY DEF TypeOK, ReceiverTypeOK, Job
  <2>2. CASE SetData(j.call, "failed_analysis")
    BY <2>1, <2>2, SetDataMoves DEF StructuredData, TranscriptMove
  <2> QED BY <1>1, <1>4, <2>2 DEF AnalysisRaises
<1>5. CASE AnalysisNext
  BY <1>1, <1>3, <1>4, <1>5 DEF AnalysisNext, Analysing, ReadTranscript, Extract, NotifyN8n,
     WorkHorseKilled, tableVars
<1>6. CASE WorkerNext
  BY <1>1, <1>6 DEF WorkerNext, Dispatching, StartWorker, BatchEnds, FetchBatch, UnknownTimeZone,
     NextLead, SessionGetFails, RoomCreated, RoomFails, SipDialed, SipFails, MergeDialed,
     MergeRetry, Merge, CommitDialed, CommitRetry, DialFlushed, RetryFlushed, DatabaseFails,
     WorkerCrashes, tableVars
<1>7. CASE ReceiverNext
  BY <1>1, <1>7 DEF ReceiverNext, Handling, Deliver, SelectRaises, SelectFindsCall,
     SelectFindsNone, CommitRoomStarted, ParticipantJoined, CommitRoomFinished, EnqueueAnalysis,
     EnqueueSwallowed, HandlerRaises, AnswerTimesOut, ApiCrashes, tableVars
<1>8. CASE AgentNext
  <2>1. ASSUME NEW s \in sessions, SaveTranscript(s) PROVE s.call \in CallIds
    BY <2>1 DEF SaveTranscript, RefsOK, SessionsNameRows, TypeOK, LiveKitTypeOK, Session
  <2> QED BY <1>1, <1>2, <1>8, <2>1 DEF AgentNext, Saving, SessionEnds, FindsCallToSave,
          TranscriptDropped, SessionCrashes, tableVars
<1> QED BY <1>1, <1>5, <1>6, <1>7, <1>8 DEF Next, DashboardNext, CreateCampaign, UploadLeads,
        AssignLeads, BackoffElapses, RegistryImport, othersOfLiveKit, tableVars, vars

\* A job that appears in the queue is new or queued again, or is one that has
\* taken its next step.
JobMove(k) ==
    \/ k.pc = "queued"
    \/ \E j \in jobs :
          /\ k.call = j.call
          /\ \/ k.pc = "extract" /\ transcripts[j.call] # NoRow
             \/ j.pc = "extract" /\ k.pc = "write" /\ (k.flag => k.optOut)
             \/ /\ j.pc = "write" /\ k.pc = "notify"
                /\ k.flag = j.flag /\ k.optOut = j.optOut
                /\ WriteResult(j)

LEMMA JobMoves ==
    ASSUME TypeOK, [Next]_vars, NEW k \in jobs', k \notin jobs
    PROVE  JobMove(k)
<1>1. ASSUME NEW r \in requests, EnqueueAnalysis(r) PROVE JobMove(k)
  BY <1>1 DEF EnqueueAnalysis, JobMove
<1>2. ASSUME NEW j \in jobs, Analysing(j) \/ AnalysisRaises(j) \/ WorkHorseKilled(j)
      PROVE  JobMove(k)
  <2>1. j \in Job
    BY DEF TypeOK, ReceiverTypeOK
  <2>2. Finishes(j) => JobMove(k)
    BY DEF Finishes
  <2>3. CASE Requeue(j)
    <3>1. k = [j EXCEPT !.pc = "queued", !.left = @ - 1, !.optOut = FALSE, !.flag = FALSE]
      BY <2>3 DEF Requeue, Becomes
    <3> QED BY <2>1, <3>1 DEF Job, JobMove
  <2>4. CASE ReadTranscript(j)
    <3>1. CASE transcripts[j.call] # NoRow
      <4>1. k = [j EXCEPT !.pc = "extract", !.optOut = transcripts[j.call].text = "opt_out"]
        BY <2>4, <3>1 DEF ReadTranscript, Becomes
      <4>2. k.call = j.call /\ k.pc = "extract"
        BY <2>1, <4>1 DEF Job
      <4> QED BY <3>1, <4>2 DEF JobMove
    <3> QED BY <2>2, <2>4, <3>1 DEF ReadTranscript
  <2>5. ASSUME NEW flag \in BOOLEAN, Extract(j, flag) PROVE JobMove(k)
    <3>1. k = [j EXCEPT !.pc = "write", !.flag = flag, !.optOut = flag \/ @]
      BY <2>5 DEF Extract, Becomes
    <3>2. k.call = j.call /\ k.pc = "write" /\ k.flag = flag /\ k.optOut = (flag \/ j.optOut)
      BY <2>1, <3>1 DEF Job
    <3> QED BY <2>5, <3>2 DEF Extract, JobMove
  <2>6. CASE WriteResult(j)
    <3>1. k = [j EXCEPT !.pc = "notify"] /\ j.pc = "write"
      BY <2>6 DEF WriteResult, Becomes
    <3>2. k.call = j.call /\ k.pc = "notify" /\ k.flag = j.flag /\ k.optOut = j.optOut
      BY <2>1, <3>1 DEF Job
    <3> QED BY <2>6, <3>1, <3>2 DEF JobMove
  <2> QED BY <1>2, <2>2, <2>3, <2>4, <2>5, <2>6 DEF Analysing, NotifyN8n, AnalysisRaises,
          WorkHorseKilled
<1>3. jobs' # jobs
  OBVIOUS
<1> QED BY <1>1, <1>2, <1>3 DEF Next, ReceiverNext, Handling, Deliver, SelectRaises,
        SelectFindsCall, SelectFindsNone, CommitRoomStarted, ParticipantJoined,
        CommitRoomFinished, EnqueueSwallowed, HandlerRaises, AnswerTimesOut, ApiCrashes,
        AnalysisNext, othersOfTables, othersOfWorker, othersOfLiveKit, othersOfAgent,
        receiverVars, vars

-----------------------------------------------------------------------------
LEMMA StepsKeepOptOut ==
    ASSUME TypeOK, RefsOK, OptOutInv, [Next]_vars
    PROVE  OptOutInv'
<1>1. RowsKept
  BY StepsKeepRows DEF RefsOK
<1>2. \A j \in jobs : j.call \in CallIds /\ calls[j.call] # NoRow
  BY DEF TypeOK, ReceiverTypeOK, Job, RefsOK, JobsNameEndedCalls
<1>3. TranscriptsHaveCalls'
  BY <1>1, TranscriptMoves DEF OptOutInv, TranscriptsHaveCalls, TranscriptMove, RowsKept
<1>4. ASSUME NEW j \in jobs, WriteResult(j), j.optOut
      PROVE  PhoneOf[calls'[j.call].lead] \in dnc'
  BY <1>4 DEF WriteResult, LeadOf
<1>5. ASSUME NEW k \in jobs', k.pc = "notify", k.optOut
      PROVE  PhoneOf[calls'[k.call].lead] \in dnc'
  <2>1. CASE k \in jobs
    BY <1>1, <1>2, <1>5, <2>1, RegistryGrows DEF OptOutInv, OptOutListed, LeadOf, RowsKept
  <2>2. CASE k \notin jobs
    BY <1>4, <1>5, <2>2, JobMoves DEF JobMove
  <2> QED BY <2>1, <2>2
<1>6. ASSUME NEW k \in jobs', k.pc \in {"write", "notify"}, k.flag
      PROVE  k.optOut
  <2>1. CASE k \notin jobs
    BY <1>6, <2>1, JobMoves DEF JobMove, OptOutInv
  <2> QED BY <1>6, <2>1 DEF OptOutInv
<1>7. ASSUME NEW c \in CallIds, transcripts'[c] # NoRow, transcripts'[c].data = "result_dnc"
      PROVE  PhoneOf[calls'[c].lead] \in dnc'
  <2>1. TranscriptMove(c)
    BY TranscriptMoves
  <2>2. CASE transcripts[c] # NoRow /\ transcripts[c].data = "result_dnc"
    BY <1>1, <2>2, RegistryGrows DEF OptOutInv, OptOutListed, TranscriptsHaveCalls, RowsKept
  <2>3. CASE \E j \in jobs : j.call = c /\ j.flag /\ WriteResult(j)
    BY <1>4, <2>3 DEF OptOutInv, WriteResult
  <2> QED BY <1>7, <2>1, <2>2, <2>3 DEF TranscriptMove
<1> QED BY <1>3, <1>5, <1>6, <1>7 DEF OptOutInv, OptOutListed, LeadOf

\* An opt-out that an analysis decided on is on the registry from the moment
\* its result is stored, by whichever layer it was found and however often the
\* job is retried: write and registry entry are one transaction.
THEOREM OptOutIsListed == Spec => []OptOutListed
<1>1. Init => OptOutInv
  BY DEF Init, TablesInit, ReceiverInit, OptOutInv, OptOutListed, TranscriptsHaveCalls
<1>2. TypeOK /\ RefsOK /\ OptOutInv /\ [Next]_vars => OptOutInv'
  BY StepsKeepOptOut
<1>3. OptOutInv => OptOutListed
  BY DEF OptOutInv
<1> QED BY <1>1, <1>2, <1>3, TypeCorrect, ReferencesKept, PTL DEF Spec

-----------------------------------------------------------------------------
LEMMA NotifiedMoves ==
    ASSUME TypeOK, [Next]_vars, NEW c \in CallIds
    PROVE  \/ notified'[c] = notified[c]
           \/ \E j \in jobs : j.call = c /\ j.pc = "notify"
<1>1. ASSUME NEW j \in jobs, NotifyN8n(j) \/ WorkHorseKilled(j)
      PROVE  notified'[c] = notified[c] \/ (j.call = c /\ j.pc = "notify")
  BY <1>1 DEF NotifyN8n, WorkHorseKilled, TypeOK, AnalysisTypeOK
<1>2. CASE AnalysisNext
  BY <1>1, <1>2 DEF AnalysisNext, Analysing, ReadTranscript, Extract, WriteResult, AnalysisRaises
<1> QED BY <1>2 DEF Next, othersOfTables, othersOfWorker, othersOfLiveKit, othersOfReceiver,
        othersOfAgent, vars

LEMMA StepsKeepNotified ==
    ASSUME TypeOK, RefsOK, NotifyInv, [Next]_vars
    PROVE  NotifyInv'
<1> DEFINE Stored(c) == transcripts[c] # NoRow /\ transcripts[c].data # "null"
<1>1. \A j \in jobs : j.call \in CallIds
  BY DEF TypeOK, ReceiverTypeOK, Job
<1>2. \A c \in CallIds : transcripts[c] # NoRow => transcripts'[c] # NoRow
  BY TranscriptMoves DEF TranscriptMove
<1>3. \A c \in CallIds : Stored(c) => Stored(c)'
  BY TranscriptMoves DEF TranscriptMove
<1>4. \A j \in jobs : j.pc = "notify" => Stored(j.call)
  BY DEF NotifyInv, RunningJobsHaveTranscripts
<1>5. ASSUME NEW j \in jobs, WriteResult(j) PROVE Stored(j.call)'
  <2>1. transcripts[j.call] # NoRow
    BY <1>5 DEF NotifyInv, RunningJobsHaveTranscripts, WriteResult
  <2> QED BY <1>1, <1>5, <2>1, SetDataMoves DEF WriteResult, StructuredData
<1>6. ASSUME NEW k \in jobs', k.pc = "notify" PROVE Stored(k.call)'
  <2>1. CASE k \notin jobs
    BY <1>5, <1>6, <2>1, JobMoves DEF JobMove
  <2> QED BY <1>1, <1>3, <1>4, <1>6, <2>1
<1>7. ASSUME NEW k \in jobs', k.pc # "queued" PROVE transcripts'[k.call] # NoRow
  <2>1. CASE k \in jobs
    BY <1>1, <1>2, <1>7, <2>1 DEF NotifyInv, RunningJobsHaveTranscripts
  <2>2. CASE k \notin jobs
    <3>1. PICK j \in jobs : k.call = j.call /\ (j.pc # "queued" \/ transcripts[j.call] # NoRow)
      BY <1>7, <2>2, JobMoves DEF JobMove
    <3> QED BY <1>1, <1>2, <3>1 DEF NotifyInv, RunningJobsHaveTranscripts
  <2> QED BY <2>1, <2>2
<1>8. NotifiedAfterStored'
  <2>1. ASSUME NEW c \in CallIds, notified'[c] > 0 PROVE Stored(c)
    BY <1>4, <2>1, NotifiedMoves DEF NotifyInv, NotifiedAfterStored
  <2> QED BY <1>3, <2>1 DEF NotifiedAfterStored
<1> QED BY <1>6, <1>7, <1>8 DEF NotifyInv, RunningJobsHaveTranscripts

\* n8n is told of a call only when a result or a dead letter is stored for it,
\* and that is never reset: a later save of the agent keeps structured_data.
THEOREM NotifiedIsStored == Spec => []NotifiedAfterStored
<1>1. Init => NotifyInv
  BY DEF Init, ReceiverInit, AnalysisInit, NotifyInv, NotifiedAfterStored,
     RunningJobsHaveTranscripts
<1>2. TypeOK /\ RefsOK /\ NotifyInv /\ [Next]_vars => NotifyInv'
  BY StepsKeepNotified
<1>3. NotifyInv => NotifiedAfterStored
  BY DEF NotifyInv
<1> QED BY <1>1, <1>2, <1>3, TypeCorrect, ReferencesKept, PTL DEF Spec

-----------------------------------------------------------------------------
LEMMA OthersKeepDialInv ==
    ASSUME TypeOK, RefsOK, DialInv, [Next]_vars, UNCHANGED <<workerVars, dialHistory>>,
           ~WorkerNext
    PROVE  DialInv'
<1>1. \A l \in Leads : status'[l] \in {"ABSENT", "PENDING"} =>
        status[l] \in {"ABSENT", "PENDING"} \/ (worker = "retry_commit" /\ current = l)
  BY StatusMoves DEF StatusMove
<1>2. ASSUME worker = "commit", "status" \notin dirty
      PROVE  status'[current] \notin {"ABSENT", "PENDING"}
  <2>1. current \in Leads
    BY <1>2 DEF RefsOK, DispatchHasLead, HoldsLead
  <2> QED BY <1>1, <1>2, <2>1 DEF DialInv
<1> QED BY <1>1, <1>2 DEF DialInv, DialedAgainOnlyIfUnrecorded, workerVars, dialHistory

LEMMA WorkerKeepsDialInv ==
    ASSUME TypeOK, RefsOK, DialInv, WorkerNext
    PROVE  DialInv'
<1> USE DEF DialInv, DialedAgainOnlyIfUnrecorded
<1>1. dials \in [Leads -> Nat] /\ unrecorded \in [Leads -> Nat] /\ status \in [Leads -> ContactStatus]
  BY DEF TypeOK, WorkerTypeOK, TablesTypeOK
<1>2. worker \in HoldsLead => current \in Leads /\ current \notin batch
  BY DEF RefsOK, DispatchHasLead
<1>3. CASE StartWorker \/ BatchEnds \/ \E rows \in SUBSET Leads : UnknownTimeZone(rows)
  BY <1>3 DEF StartWorker, BatchEnds, UnknownTimeZone, Forget, tableVars, leadVars, dialHistory
<1>4. ASSUME NEW rows \in SUBSET Leads, NEW dialable \in SUBSET Leads, FetchBatch(rows, dialable)
      PROVE  DialInv'
  <2>1. \A l \in dialable : status[l] = "PENDING"
    BY <1>4 DEF FetchBatch, IsFetch, Eligible
  <2> QED BY <1>4, <2>1 DEF FetchBatch, tableVars, leadVars, dialHistory
<1>5. ASSUME NEW l \in Leads, NextLead(l) \/ SessionGetFails(l) PROVE DialInv'
  BY <1>5 DEF NextLead, SessionGetFails, tableVars, leadVars, dialHistory
<1>6. CASE RoomCreated \/ RoomFails
  BY <1>6 DEF RoomCreated, RoomFails, Goto, tableVars, leadVars, dialHistory
<1>7. CASE SipDialed
  BY <1>1, <1>2, <1>7 DEF SipDialed, PlaceDial, Goto, HoldsLead, tableVars, leadVars
<1>8. CASE SipFails
  BY <1>1, <1>2, <1>8 DEF SipFails, PlaceDial, LoseRecord, Goto, HoldsLead, leadVars, dialHistory
<1>9. CASE MergeDialed
  <2>1. "status" \notin dirty' => status[current] = "CALLING"
    BY <1>9 DEF MergeDialed, Merge, DirtyColumns
  <2> QED BY <1>9, <2>1 DEF MergeDialed, Merge, tableVars, leadVars, dialHistory
<1>10. CASE MergeRetry
  BY <1>10 DEF MergeRetry, Merge, tableVars, leadVars, dialHistory
<1>11. CASE CommitDialed
  BY <1>1, <1>2, <1>11, LeadsAssumption DEF CommitDialed, DialFlushed, FlushLead, DispatchEnds,
     dialHistory, HoldsLead
<1>12. CASE CommitRetry
  BY <1>1, <1>2, <1>12 DEF CommitRetry, RetryFlushed, FlushLead, DispatchEnds, dialHistory,
     HoldsLead
<1>13. CASE DatabaseFails
  <2>1. /\ worker' = "poll" /\ batch' = {} /\ dials' = dials
        /\ worker \in {"merge", "commit"} => LoseRecord
        /\ worker \notin {"merge", "commit"} => unrecorded' = unrecorded
    BY <1>13 DEF DatabaseFails, Forget
  <2>2. \A l \in Leads : unrecorded'[l] >= unrecorded[l]
    BY <1>1, <2>1 DEF LoseRecord
  <2>3. \/ status' = status
        \/ worker \in {"commit", "retry_commit"}
           /\ \A l \in Leads \ {current} : status'[l] = status[l]
    BY <1>1, <1>13 DEF DatabaseFails, DialFlushed, RetryFlushed, FlushLead, leadVars
  <2>4. worker \in {"merge", "commit", "retry_commit"} => dials[current] <= unrecorded'[current]
    BY <1>1, <1>2, <2>1 DEF LoseRecord, HoldsLead
  <2>5. \A l \in Leads : status'[l] \in {"ABSENT", "PENDING"} => dials[l] <= unrecorded'[l]
    BY <1>1, <2>1, <2>2, <2>3, <2>4 DEF LoseRecord
  <2>6. \A l \in Leads : dials[l] <= 1 + unrecorded'[l]
    BY <1>1, <2>1, <2>2 DEF LoseRecord
  <2> QED BY <2>1, <2>5, <2>6
<1>14. CASE WorkerCrashes
  <2>1. /\ worker' = "off" /\ batch' = {} /\ dials' = dials /\ status' = status
        /\ worker \in {"merge", "commit"} => LoseRecord
        /\ worker \notin {"merge", "commit"} => unrecorded' = unrecorded
    BY <1>14 DEF WorkerCrashes, Forget, leadVars
  <2>2. CASE worker \in {"merge", "commit"}
    BY <1>1, <1>2, <2>1, <2>2 DEF LoseRecord, HoldsLead
  <2>3. CASE worker \notin {"merge", "commit"}
    BY <2>1, <2>3
  <2> QED BY <2>2, <2>3
<1> HIDE DEF DialInv
<1> QED BY <1>3, <1>4, <1>5, <1>6, <1>7, <1>8, <1>9, <1>10, <1>11, <1>12, <1>13, <1>14
        DEF WorkerNext, Dispatching

\* A step of the system is one of the worker, or leaves the worker alone.
LEMMA WorkerOrOthers ==
    ASSUME [Next]_vars
    PROVE  WorkerNext \/ UNCHANGED <<workerVars, dialHistory>>
BY DEF Next, othersOfTables, othersOfLiveKit, othersOfReceiver, othersOfAgent, othersOfAnalysis,
   vars

\* However the webhooks, agents and analyses of a lead interleave with the
\* worker, and whatever snapshot it merges back, the lead is dialed at most
\* once more than there are dials whose record was lost.
THEOREM NoSecondDial == Spec => []DialedAgainOnlyIfUnrecorded
<1>1. Init => DialInv
  BY DEF Init, TablesInit, WorkerInit, DialInv, DialedAgainOnlyIfUnrecorded
<1>2. TypeOK /\ RefsOK /\ DialInv /\ [Next]_vars => DialInv'
  BY WorkerOrOthers, WorkerKeepsDialInv, OthersKeepDialInv
<1>3. DialInv => DialedAgainOnlyIfUnrecorded
  BY DEF DialInv
<1> QED BY <1>1, <1>2, <1>3, TypeCorrect, ReferencesKept, PTL DEF Spec

-----------------------------------------------------------------------------
LEMMA WorkerKeepsListedInv ==
    ASSUME TypeOK, RefsOK, ListedInv, WorkerNext
    PROVE  ListedInv'
<1> USE DEF ListedInv, ListedDialedAtMostOnce
<1>1. listedDials \in [Leads -> Nat] /\ dnc' = dnc
  BY DEF TypeOK, WorkerTypeOK, WorkerNext, Dispatching, StartWorker, BatchEnds, FetchBatch,
     UnknownTimeZone, NextLead, SessionGetFails, RoomCreated, RoomFails, SipDialed, SipFails,
     MergeDialed, MergeRetry, Merge, CommitDialed, CommitRetry, DialFlushed, RetryFlushed,
     DatabaseFails, WorkerCrashes, tableVars
<1>2. worker \in HoldsLead => current \in Leads /\ current \notin batch
  BY DEF RefsOK, DispatchHasLead
<1>3. ASSUME worker = "create_sip", PlaceDial, worker' \notin {"create_room", "create_sip"},
             batch' = batch
      PROVE  ListedInv'
  <2>1. current \in Leads /\ current \notin batch /\ listedDials[current] = 0
    BY <1>1, <1>2, <1>3 DEF HoldsLead
  <2>2. /\ \A l \in Leads \ {current} : listedDials'[l] = listedDials[l]
        /\ listedDials'[current] = IF PhoneOf[current] \in dnc THEN 1 ELSE 0
    BY <1>1, <1>3, <2>1 DEF PlaceDial
  <2> QED BY <1>1, <1>3, <2>1, <2>2
<1>4. CASE SipDialed
  BY <1>3, <1>4 DEF SipDialed, Goto
<1>5. CASE SipFails
  <2>1. CASE PlaceDial
    BY <1>3, <1>5, <2>1 DEF SipFails, Goto
  <2>2. CASE UNCHANGED dialHistory
    BY <1>1, <1>5, <2>2 DEF SipFails, Goto, dialHistory
  <2> QED BY <1>5, <2>1, <2>2 DEF SipFails
<1>6. ASSUME NEW rows \in SUBSET Leads, NEW dialable \in SUBSET Leads, FetchBatch(rows, dialable)
      PROVE  ListedInv'
  <2>1. \A l \in dialable : PhoneOf[l] \notin dnc
    BY <1>6 DEF FetchBatch, IsFetch, Eligible
  <2> QED BY <1>1, <1>6, <2>1 DEF FetchBatch, dialHistory
<1>7. ASSUME NEW l \in Leads, NextLead(l) \/ SessionGetFails(l) PROVE ListedInv'
  BY <1>1, <1>7 DEF NextLead, SessionGetFails, dialHistory
<1>8. CASE \/ StartWorker \/ BatchEnds \/ DatabaseFails \/ WorkerCrashes
           \/ \E rows \in SUBSET Leads : UnknownTimeZone(rows)
  BY <1>1, <1>8 DEF StartWorker, BatchEnds, DatabaseFails, WorkerCrashes, UnknownTimeZone, Forget,
     dialHistory
<1>9. CASE RoomCreated \/ RoomFails \/ MergeDialed \/ MergeRetry \/ CommitDialed \/ CommitRetry
  BY <1>1, <1>9 DEF RoomCreated, RoomFails, MergeDialed, MergeRetry, Merge, CommitDialed,
     CommitRetry, DispatchEnds, Goto, dialHistory
<1> HIDE DEF ListedInv
<1> QED BY <1>4, <1>5, <1>6, <1>7, <1>8, <1>9 DEF WorkerNext, Dispatching

\* The registry is consulted once per fetch, so a listed number may still be
\* dialed from a batch fetched before; but no lead ever is more than once.
THEOREM OneListedDial == Spec => []ListedDialedAtMostOnce
<1>1. Init => ListedInv
  BY DEF Init, WorkerInit, ListedInv, ListedDialedAtMostOnce
<1>2. ASSUME TypeOK, RefsOK, ListedInv, [Next]_vars PROVE ListedInv'
  <2>1. CASE UNCHANGED <<workerVars, dialHistory>>
    BY <1>2, <2>1, RegistryGrows DEF ListedInv, ListedDialedAtMostOnce, workerVars, dialHistory
  <2> QED BY <1>2, <2>1, WorkerOrOthers, WorkerKeepsListedInv
<1>3. ListedInv => ListedDialedAtMostOnce
  BY DEF ListedInv
<1> QED BY <1>1, <1>2, <1>3, TypeCorrect, ReferencesKept, PTL DEF Spec
=============================================================================
