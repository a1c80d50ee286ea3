----------------------------- MODULE CallLifecycle -----------------------------
(***************************************************************************)
(* The life of a call across every process that touches it: the dashboard   *)
(* API, the dialing worker, LiveKit, the webhook receiver, the agent and    *)
(* the analysis worker, all of them on the same tables.                     *)
(***************************************************************************)
EXTENDS DashboardApi, DialingWorker, LivekitAgent, PostCallAnalysis

vars == <<tableVars, livekitVars, workerVars, dialHistory, receiverVars, notified>>

TypeOK ==
    /\ TablesTypeOK
    /\ LiveKitTypeOK
    /\ WorkerTypeOK
    /\ ReceiverTypeOK
    /\ AnalysisTypeOK

Init ==
    /\ TablesInit
    /\ LiveKitInit
    /\ WorkerInit
    /\ ReceiverInit
    /\ AnalysisInit

othersOfTables == <<livekitVars, workerVars, dialHistory, receiverVars, notified>>
othersOfWorker == <<receiverVars, notified>>
othersOfLiveKit == <<leadVars, campaigns, dnc, calls, transcripts, workerVars, dialHistory, receiverVars, notified>>
othersOfReceiver == <<workerVars, dialHistory, notified>>
othersOfAgent == <<workerVars, dialHistory, receiverVars, notified>>
othersOfAnalysis == <<workerVars, dialHistory>>

(* A room that no leg has joined closes after minutes, so it closes under a  *)
(* pending create_sip_participant only if that request hangs.               *)
LiveKitNext ==
    \E l \in Leads :
        \/ SipJoins(l) /\ UNCHANGED faults
        \/ SipLeaves(l) /\ UNCHANGED faults
        \/ RoomCloses(l) /\ IF worker = "create_sip" /\ current = l
                            THEN Fault
                            ELSE UNCHANGED faults

Next ==
    \/ DashboardNext /\ UNCHANGED othersOfTables
    \/ (\E l \in Leads : BackoffElapses(l)) /\ UNCHANGED othersOfTables
    \/ (\E p \in Phones : RegistryImport(p)) /\ UNCHANGED othersOfTables
    \/ WorkerNext /\ UNCHANGED othersOfWorker
    \/ LiveKitNext /\ UNCHANGED othersOfLiveKit
    \/ ReceiverNext /\ UNCHANGED othersOfReceiver
    \/ AgentNext /\ UNCHANGED othersOfAgent
    \/ AnalysisNext /\ UNCHANGED othersOfAnalysis

Spec == Init /\ [][Next]_vars

-----------------------------------------------------------------------------
(* What the scheduling grants.  The worker's event loop runs on, docker      *)
(* restarts the process, time passes a backoff, and for every lead some poll *)
(* falls inside its calling hours.                                           *)
WorkerSteps ==
    \/ StartWorker \/ BatchEnds \/ Dispatching
    \/ \E l \in Leads : NextLead(l)
    \/ \E rows \in SUBSET Leads : UnknownTimeZone(rows)
FetchesLead(l) == \E rows, dialable \in SUBSET Leads : l \in dialable /\ FetchBatch(rows, dialable)

WorkerFairness ==
    /\ WF_vars(WorkerSteps /\ UNCHANGED othersOfWorker)
    /\ \A l \in Leads : /\ WF_vars(BackoffElapses(l) /\ UNCHANGED othersOfTables)
                        /\ SF_vars(FetchesLead(l) /\ UNCHANGED othersOfWorker)

(* Calls end, rooms close, webhooks are delivered, the API process, the      *)
(* agents and the analysis workers run on, and LiveKit gives up a webhook    *)
(* whose handler raises again and again.                                     *)
GivesUp(l) == \E r \in requests : r.lead = l /\ SelectRaises(r) /\ hooks' # hooks
AftermathFairness ==
    /\ \A l \in Leads : /\ WF_vars(SipLeaves(l) /\ UNCHANGED <<faults, othersOfLiveKit>>)
                        /\ WF_vars(RoomCloses(l) /\ UNCHANGED <<faults, othersOfLiveKit>>)
                        /\ WF_vars(Deliver(l) /\ UNCHANGED othersOfReceiver)
                        /\ SF_vars(GivesUp(l) /\ UNCHANGED othersOfReceiver)
    /\ WF_vars((\E r \in requests : Handling(r)) /\ UNCHANGED othersOfReceiver)
    /\ WF_vars((\E s \in sessions : Saving(s) \/ \E text \in Texts : SessionEnds(s, text))
               /\ UNCHANGED othersOfAgent)
    /\ WF_vars((\E j \in jobs : Analysing(j)) /\ UNCHANGED othersOfAnalysis)

-----------------------------------------------------------------------------
(* What the processes hold of each other's state stays good: the steps of a  *)
(* dispatch have a lead, rows of call_logs named by requests, sessions, jobs *)
(* and transcripts exist, and LiveKit awaits one answer per room.                *)
HoldsLead == {"create_room", "create_sip", "merge", "commit", "retry_merge", "retry_commit"}

DispatchHasLead == worker \in HoldsLead => current \in Leads /\ current \notin batch

RequestsNameRows ==
    \A r \in requests :
        /\ r.call # NoRow => calls[r.call] # NoRow /\ calls[r.call].lead = r.lead
        /\ r.event = "room_finished" /\ r.pc = "commit" => r.call # NoRow
        /\ r.pc = "enqueue" => r.call # NoRow /\ calls[r.call].ended

OneAwaited ==
    \A r \in requests : r.awaited =>
        /\ sending[r.lead] /\ hooks[r.lead] # <<>>
        /\ \A q \in requests : q.awaited /\ q.lead = r.lead => q = r

SessionsNameRows ==
    \A s \in sessions : s.pc = "writing" => s.call # NoRow /\ calls[s.call] # NoRow

TranscriptsHaveCalls == \A c \in CallIds : transcripts[c] # NoRow => calls[c] # NoRow

RunningJobsHaveTranscripts ==
    \A j \in jobs : j.pc # "queued" => transcripts[j.call] # NoRow

-----------------------------------------------------------------------------
\* A status of FAILED_DNC is backed by the registry: analysis writes both in
\* one transaction, so no lead shows the status while its number can still be
\* fetched through another lead.
FailedDncListed == \A l \in Leads : status[l] = "FAILED_DNC" => PhoneOf[l] \in dnc

\* An opt-out that an analysis decided on is on the registry from the moment
\* its result is stored, whichever layer found it.
OptOutListed ==
    /\ \A j \in jobs : j.pc = "notify" /\ j.optOut => PhoneOf[LeadOf(j)] \in dnc
    /\ \A c \in CallIds : transcripts[c] # NoRow /\ transcripts[c].data = "result_dnc"
          => PhoneOf[calls[c].lead] \in dnc

\* A lead is COMPLETED only if a call row of it has ended: the handler writes
\* both in one transaction, and no merge of a stale snapshot, no late handler
\* and no retry makes a COMPLETED lead out of one that has no ended call.
CompletedHasEndedCall ==
    \A l \in Leads : status[l] = "COMPLETED" => \E c \in RowsOf(l) : calls[c].ended

\* An analysis job names a call row that exists and has ended, because it is
\* enqueued after the commit and its id is the row's.
JobsNameEndedCalls == \A j \in jobs : calls[j.call] # NoRow /\ calls[j.call].ended

\* Only the worker makes a lead PENDING again, and only after a dial it knows
\* failed: a lead is dialed again only if the record of an earlier dial was
\* lost (the worker died, its commit failed, or the SIP request failed after
\* the dial was placed).  Webhooks, agents and analyses in any order, and any
\* stale snapshot, never cause a second dial.
DialedAgainOnlyIfUnrecorded ==
    \A l \in Leads : dials[l] <= 1 + unrecorded[l]

\* The registry is consulted once per fetch, so a number may be dialed after
\* it was listed; but a lead is dialed so at most once, and then from a batch
\* fetched before.
ListedDialedAtMostOnce == \A l \in Leads : listedDials[l] <= 1

\* The handlers are not idempotent, but each failure of the environment costs
\* at most one more analysis of a call: lost answers, retries and redials do
\* not multiply.
OneMoreJobPerFault == \A c \in CallIds : enqueued[c] <= 1 + faults

\* n8n is only told of a call whose result, or whose failure, is stored.
NotifiedAfterStored ==
    \A c \in CallIds : notified[c] > 0 => transcripts[c] # NoRow /\ transcripts[c].data # "null"

\* No good lead starves behind bad ones: it is dialed, taken off PENDING or
\* listed, if fewer than BatchSize leads as old have numbers that cannot be
\* dialed (they stay at the head of every fetch), those leads have a campaign,
\* and the fetches sooner or later meet no unknown timezone (one ends them).
Elders(l) == {m \in Leads : CreatedAt[m] <= CreatedAt[l]}
Undialable == {m \in Leads : PhoneOf[m] \notin E164Phones}
GoodLeadsDialed ==
    <>[](Eligible \cap BadTimezone = {}) =>
        \A l \in Leads \ Undialable : Cardinality(Elders(l) \cap Undialable) < BatchSize =>
            ((status[l] = "PENDING" /\ \A m \in Elders(l) : campaignId[m] \in campaigns)
                ~> (status[l] # "PENDING" \/ PhoneOf[l] \in dnc))

\* Every webhook is answered, every handler returns and every job ends.
WebhooksAndJobsDrain ==
    <>[](requests = {} /\ jobs = {} /\ \A l \in Leads : hooks[l] = <<>>)

\* A room's closing is lost when something failed and its room_finished is
\* gone although no handler of one has handed a call of the room to analysis.
ClosingLost(l) ==
    /\ faults > 0
    /\ room[l] = "none" /\ hooks[l] = <<>>
    /\ \A c \in RowsOf(l) : enqueued[c] = 0

\* A lead that is being called is taken to a final status by the webhooks and
\* the analysis of its call, whatever raises, crashes or is sent again, as long
\* as every answer comes in time (a late handler writes CALLING over the final
\* status).  Two leads stay CALLING all the same: one whose room has two rows,
\* which takes no failure, and one whose closing a failure has lost.
CallingLeadsSettle ==
    [](\A r \in requests : r.awaited) => \A l \in Leads :
        (status[l] = "CALLING") ~>
            (status[l] \in {"COMPLETED", "FAILED_DNC"} \/ MultipleResultsFound(l) \/ ClosingLost(l))
=============================================================================
