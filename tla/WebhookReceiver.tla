---------------------------- MODULE WebhookReceiver ----------------------------
(***************************************************************************)
(* The webhook receiver (app/webhook_receiver): POST /webhook/livekit runs  *)
(* the handler of the event inside the request, and answers 500 when it     *)
(* raises.  Nothing remembers which events were handled before.  LiveKit    *)
(* delivers the webhooks of a room one at a time; it sends one again, or    *)
(* gives it up, when the answer is not 200 or does not come in time, and    *)
(* then the slow handler is still running.                                  *)
(***************************************************************************)
EXTENDS LiveKit

CONSTANT JobRetries  \* Retry(max=3) of enqueue_analysis

ASSUME JobRetriesAssumption == JobRetries \in Nat

\* A request: call is the row its SELECT found, awaited says that LiveKit is
\* still waiting for the answer.
Request == [lead : Leads, event : Events, meta : BOOLEAN, awaited : BOOLEAN,
            pc : {"select", "commit", "enqueue"}, call : CallIds \cup {NoRow}]

\* A job of the analysis queue in Redis, the nth one of its call.  Claude's
\* flag and the decision optOut belong to the worker that runs it.
Job == [call : CallIds, nth : Nat, left : 0..JobRetries,
        pc : {"queued", "extract", "write", "notify"}, optOut : BOOLEAN, flag : BOOLEAN]

VARIABLES
    requests,   \* handlers running in the API process
    jobs,       \* analysis jobs queued or running
    enqueued    \* history: how many jobs each call was given

receiverVars == <<requests, jobs, enqueued>>

ReceiverTypeOK ==
    /\ requests \subseteq Request
    /\ jobs \subseteq Job
    /\ enqueued \in [CallIds -> Nat]

ReceiverInit ==
    /\ requests = {}
    /\ jobs = {}
    /\ enqueued = [c \in CallIds |-> 0]

-----------------------------------------------------------------------------
\* The signature of the oldest webhook of a room is verified and its handler
\* starts.
Deliver(l) ==
    /\ hooks[l] # <<>> /\ ~sending[l]
    /\ sending' = [sending EXCEPT ![l] = TRUE]
    /\ requests' = requests \cup
          {[lead |-> l, event |-> Head(hooks[l]).event, meta |-> Head(hooks[l]).meta,
            awaited |-> TRUE, pc |-> "select", call |-> NoRow]}
    /\ UNCHANGED <<room, leg, answered, hooks, sessions, jobs, enqueued, tableVars>>

(* LiveKit is done with the oldest webhook of a room, or will send it again. *)
StopSending(l, done) ==
    /\ sending' = [sending EXCEPT ![l] = FALSE]
    /\ hooks' = IF done THEN [hooks EXCEPT ![l] = Tail(@)] ELSE hooks

Ends(r) == requests' = requests \ {r}
Continues(r, pc, c) == requests' = (requests \ {r}) \cup {[r EXCEPT !.pc = pc, !.call = c]}

\* Mutant: LiveKit does not take the answer for a success.
Answer200Unseen(r) ==
    /\ Ends(r)
    /\ IF r.awaited THEN StopSending(r.lead, FALSE) ELSE UNCHANGED <<hooks, sending>>
    /\ UNCHANGED <<room, leg, answered, sessions>>

(* The handler of r returns, and the answer is 200.                         *)
Answer200(r) ==
    /\ Ends(r)
    /\ IF r.awaited THEN StopSending(r.lead, TRUE) ELSE UNCHANGED <<hooks, sending>>
    /\ UNCHANGED <<room, leg, answered, sessions>>

(* It raised, and the answer is 500.                                        *)
Answer500(r) ==
    /\ Ends(r)
    /\ \/ ~r.awaited /\ UNCHANGED <<hooks, sending>>
       \/ r.awaited /\ \E giveUp \in BOOLEAN : StopSending(r.lead, giveUp)
    /\ UNCHANGED <<room, leg, answered, sessions>>

\* Mutant: the broadcast raises whenever it is awaited.
BroadcastRaises(r) == Answer500(r) /\ UNCHANGED faults

(* After its effects a handler awaits broadcast to the dashboards, which     *)
(* raises when a dashboard connects or leaves meanwhile: the set it iterates *)
(* over changes size.                                                        *)
BroadcastAndAnswer(r) ==
    \/ Answer200(r) /\ UNCHANGED faults
    \/ Fault /\ Answer500(r)

-----------------------------------------------------------------------------
(* The SELECT of upsert_call_log and of update_call_end.                    *)
SelectsCall(r) == r \in requests /\ r.pc = "select" /\ r.event # "participant_joined"

\* scalar_one_or_none raises: nothing is written.  The rows stay, so every
\* later delivery of the webhook raises as well, until LiveKit gives it up.
SelectRaises(r) ==
    /\ SelectsCall(r)
    /\ MultipleResultsFound(r.lead)
    /\ Answer500(r)
    /\ UNCHANGED <<jobs, enqueued, tableVars>>

\* Mutant: room_finished enqueues the job before it writes the end.
SelectFindsCallEnqueueing(r, c) ==
    /\ SelectsCall(r)
    /\ OneFound(r.lead, c)
    /\ Continues(r, IF r.event = "room_finished" THEN "enqueue" ELSE "commit", c)
    /\ UNCHANGED <<livekitVars, jobs, enqueued, tableVars>>

SelectFindsCall(r, c) ==
    /\ SelectsCall(r)
    /\ OneFound(r.lead, c)
    /\ Continues(r, "commit", c)
    /\ UNCHANGED <<livekitVars, jobs, enqueued, tableVars>>

\* No row yet: room_started will insert one if it knows the lead; otherwise
\* it catches the ValueError, and room_finished logs a warning, and returns.
SelectFindsNone(r) ==
    /\ SelectsCall(r)
    /\ NoneFound(r.lead)
    /\ IF r.event = "room_started" /\ r.meta
       THEN Continues(r, "commit", NoRow) /\ UNCHANGED livekitVars
       ELSE Answer200(r)
    /\ UNCHANGED <<jobs, enqueued, tableVars>>

\* room_started: the row gets its start_time, or is inserted, in the same
\* transaction as the lead's status.
CommitRoomStarted(r) ==
    /\ r \in requests /\ r.event = "room_started" /\ r.pc = "commit"
    /\ IF r.call # NoRow
       THEN calls' = [calls EXCEPT ![r.call].started = TRUE]
       ELSE InsertCall([lead |-> r.lead, status |-> "CALLING", started |-> TRUE, ended |-> FALSE])
    /\ SetLeadStatus(r.lead, "CALLING")
    /\ BroadcastAndAnswer(r)
    /\ UNCHANGED <<retryCount, waiting, campaignId, campaigns, dnc, transcripts, jobs, enqueued>>

\* participant_joined for a SIP participant; without metadata it returns.
ParticipantJoined(r) ==
    /\ r \in requests /\ r.event = "participant_joined"
    /\ IF r.meta THEN SetLeadStatus(r.lead, "CALLING") ELSE UNCHANGED status
    /\ Answer200(r)
    /\ UNCHANGED <<retryCount, waiting, campaignId, campaigns, dnc, calls, transcripts,
                   faults, jobs, enqueued>>

\* Mutants: only the status, or only the end, is written.
CommitStatusOnly(r) ==
    /\ r \in requests /\ r.event = "room_finished" /\ r.pc = "commit"
    /\ SetLeadStatus(r.lead, "COMPLETED")
    /\ Continues(r, "enqueue", r.call)
    /\ UNCHANGED <<retryCount, waiting, campaignId, campaigns, dnc, calls, transcripts, faults,
                   livekitVars, jobs, enqueued>>
CommitEndOnly(r) ==
    /\ r \in requests /\ r.event = "room_finished" /\ r.pc = "commit"
    /\ calls' = [calls EXCEPT ![r.call].ended = TRUE]
    /\ Continues(r, "enqueue", r.call)
    /\ UNCHANGED <<leadVars, campaigns, dnc, transcripts, faults, livekitVars, jobs, enqueued>>

\* room_finished: end_time and the lead's status in one transaction, ...
CommitRoomFinished(r) ==
    /\ r \in requests /\ r.event = "room_finished" /\ r.pc = "commit"
    /\ calls' = [calls EXCEPT ![r.call].ended = TRUE]
    /\ SetLeadStatus(r.lead, "COMPLETED")
    /\ Continues(r, "enqueue", r.call)
    /\ UNCHANGED <<retryCount, waiting, campaignId, campaigns, dnc, transcripts, faults,
                   livekitVars, jobs, enqueued>>

\* Mutant: the first execution is not counted among the executions.
EnqueueOneMore(r) ==
    /\ r \in requests /\ r.pc = "enqueue"
    /\ jobs' = jobs \cup {[call |-> r.call, nth |-> enqueued[r.call] + 1, left |-> JobRetries + 1,
                           pc |-> "queued", optOut |-> FALSE, flag |-> FALSE]}
    /\ enqueued' = [enqueued EXCEPT ![r.call] = @ + 1]
    /\ BroadcastAndAnswer(r)
    /\ UNCHANGED <<leadVars, campaigns, dnc, calls, transcripts>>

\* ... and the analysis job after it.
EnqueueAnalysis(r) ==
    /\ r \in requests /\ r.pc = "enqueue"
    /\ jobs' = jobs \cup {[call |-> r.call, nth |-> enqueued[r.call] + 1, left |-> JobRetries,
                           pc |-> "queued", optOut |-> FALSE, flag |-> FALSE]}
    /\ enqueued' = [enqueued EXCEPT ![r.call] = @ + 1]
    /\ BroadcastAndAnswer(r)
    /\ UNCHANGED <<leadVars, campaigns, dnc, calls, transcripts>>

-----------------------------------------------------------------------------
\* Redis is down: enqueue_analysis swallows the exception, the answer is 200.
EnqueueSwallowed(r) ==
    /\ r \in requests /\ r.pc = "enqueue"
    /\ Fault
    /\ Answer200(r)
    /\ UNCHANGED <<leadVars, campaigns, dnc, calls, transcripts, jobs, enqueued>>

\* The database fails before the commit, and the transaction rolls back.
HandlerRaises(r) ==
    /\ r \in requests /\ r.pc # "enqueue"
    /\ Fault
    /\ Answer500(r)
    /\ UNCHANGED <<leadVars, campaigns, dnc, calls, transcripts, jobs, enqueued>>

\* The answer takes too long: LiveKit sends the webhook again, or gives up,
\* and the handler goes on.
AnswerTimesOut(r) ==
    /\ r \in requests /\ r.awaited
    /\ Fault
    /\ requests' = (requests \ {r}) \cup {[r EXCEPT !.awaited = FALSE]}
    /\ \E giveUp \in BOOLEAN : StopSending(r.lead, giveUp)
    /\ UNCHANGED <<room, leg, answered, sessions, leadVars, campaigns, dnc, calls, transcripts,
                   jobs, enqueued>>

\* The API process dies with every handler in it.
ApiCrashes ==
    /\ requests # {}
    /\ Fault
    /\ requests' = {}
    /\ sending' = [l \in Leads |-> FALSE]
    /\ UNCHANGED <<room, leg, answered, hooks, sessions, leadVars, campaigns, dnc, calls,
                   transcripts, jobs, enqueued>>

Handling(r) ==
    \/ SelectRaises(r) \/ SelectFindsNone(r) \/ (\E c \in CallIds : SelectFindsCall(r, c))
    \/ CommitRoomStarted(r) \/ ParticipantJoined(r) \/ CommitRoomFinished(r)
    \/ EnqueueAnalysis(r)
ReceiverNext ==
    \/ \E l \in Leads : Deliver(l)
    \/ \E r \in requests :
          Handling(r) \/ EnqueueSwallowed(r) \/ HandlerRaises(r) \/ AnswerTimesOut(r)
    \/ ApiCrashes
=============================================================================
