---------------------------- MODULE PostCallAnalysis ----------------------------
(***************************************************************************)
(* The analysis worker (app/post_call_analysis/worker.py) as RQ runs it: a  *)
(* job reads the transcript in one transaction, has Claude extract data     *)
(* from it, writes the result in a second transaction, and tells n8n.  A    *)
(* job that raises is queued again while it has retries left.  Any number   *)
(* of RQ workers may run.                                                   *)
(***************************************************************************)
EXTENDS WebhookReceiver

VARIABLE notified  \* history: how often n8n was told of a call

AnalysisTypeOK == notified \in [CallIds -> Nat]
AnalysisInit == notified = [c \in CallIds |-> 0]

Becomes(j, k) == jobs' = (jobs \ {j}) \cup {k}
Finishes(j) == jobs' = jobs \ {j}

LeadOf(j) == calls[j.call].lead

(* UPDATE call_transcripts SET structured_data ... WHERE call_id = ...       *)
SetData(c, d) ==
    transcripts' = [transcripts EXCEPT ![c] = IF @ = NoRow THEN NoRow ELSE [@ EXCEPT !.data = d]]

-----------------------------------------------------------------------------
\* Mutants: without a transcript the job tells n8n all the same, or waits for it.
ReadTranscriptOrNotify(j) ==
    /\ j \in jobs /\ j.pc = "queued"
    /\ Becomes(j, [j EXCEPT !.pc = IF transcripts[j.call] = NoRow THEN "notify" ELSE "extract"])
    /\ UNCHANGED <<requests, enqueued, notified, livekitVars, tableVars>>
ReadTranscriptOrWait(j) ==
    /\ j \in jobs /\ j.pc = "queued"
    /\ transcripts[j.call] # NoRow
    /\ Becomes(j, [j EXCEPT !.pc = "extract", !.optOut = transcripts[j.call].text = "opt_out"])
    /\ UNCHANGED <<requests, enqueued, notified, livekitVars, tableVars>>

\* The first transaction.  Without a transcript the job returns normally: it
\* is not retried.  The call and its lead are there: foreign keys, no deletes.
\* What dnc_keywords.scan says of the text is settled here.
ReadTranscript(j) ==
    /\ j \in jobs /\ j.pc = "queued"
    /\ IF transcripts[j.call] = NoRow
       THEN Finishes(j)
       ELSE Becomes(j, [j EXCEPT !.pc = "extract",
                               !.optOut = transcripts[j.call].text = "opt_out"])
    /\ UNCHANGED <<requests, enqueued, notified, livekitVars, tableVars>>

\* Mutant: the keyword layer alone decides.
ExtractKeywordsOnly(j, flag) ==
    /\ j \in jobs /\ j.pc = "extract"
    /\ Becomes(j, [j EXCEPT !.pc = "write", !.flag = flag])
    /\ UNCHANGED <<requests, enqueued, notified, livekitVars, tableVars>>

\* Claude sets its flag as it likes, and either layer makes it an opt-out.
Extract(j, flag) ==
    /\ j \in jobs /\ j.pc = "extract"
    /\ Becomes(j, [j EXCEPT !.pc = "write", !.flag = flag, !.optOut = flag \/ @])
    /\ UNCHANGED <<requests, enqueued, notified, livekitVars, tableVars>>

\* Mutant: only Claude's opt-outs are put on the registry.
WriteResultOfFlag(j) ==
    /\ j \in jobs /\ j.pc = "write"
    /\ SetData(j.call, IF j.flag THEN "result_dnc" ELSE "result")
    /\ dnc' = IF j.flag THEN dnc \cup {PhoneOf[LeadOf(j)]} ELSE dnc
    /\ IF j.optOut THEN SetLeadStatus(LeadOf(j), "FAILED_DNC") ELSE UNCHANGED status
    /\ Becomes(j, [j EXCEPT !.pc = "notify"])
    /\ UNCHANGED <<retryCount, waiting, campaignId, campaigns, calls, faults, requests,
                   enqueued, notified, livekitVars>>

\* The second transaction: the result, and for an opt-out the registry entry
\* (ON CONFLICT DO NOTHING) and the lead's status.
WriteResult(j) ==
    /\ j \in jobs /\ j.pc = "write"
    /\ SetData(j.call, IF j.flag THEN "result_dnc" ELSE "result")
    /\ IF j.optOut
       THEN /\ dnc' = dnc \cup {PhoneOf[LeadOf(j)]}
            /\ SetLeadStatus(LeadOf(j), "FAILED_DNC")
       ELSE UNCHANGED <<dnc, status>>
    /\ Becomes(j, [j EXCEPT !.pc = "notify"])
    /\ UNCHANGED <<retryCount, waiting, campaignId, campaigns, calls, faults, requests,
                   enqueued, notified, livekitVars>>

\* The POST to n8n; its failures are swallowed, so the job ends either way.
NotifyN8n(j) ==
    /\ j \in jobs /\ j.pc = "notify"
    /\ Finishes(j)
    /\ notified' = [notified EXCEPT ![j.call] = @ + 1]
    /\ UNCHANGED <<requests, enqueued, livekitVars, tableVars>>

-----------------------------------------------------------------------------
(* RQ queues a failed job again, to start from its beginning.               *)
Requeue(j) ==
    /\ j.left > 0
    /\ Becomes(j, [j EXCEPT !.pc = "queued", !.left = @ - 1,
                            !.optOut = FALSE, !.flag = FALSE])

\* analyze_call raises: a transaction or Claude failed.  The last execution
\* writes the dead-letter flag over structured_data, or fails to.
AnalysisRaises(j) ==
    /\ j \in jobs /\ j.pc # "notify"
    /\ Fault
    /\ \/ Requeue(j) /\ UNCHANGED transcripts
       \/ j.left = 0 /\ Finishes(j) /\ SetData(j.call, "failed_analysis")
       \/ j.left = 0 /\ Finishes(j) /\ UNCHANGED transcripts
    /\ UNCHANGED <<leadVars, campaigns, dnc, calls, requests, enqueued, notified, livekitVars>>

\* The worker process is killed: RQ treats the job as failed, but no code of
\* analyze_call runs any more.  It may have posted to n8n already.
WorkHorseKilled(j) ==
    /\ j \in jobs /\ j.pc # "queued"
    /\ Fault
    /\ Requeue(j) \/ (j.left = 0 /\ Finishes(j))
    /\ \/ UNCHANGED notified
       \/ j.pc = "notify" /\ notified' = [notified EXCEPT ![j.call] = @ + 1]
    /\ UNCHANGED <<leadVars, campaigns, dnc, calls, transcripts, requests, enqueued, livekitVars>>

Analysing(j) ==
    ReadTranscript(j) \/ (\E flag \in BOOLEAN : Extract(j, flag)) \/ WriteResult(j) \/ NotifyN8n(j)
AnalysisNext == \E j \in jobs : Analysing(j) \/ AnalysisRaises(j) \/ WorkHorseKilled(j)
=============================================================================
