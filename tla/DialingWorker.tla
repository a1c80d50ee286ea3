----------------------------- MODULE DialingWorker -----------------------------
(***************************************************************************)
(* The dialing worker (app/dialing_worker/worker.py): one process that      *)
(* fetches a batch of PENDING leads in one query, keeps the ones inside     *)
(* their calling hours and dials them one after the other, recording each   *)
(* dial by merging the fetched snapshot of the lead back into the table.    *)
(* The pauses (1 s after a dial, 5 s between batches) are instants here.    *)
(***************************************************************************)
EXTENDS LiveKit

CONSTANTS
    BatchSize,    \* config.batch_size
    E164Phones,   \* the numbers is_e164 accepts
    BadTimezone,  \* leads whose timezone pytz does not know
    NoLead        \* no lead is being dispatched

ASSUME DialerAssumption ==
    /\ BatchSize \in Nat \ {0}
    /\ BadTimezone \subseteq Leads
    /\ NoLead \notin Leads

VARIABLES
    worker,       \* where the process is, "off" when it does not run
    batch,        \* leads of dialable not dispatched yet
    current,      \* the lead being dispatched
    snapshot,     \* campaign_id of the fetched leads, as the query returned it
    dirty,        \* columns the pending merge will write
    dials,        \* history: SIP dials that reached the network
    unrecorded,   \* history: dials whose commit the worker did not see succeed
    listedDials   \* history: dials to a number that was on the registry

workerVars == <<worker, batch, current, snapshot, dirty>>
dialHistory == <<dials, unrecorded, listedDials>>

WorkerPoints == {"off", "poll", "next", "create_room", "create_sip",
                 "merge", "commit", "retry_merge", "retry_commit"}

WorkerTypeOK ==
    /\ worker \in WorkerPoints
    /\ batch \subseteq Leads
    /\ current \in Leads \cup {NoLead}
    /\ snapshot \in [Leads -> Campaigns \cup {NoCampaign}]
    /\ dirty \subseteq {"status", "campaign_id"}
    /\ dials \in [Leads -> Nat]
    /\ unrecorded \in [Leads -> Nat]
    /\ listedDials \in [Leads -> Nat]

WorkerInit ==
    /\ worker = "off"
    /\ batch = {}
    /\ current = NoLead
    /\ snapshot = [l \in Leads |-> NoCampaign]
    /\ dirty = {}
    /\ dials = [l \in Leads |-> 0]
    /\ unrecorded = [l \in Leads |-> 0]
    /\ listedDials = [l \in Leads |-> 0]

-----------------------------------------------------------------------------
(* What the process forgets when it dies, ends a batch or ends a dispatch.  *)
Forget(point) ==
    /\ worker' = point
    /\ batch' = {}
    /\ current' = NoLead
    /\ snapshot' = [l \in Leads |-> NoCampaign]
    /\ dirty' = {}

DispatchEnds ==
    /\ worker' = "next"
    /\ current' = NoLead
    /\ snapshot' = [snapshot EXCEPT ![current] = NoCampaign]
    /\ dirty' = {}
    /\ UNCHANGED batch

Goto(point) == worker' = point /\ UNCHANGED <<batch, current, snapshot, dirty>>

(* The current dial is one the worker has no record of.                     *)
LoseRecord == unrecorded' = [unrecorded EXCEPT ![current] = @ + 1]

\* The container starts the process: run() initializes and enters its loop.
StartWorker == worker = "off" /\ Forget("poll") /\ UNCHANGED <<tableVars, livekitVars, dialHistory>>

\* Mutants: calls that never ended are fetched too; the registry is not joined.
EligibleWithCalling ==
    {l \in Leads : status[l] \in {"PENDING", "CALLING"} /\ ~waiting[l] /\ PhoneOf[l] \notin dnc}
EligibleUnchecked == {l \in Leads : status[l] = "PENDING" /\ ~waiting[l]}

\* The query of _fetch_pending_leads.
Eligible == {l \in Leads : status[l] = "PENDING" /\ ~waiting[l] /\ PhoneOf[l] \notin dnc}

(* Its ORDER BY created_at LIMIT batch_size: rows uploaded together tie.    *)
IsFetch(rows) ==
    /\ rows \subseteq Eligible
    /\ \A l \in rows, m \in Eligible \ rows : CreatedAt[l] <= CreatedAt[m]
    /\ Cardinality(rows) <= BatchSize
    /\ Cardinality(rows) < BatchSize => rows = Eligible

\* dial_batch up to its loop.  The hour of each lead decides, for all of
\* them at this moment, which ones are dialable.
FetchBatch(rows, dialable) ==
    /\ worker = "poll"
    /\ IsFetch(rows)
    /\ rows \cap BadTimezone = {}
    /\ dialable # {} /\ dialable \subseteq rows
    /\ worker' = "next"
    /\ batch' = dialable
    /\ snapshot' = [l \in Leads |-> IF l \in dialable THEN campaignId[l] ELSE NoCampaign]
    /\ UNCHANGED <<current, dirty, tableVars, livekitVars, dialHistory>>

\* pytz raises on a fetched lead, the exception leaves dial_batch, and run()
\* logs it and returns: the process ends.
UnknownTimeZone(rows) ==
    /\ worker = "poll"
    /\ IsFetch(rows)
    /\ rows \cap BadTimezone # {}
    /\ Forget("off")
    /\ UNCHANGED <<tableVars, livekitVars, dialHistory>>

\* Mutant: a bad number ends the batch.
NextLeadAborting(l) ==
    /\ worker = "next"
    /\ l \in batch
    /\ \A m \in batch : CreatedAt[l] <= CreatedAt[m]
    /\ IF PhoneOf[l] \in E164Phones /\ snapshot[l] \in campaigns
       THEN /\ worker' = "create_room" /\ current' = l /\ batch' = batch \ {l}
            /\ UNCHANGED <<snapshot, dirty>>
       ELSE Forget("poll")
    /\ UNCHANGED <<tableVars, livekitVars, dialHistory>>

\* The loop of dial_batch takes its next lead and _dispatch_call checks it:
\* a bad number or a campaign that is not there ends the dispatch unrecorded.
NextLead(l) ==
    /\ worker = "next"
    /\ l \in batch
    /\ \A m \in batch : CreatedAt[l] <= CreatedAt[m]
    /\ batch' = batch \ {l}
    /\ IF PhoneOf[l] \in E164Phones /\ snapshot[l] \in campaigns
       THEN worker' = "create_room" /\ current' = l /\ UNCHANGED snapshot
       ELSE UNCHANGED <<worker, current>> /\ snapshot' = [snapshot EXCEPT ![l] = NoCampaign]
    /\ UNCHANGED <<dirty, tableVars, livekitVars, dialHistory>>

BatchEnds ==
    /\ worker = "next" /\ batch = {}
    /\ Forget("poll")
    /\ UNCHANGED <<tableVars, livekitVars, dialHistory>>

-----------------------------------------------------------------------------
\* await create_room: it succeeds.
RoomCreated ==
    /\ worker = "create_room"
    /\ CreateRoom(current)
    /\ Goto("create_sip")
    /\ UNCHANGED <<tableVars, dialHistory>>

\* await create_room raises, whether or not the server created the room.
RoomFails ==
    /\ worker = "create_room"
    /\ Fault
    /\ CreateRoom(current) \/ UNCHANGED livekitVars
    /\ Goto("retry_merge")
    /\ UNCHANGED <<leadVars, campaigns, dnc, calls, transcripts, dialHistory>>

PlaceDial ==
    /\ CreateSipParticipant(current)
    /\ dials' = [dials EXCEPT ![current] = @ + 1]
    /\ listedDials' = [listedDials EXCEPT
          ![current] = IF PhoneOf[current] \in dnc THEN @ + 1 ELSE @]

\* await create_sip_participant: the lead is being called.
SipDialed ==
    /\ worker = "create_sip"
    /\ PlaceDial
    /\ Goto("merge")
    /\ UNCHANGED <<tableVars, unrecorded>>

\* It raises, and the dial was not, or was, placed.
SipFails ==
    /\ worker = "create_sip"
    /\ Fault
    /\ \/ PlaceDial /\ LoseRecord
       \/ UNCHANGED <<livekitVars, dialHistory>>
    /\ Goto("retry_merge")
    /\ UNCHANGED <<leadVars, campaigns, dnc, calls, transcripts>>

(* session.merge(lead): the row is read again, and every column in which    *)
(* the snapshot differs from it will be written by the next flush.          *)
DirtyColumns(s) ==
    (IF status[current] # s THEN {"status"} ELSE {}) \cup
    (IF campaignId[current] # snapshot[current] THEN {"campaign_id"} ELSE {})

Merge(from, s, to) ==
    /\ worker = from
    /\ worker' = to
    /\ dirty' = DirtyColumns(s)
    /\ UNCHANGED <<batch, current, snapshot, tableVars, livekitVars, dialHistory>>

FlushLead(s) ==
    /\ status' = [status EXCEPT ![current] = IF "status" \in dirty THEN s ELSE @]
    /\ campaignId' = [campaignId EXCEPT
          ![current] = IF "campaign_id" \in dirty THEN snapshot[current] ELSE @]

\* After the dial: the call row and the status CALLING.
MergeDialed == Merge("merge", "CALLING", "commit")
\* Mutant: the merged copy of the lead is left as it was read.
DialFlushedUnmerged ==
    /\ InsertCall([lead |-> current, status |-> "PENDING", started |-> FALSE, ended |-> FALSE])
    /\ UNCHANGED <<leadVars, campaigns, dnc, transcripts>>

DialFlushed ==
    /\ FlushLead("CALLING")
    /\ InsertCall([lead |-> current, status |-> "PENDING", started |-> FALSE, ended |-> FALSE])
    /\ UNCHANGED <<retryCount, waiting, campaigns, dnc, transcripts>>
CommitDialed ==
    /\ worker = "commit"
    /\ DialFlushed
    /\ DispatchEnds
    /\ UNCHANGED <<livekitVars, dialHistory, faults>>

\* _handle_dialer_error: livekit_client makes every error retriable, so the
\* branch that sets FAILED is never taken.  No other code writes retry_count
\* or next_retry_at, so the snapshot's values are the row's.
MergeRetry == Merge("retry_merge", "PENDING", "retry_commit")
RetryFlushed ==
    /\ FlushLead("PENDING")
    /\ retryCount' = [retryCount EXCEPT ![current] = @ + 1]
    /\ waiting' = [waiting EXCEPT ![current] = TRUE]
    /\ UNCHANGED <<campaigns, dnc, calls, transcripts>>
CommitRetry ==
    /\ worker = "retry_commit"
    /\ RetryFlushed
    /\ DispatchEnds
    /\ UNCHANGED <<livekitVars, dialHistory, faults>>

-----------------------------------------------------------------------------
\* session.get raises, and the dispatch ends before its dial.  If the session
\* had no connection to break, it can be used again and the batch goes on;
\* otherwise every later lead of the batch fails in session.get as well.
SessionGetFails(l) ==
    /\ worker = "next"
    /\ l \in batch /\ PhoneOf[l] \in E164Phones
    /\ \A m \in batch : CreatedAt[l] <= CreatedAt[m]
    /\ Fault
    /\ \/ batch' = batch \ {l} /\ snapshot' = [snapshot EXCEPT ![l] = NoCampaign]
       \/ batch' = {} /\ snapshot' = [m \in Leads |-> NoCampaign]
    /\ UNCHANGED <<worker, current, dirty, leadVars, campaigns, dnc, calls, transcripts,
                   livekitVars, dialHistory>>

\* The database fails a merge or a commit; a commit may have been applied.  The
\* session cannot be used again: every later lead of the batch fails in
\* session.get, before it is dialed, and the loop polls again.
DatabaseFails ==
    /\ worker \in {"merge", "commit", "retry_merge", "retry_commit"}
    /\ Fault
    /\ \/ worker = "commit" /\ DialFlushed
       \/ worker = "retry_commit" /\ RetryFlushed
       \/ UNCHANGED <<leadVars, campaigns, dnc, calls, transcripts>>
    /\ Forget("poll")
    /\ IF worker \in {"merge", "commit"} THEN LoseRecord ELSE UNCHANGED unrecorded
    /\ UNCHANGED <<livekitVars, dials, listedDials>>

\* The process dies, or an exception of the query ends its loop.
WorkerCrashes ==
    /\ worker # "off"
    /\ Fault
    /\ Forget("off")
    /\ IF worker \in {"merge", "commit"} THEN LoseRecord ELSE UNCHANGED unrecorded
    /\ UNCHANGED <<leadVars, campaigns, dnc, calls, transcripts, livekitVars,
                   dials, listedDials>>

Dispatching ==
    \/ RoomCreated \/ SipDialed \/ MergeDialed \/ CommitDialed \/ MergeRetry \/ CommitRetry
WorkerNext ==
    \/ StartWorker \/ BatchEnds \/ Dispatching
    \/ \E rows, dialable \in SUBSET Leads : FetchBatch(rows, dialable)
    \/ \E rows \in SUBSET Leads : UnknownTimeZone(rows)
    \/ \E l \in Leads : NextLead(l) \/ SessionGetFails(l)
    \/ RoomFails \/ SipFails \/ DatabaseFails \/ WorkerCrashes
=============================================================================
