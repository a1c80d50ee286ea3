------------------------------ MODULE DialPacing ------------------------------
(***************************************************************************)
(* The dialing worker against the clock: the pause after every dispatch,    *)
(* the poll interval, the calling hours of each lead's timezone and the     *)
(* backoff after a failed dial.  DialingWorker has the same process without  *)
(* time and with everything else: here the registry, the campaigns and the  *)
(* other processes are left out, and merge and commit are one step.         *)
(* The clock counts seconds.  A sleep ends on time, the database takes no   *)
(* time, and a request to LiveKit takes at most MaxRequest seconds.         *)
(***************************************************************************)
EXTENDS Integers, FiniteSets

CONSTANTS
    Leads,         \* the leads in the table, PENDING at first
    CreatedAt,     \* creation time of a lead
    UtcOffset,     \* seconds that a lead's timezone is ahead of UTC
    Refused,       \* leads with a bad number or a campaign that is not there
    BatchSize,     \* config.batch_size
    PollInterval,  \* config.poll_interval_sec
    StartHour,     \* config.start_hour
    EndHour,       \* config.end_hour
    FailedBefore,  \* how often each lead was dialed in vain before
    StartTime,     \* when the observation begins: seconds since a midnight UTC
    Horizon,       \* when it ends: a bound
    MaxRequest,    \* longest duration of a request: a bound
    MaxFaults,     \* failures in one behaviour: a bound
    NoLead         \* no lead is being dispatched

ASSUME PacingAssumption ==
    /\ BatchSize \in Nat \ {0} /\ PollInterval \in Nat \ {0} /\ MaxRequest \in Nat
    /\ StartHour \in 0..23 /\ EndHour \in 0..23
    /\ StartTime \in Nat /\ Horizon \in Nat /\ MaxFaults \in Nat
    /\ CreatedAt \in [Leads -> Nat] /\ UtcOffset \in [Leads -> Int]
    /\ FailedBefore \in [Leads -> Nat]
    /\ IsFiniteSet(Leads) /\ NoLead \notin Leads

VARIABLES
    now,         \* the clock
    worker,      \* where the process is
    deadline,    \* when its sleep ends, or its request ends at the latest
    batch,       \* dialable leads not dispatched yet
    current,     \* the lead being dispatched
    status,      \* leads.status
    retryCount,  \* leads.retry_count
    nextRetry,   \* leads.next_retry_at; 0 when NULL
    faults,      \* failures so far
    checkedAt,   \* history: when the calling hours of the batch were checked
    failedAt,    \* history: when the last failed dial of a lead was recorded
    lastDial     \* history: the last dial of this process

vars == <<now, worker, deadline, batch, current, status, retryCount, nextRetry, faults,
          checkedAt, failedAt, lastDial>>
rows == <<status, retryCount, nextRetry>>

Requesting == {"create_room", "create_sip", "dialed"}
Sleeping == {"pause", "sleep"}
WorkerPoints == {"off", "poll", "next"} \cup Requesting \cup Sleeping

NoDial == [lead |-> NoLead, at |-> 0, checked |-> 0]

TypeOK ==
    /\ now \in Nat
    /\ worker \in WorkerPoints
    /\ deadline \in Nat
    /\ batch \subseteq Leads /\ Cardinality(batch) <= BatchSize
    /\ current \in Leads \cup {NoLead}
    /\ status \in [Leads -> {"PENDING", "CALLING"}]
    /\ retryCount \in [Leads -> Nat]
    /\ nextRetry \in [Leads -> Nat]
    /\ faults \in 0..MaxFaults
    /\ checkedAt \in Nat
    /\ failedAt \in [Leads -> Nat]
    /\ lastDial \in [lead : Leads \cup {NoLead}, at : Nat, checked : Nat]

Init ==
    /\ now = StartTime
    /\ worker = "off" /\ deadline = 0
    /\ batch = {} /\ current = NoLead
    /\ status = [l \in Leads |-> "PENDING"]
    /\ retryCount = FailedBefore
    /\ nextRetry = [l \in Leads |-> 0]
    /\ faults = 0
    /\ checkedAt = 0
    /\ failedAt = [l \in Leads |-> 0]
    /\ lastDial = NoDial

-----------------------------------------------------------------------------
(* get_local_time(tz).hour at the time t.                                   *)
LocalHour(l, t) == ((t + UtcOffset[l]) \div 3600) % 24

\* Mutant: the closing hour still counts.
WithinHoursClosing(l, t) == LocalHour(l, t) \in StartHour..EndHour

\* is_within_calling_hours: the range does not wrap around midnight.
WithinHours(l, t) == StartHour <= LocalHour(l, t) /\ LocalHour(l, t) < EndHour

\* Mutant: the backoff of the failure before.
BackoffOfPrevious(n) == IF n <= 1 THEN 1 ELSE IF n <= 6 THEN <<2, 4, 8, 16, 32>>[n - 1] ELSE 60

\* min(2 ** retry_count, 60), which is only computed after an increment.
Backoff(n) == IF n \in 1..5 THEN <<2, 4, 8, 16, 32>>[n] ELSE 60

\* The query of _fetch_pending_leads: its WHERE, ORDER BY and LIMIT.
Due == {l \in Leads : status[l] = "PENDING" /\ nextRetry[l] <= now}
\* Mutant: the query has no LIMIT.
IsFetchUnlimited(ls) == ls = Due

IsFetch(ls) ==
    /\ ls \subseteq Due
    /\ \A l \in ls, m \in Due \ ls : CreatedAt[l] <= CreatedAt[m]
    /\ Cardinality(ls) <= BatchSize
    /\ Cardinality(ls) < BatchSize => ls = Due

Faults(n) == faults + n <= MaxFaults /\ faults' = faults + n

-----------------------------------------------------------------------------
\* docker starts the process.
StartWorker ==
    /\ worker = "off"
    /\ worker' = "poll"
    /\ lastDial' = NoDial
    /\ UNCHANGED <<now, deadline, batch, current, rows, faults, checkedAt, failedAt>>

\* dial_batch: the fetch, and the hour of every fetched lead.
FetchBatch(ls) ==
    /\ worker = "poll"
    /\ IsFetch(ls)
    /\ batch' = {l \in ls : WithinHours(l, now)}
    /\ worker' = "next"
    /\ checkedAt' = now
    /\ UNCHANGED <<now, deadline, current, rows, faults, failedAt, lastDial>>

(* await asyncio.sleep(seconds), and the dispatch is over.                  *)
Sleep(point, seconds) ==
    /\ worker' = point
    /\ deadline' = now + seconds
    /\ current' = NoLead

\* The loop takes the next lead.  One that is refused costs a pause as well.
NextLead(l) ==
    /\ worker = "next"
    /\ l \in batch
    /\ \A m \in batch : CreatedAt[l] <= CreatedAt[m]
    /\ batch' = batch \ {l}
    /\ IF l \in Refused
       THEN Sleep("pause", 1)
       ELSE worker' = "create_room" /\ deadline' = now + MaxRequest /\ current' = l
    /\ UNCHANGED <<now, rows, faults, checkedAt, failedAt, lastDial>>

\* run() sleeps between the batches.
BatchEnds ==
    /\ worker = "next" /\ batch = {}
    /\ Sleep("sleep", PollInterval)
    /\ UNCHANGED <<now, batch, rows, faults, checkedAt, failedAt, lastDial>>

Wakes ==
    /\ worker \in Sleeping
    /\ now = deadline
    /\ worker' = IF worker = "pause" THEN "next" ELSE "poll"
    /\ UNCHANGED <<now, deadline, batch, current, rows, faults, checkedAt, failedAt, lastDial>>

\* create_room returns, and create_sip_participant is called.
RoomCreated ==
    /\ worker = "create_room"
    /\ worker' = "create_sip"
    /\ deadline' = now + MaxRequest
    /\ UNCHANGED <<now, batch, current, rows, faults, checkedAt, failedAt, lastDial>>

\* The dial reaches the network.
DialPlaced ==
    /\ worker = "create_sip"
    /\ worker' = "dialed"
    /\ lastDial' = [lead |-> current, at |-> now, checked |-> checkedAt]
    /\ UNCHANGED <<now, deadline, batch, current, rows, faults, checkedAt, failedAt>>

\* Mutant: no pause after a dial.
DialAnsweredUnpaced ==
    /\ worker = "dialed"
    /\ status' = [status EXCEPT ![current] = "CALLING"]
    /\ Sleep("pause", 0)
    /\ UNCHANGED <<now, batch, retryCount, nextRetry, faults, checkedAt, failedAt, lastDial>>

\* The answer comes, the lead is CALLING, and dial_batch pauses.
DialAnswered ==
    /\ worker = "dialed"
    /\ status' = [status EXCEPT ![current] = "CALLING"]
    /\ Sleep("pause", 1)
    /\ UNCHANGED <<now, batch, retryCount, nextRetry, faults, checkedAt, failedAt, lastDial>>

\* One of the two requests raises, before the dial or after it:
\* _handle_dialer_error, and the pause.
RequestFails ==
    /\ worker \in Requesting
    /\ Faults(1)
    /\ retryCount' = [retryCount EXCEPT ![current] = @ + 1]
    /\ nextRetry' = [nextRetry EXCEPT ![current] = now + Backoff(retryCount[current] + 1)]
    /\ failedAt' = [failedAt EXCEPT ![current] = now]
    /\ Sleep("pause", 1)
    /\ UNCHANGED <<now, batch, status, checkedAt, lastDial>>

\* The database fails instead of recording the answer, or the failure of a
\* request: the exception skips the pause, and every later lead of the batch
\* fails in session.get at once, before it is dialed.
CommitFails ==
    /\ worker \in Requesting
    /\ Faults(IF worker = "dialed" THEN 1 ELSE 2)
    /\ Sleep("sleep", PollInterval)
    /\ batch' = {}
    /\ UNCHANGED <<now, rows, checkedAt, failedAt, lastDial>>

\* session.get raises: no dial, and no pause either.  The batch goes on, or
\* the session is broken and the later leads fail in the same way.
SessionGetFails(l) ==
    /\ worker = "next"
    /\ l \in batch
    /\ \A m \in batch : CreatedAt[l] <= CreatedAt[m]
    /\ Faults(1)
    /\ batch' = batch \ {l} \/ batch' = {}
    /\ UNCHANGED <<now, worker, deadline, current, rows, checkedAt, failedAt, lastDial>>

\* The process dies.
WorkerCrashes ==
    /\ worker # "off"
    /\ Faults(1)
    /\ worker' = "off" /\ batch' = {} /\ current' = NoLead
    /\ UNCHANGED <<now, deadline, rows, checkedAt, failedAt, lastDial>>

\* A second passes while the process sleeps, waits or does not run.
Tick ==
    /\ now < Horizon
    /\ worker = "off" \/ (worker \in Requesting \cup Sleeping /\ now < deadline)
    /\ now' = now + 1
    /\ UNCHANGED <<worker, deadline, batch, current, rows, faults, checkedAt, failedAt, lastDial>>

Next ==
    \/ StartWorker \/ BatchEnds \/ Wakes \/ RoomCreated \/ DialPlaced \/ DialAnswered
    \/ RequestFails \/ CommitFails \/ WorkerCrashes \/ Tick
    \/ \E ls \in SUBSET Leads : FetchBatch(ls)
    \/ \E l \in Leads : NextLead(l) \/ SessionGetFails(l)

Spec == Init /\ [][Next]_vars

-----------------------------------------------------------------------------
(* What one dispatch can take: two requests and the pause.                  *)
Slot == 2 * MaxRequest + 1

\* Two dials of one process are at least a second apart: whatever fails in
\* between, no path through dial_batch and run() dials without a pause.
DialsPaced ==
    [][lastDial' # lastDial /\ lastDial # NoDial /\ lastDial' # NoDial
          => lastDial'.at >= lastDial.at + 1]_vars

\* The calling hours are checked once per batch, so a lead may be dialed
\* after its closing hour; but it was inside its hours not more than a batch
\* of dispatches before, and never in a batch of an earlier poll.
DialedSoonAfterHours ==
    lastDial # NoDial =>
        /\ (lastDial.checked + UtcOffset[lastDial.lead]) % 86400
              \in (3600 * StartHour)..(3600 * EndHour - 1)
        /\ lastDial.at < lastDial.checked + BatchSize * Slot

\* A lead whose dial failed, and whose failure was recorded, is not dialed
\* again before min(2 ** n, 60) seconds have passed since the nth failure.
BackoffRespected ==
    [][lastDial' # lastDial /\ lastDial' # NoDial =>
          LET l == lastDial'.lead IN
          retryCount[l] > FailedBefore[l] =>
              now >= failedAt[l] + (IF retryCount[l] >= 6 THEN 60 ELSE 2 ^ retryCount[l])]_vars
=============================================================================
