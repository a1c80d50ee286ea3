--------------------------- MODULE AgentOperations ---------------------------
(***************************************************************************)
(* The PostgreSQL schema agent_operations every process of the system      *)
(* writes, and the service functions those processes share.  A table is a  *)
(* function of its keys: one variable per column of leads that some code   *)
(* updates, one record per row of call_logs and call_transcripts.  Rows    *)
(* are never deleted by any code.                                          *)
(***************************************************************************)
EXTENDS Naturals, FiniteSets

CONSTANTS
    Leads,       \* ids of the rows leads may ever hold
    Phones,      \* phone numbers
    PhoneOf,     \* the number of a lead: set at upload, never updated, not unique
    CreatedAt,   \* creation time of a lead: the rows of one upload share it
    Campaigns,   \* ids of campaigns
    CallIds,     \* fresh ids of call_logs rows (uuid4): a bound on their number
    MaxFaults,   \* how many failures of the environment one behaviour may see
    NoCampaign,  \* NULL in leads.campaign_id
    NoRow        \* the row does not exist

ASSUME LeadsAssumption ==
    /\ PhoneOf \in [Leads -> Phones]
    /\ CreatedAt \in [Leads -> Nat]
    /\ MaxFaults \in Nat
    /\ NoCampaign \notin Campaigns

ContactStatus == {"ABSENT", "PENDING", "CALLING", "COMPLETED", "FAILED", "FAILED_DNC"}

\* A row of call_logs.  Its retell_call_id is always "call-<lead id>".
CallRow == [lead : Leads, status : {"PENDING", "CALLING"}, started : BOOLEAN, ended : BOOLEAN]

\* What the callee said, as far as anything depends on it: whether
\* dnc_keywords.scan finds one of its phrases.
Texts == {"plain", "opt_out"}

\* structured_data: NULL, an ExtractionResult (without or with its
\* dnc_requested flag), or the dead-letter flag.
StructuredData == {"null", "result", "result_dnc", "failed_analysis"}

TranscriptRow == [text : Texts, data : StructuredData]

ASSUME NoRowAssumption == NoRow \notin CallRow /\ NoRow \notin TranscriptRow
                          /\ NoRow \notin CallIds

VARIABLES
    status,       \* leads.status, ABSENT before the upload
    retryCount,   \* leads.retry_count
    waiting,      \* leads.next_retry_at lies in the future
    campaignId,   \* leads.campaign_id
    campaigns,    \* rows of campaigns
    dnc,          \* dnc_registry.phone_number
    calls,        \* call_logs by id
    transcripts,  \* call_transcripts by call_id, which is unique there
    faults        \* failures of the environment so far

leadVars == <<status, retryCount, waiting, campaignId>>
tableVars == <<status, retryCount, waiting, campaignId, campaigns, dnc, calls,
               transcripts, faults>>

TablesTypeOK ==
    /\ status \in [Leads -> ContactStatus]
    /\ retryCount \in [Leads -> Nat]
    /\ waiting \in [Leads -> BOOLEAN]
    /\ campaignId \in [Leads -> Campaigns \cup {NoCampaign}]
    /\ campaigns \subseteq Campaigns
    /\ dnc \subseteq Phones
    /\ calls \in [CallIds -> CallRow \cup {NoRow}]
    /\ transcripts \in [CallIds -> TranscriptRow \cup {NoRow}]
    /\ faults \in 0..MaxFaults

TablesInit ==
    /\ status = [l \in Leads |-> "ABSENT"]
    /\ retryCount = [l \in Leads |-> 0]
    /\ waiting = [l \in Leads |-> FALSE]
    /\ campaignId = [l \in Leads |-> NoCampaign]
    /\ campaigns = {}
    /\ dnc = {}
    /\ calls = [c \in CallIds |-> NoRow]
    /\ transcripts = [c \in CallIds |-> NoRow]
    /\ faults = 0

-----------------------------------------------------------------------------
(* One more failure of a network, a process or the database.               *)
Fault == faults < MaxFaults /\ faults' = faults + 1

(* SELECT ... WHERE retell_call_id = 'call-<l>'.                            *)
RowsOf(l) == {c \in CallIds : calls[c] # NoRow /\ calls[c].lead = l}

(* result.scalar_one_or_none() over RowsOf(l): the one row, None when there *)
(* is none; it raises MultipleResultsFound on two or more.                  *)
NoneFound(l) == RowsOf(l) = {}
MultipleResultsFound(l) == \E c, d \in RowsOf(l) : c # d
OneFound(l, c) == RowsOf(l) = {c}

InsertCall(row) ==
    \E c \in CallIds : calls[c] = NoRow /\ calls' = [calls EXCEPT ![c] = row]

(* lead_service.set_lead_status: an UPDATE by id, whatever the old status.  *)
SetLeadStatus(l, s) == status' = [status EXCEPT ![l] = s]

\* Mutant: the insert replaces the row of an earlier save.
CreateTranscriptReplacing(c, text) ==
    transcripts' = [transcripts EXCEPT ![c] = [text |-> text, data |-> "null"]]

(* transcript_service.create_transcript: insert, or update the text only.   *)
CreateTranscript(c, text) ==
    transcripts' = [transcripts EXCEPT ![c] =
        IF @ = NoRow THEN [text |-> text, data |-> "null"] ELSE [@ EXCEPT !.text = text]]

\* Time passes a lead's next_retry_at.
BackoffElapses(l) ==
    /\ waiting[l]
    /\ waiting' = [waiting EXCEPT ![l] = FALSE]
    /\ UNCHANGED <<status, retryCount, campaignId, campaigns, dnc, calls, transcripts, faults>>

\* A number is put on the registry from outside (DNCSource MANUAL or
\* NATIONAL_DNC): no code under app/ does it, operators do with SQL.
RegistryImport(p) ==
    /\ p \notin dnc
    /\ dnc' = dnc \cup {p}
    /\ UNCHANGED <<leadVars, campaigns, calls, transcripts, faults>>
=============================================================================
