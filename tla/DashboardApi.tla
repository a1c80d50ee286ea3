----------------------------- MODULE DashboardApi -----------------------------
(***************************************************************************)
(* The writing routes of the dashboard API (app/dashboard_api): campaigns   *)
(* are created, leads are uploaded from a CSV file and assigned.  Each      *)
(* route runs in one transaction.  Campaign.status is left out: no code     *)
(* ever reads it to decide anything.                                        *)
(***************************************************************************)
EXTENDS AgentOperations

\* POST /campaigns.
CreateCampaign(k) ==
    /\ k \notin campaigns
    /\ campaigns' = campaigns \cup {k}
    /\ UNCHANGED <<leadVars, dnc, calls, transcripts, faults>>

\* POST /leads/upload: every row of the file becomes a PENDING lead, its
\* number and timezone unchecked and nothing deduplicated.
UploadLeads(t, k) ==
    LET file == {l \in Leads : CreatedAt[l] = t} IN
    /\ \A l \in Leads : (status[l] = "ABSENT") <=> (CreatedAt[l] >= t)
    /\ k \in campaigns \cup {NoCampaign}
    /\ status' = [l \in Leads |-> IF l \in file THEN "PENDING" ELSE status[l]]
    /\ campaignId' = [l \in Leads |-> IF l \in file THEN k ELSE campaignId[l]]
    /\ UNCHANGED <<retryCount, waiting, campaigns, dnc, calls, transcripts, faults>>

\* POST /leads/assign: the leads of the request that exist move to the
\* campaign, whatever their status.
AssignLeads(ls, k) ==
    /\ k \in campaigns
    /\ campaignId' = [l \in Leads |->
                         IF l \in ls /\ status[l] # "ABSENT" THEN k ELSE campaignId[l]]
    /\ UNCHANGED <<status, retryCount, waiting, campaigns, dnc, calls, transcripts, faults>>

DashboardNext ==
    \/ \E k \in Campaigns : CreateCampaign(k)
    \/ \E l \in Leads, k \in Campaigns \cup {NoCampaign} : UploadLeads(CreatedAt[l], k)
    \/ \E ls \in SUBSET Leads, k \in Campaigns : ls # {} /\ AssignLeads(ls, k)
=============================================================================
