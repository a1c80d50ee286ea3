---------------------------- MODULE DocumentedClaims ----------------------------
(***************************************************************************)
(* Claims the documents of the repository make about a call's life that the *)
(* code does not keep.  Each one is the property of a run that TLC refutes. *)
(***************************************************************************)
EXTENDS CallLifecycle

\* The receiver's design has upsert leave one row per call whether or not the
\* worker pre-created it.  Both insert: whoever does not see the other's row
\* makes a second one, and scalar_one_or_none raises from then on.
OneRowPerRoom == \A l \in Leads : ~MultipleResultsFound(l)

\* The analysis design has the transcript persisted before the job runs.  The
\* job is enqueued by room_finished, which does not wait for the agent.
TranscriptPersistedBeforeJob == \A j \in jobs : transcripts[j.call] # NoRow

\* The dialer's error matrix skips a lead with an invalid timezone.  The
\* exception ends the process instead, and after each restart again, for every
\* lead fetched with it.
InvalidTimezoneSkipped ==
    \A l \in Leads \ (BadTimezone \cup Undialable) :
        ((status[l] = "PENDING" /\ \A m \in Leads : campaignId[m] \in campaigns)
            ~> (status[l] # "PENDING" \/ PhoneOf[l] \in dnc))

\* The receiver's design has replay protection prevent duplicate lead status
\* transitions.  There is none: the room_finished of a call that is sent again
\* after the analysis makes a COMPLETED lead out of one that opted out.
StatusNotReplayed ==
    [][\A l \in Leads : status[l] = "FAILED_DNC" => status'[l] # "COMPLETED"]_vars
=============================================================================
