------------------------------ MODULE LivekitAgent ------------------------------
(***************************************************************************)
(* The LiveKit agent (app/livekit_agent/agent.py): a job per room, which    *)
(* talks until the session is inactive and then saves the transcript under  *)
(* the call row it finds for the room, in one transaction.                  *)
(***************************************************************************)
EXTENDS LiveKit

\* wait_for_inactive returns, and format_transcript renders the history.
\* Only a callee who joined can have asked not to be called.
SessionEnds(s, text) ==
    /\ s \in sessions /\ s.pc = "talking"
    /\ text = "opt_out" => answered[s.lead]
    /\ sessions' = (sessions \ {s}) \cup {[s EXCEPT !.pc = "saving", !.text = text]}
    /\ UNCHANGED <<room, leg, answered, hooks, sending, tableVars>>

JobEnds(s) == sessions' = sessions \ {s} /\ UNCHANGED <<room, leg, answered, hooks, sending>>

\* _save_transcript: its SELECT finds the one row of the room.
FindsCallToSave(s, c) ==
    /\ s \in sessions /\ s.pc = "saving"
    /\ OneFound(s.lead, c)
    /\ sessions' = (sessions \ {s}) \cup {[s EXCEPT !.pc = "writing", !.call = c]}
    /\ UNCHANGED <<room, leg, answered, hooks, sending, tableVars>>

\* The rest of its transaction.  The SELECT of create_transcript first flushes
\* end_time, which locks the call row until the commit: of two jobs that found
\* the same row the second selects when the first has committed, and updates.
SaveTranscript(s) ==
    /\ s \in sessions /\ s.pc = "writing"
    /\ calls' = [calls EXCEPT ![s.call].ended = TRUE]
    /\ CreateTranscript(s.call, s.text)
    /\ JobEnds(s)
    /\ UNCHANGED <<leadVars, campaigns, dnc, faults>>

\* No row: a warning.  Several rows: scalar_one_or_none raises and the job
\* ends.  Either way the transcript is lost.
TranscriptDropped(s) ==
    /\ s \in sessions /\ s.pc = "saving"
    /\ NoneFound(s.lead) \/ MultipleResultsFound(s.lead)
    /\ JobEnds(s)
    /\ UNCHANGED tableVars

\* The job's process dies or the database fails the transaction.
SessionCrashes(s) ==
    /\ s \in sessions
    /\ Fault
    /\ JobEnds(s)
    /\ UNCHANGED <<leadVars, campaigns, dnc, calls, transcripts>>

Saving(s) ==
    \/ TranscriptDropped(s) \/ (\E c \in CallIds : FindsCallToSave(s, c)) \/ SaveTranscript(s)
AgentNext ==
    \E s \in sessions :
        \/ \E text \in Texts : SessionEnds(s, text)
        \/ Saving(s)
        \/ SessionCrashes(s)
=============================================================================
