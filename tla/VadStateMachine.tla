--------------------------- MODULE VadStateMachine ---------------------------
(***************************************************************************)
(* The voice activity detector (app/vad_pipeline/state_machine.py): four    *)
(* states, moved by the probability of speech of one audio frame and the    *)
(* time at which the frame is processed.  A probability is reduced to what  *)
(* the two thresholds tell apart.                                           *)
(***************************************************************************)
EXTENDS Integers, Sequences

CONSTANTS
    OnsetDuration,   \* config.onset_duration_ms
    OffsetDuration   \* config.offset_duration_ms

ASSUME DurationsAssumption ==
    /\ OnsetDuration \in Nat
    /\ OffsetDuration \in Nat

VARIABLES
    vad,             \* _state
    onsetStart,      \* _onset_start_ms
    offsetStart,     \* _offset_start_ms
    agentSpeaking    \* _agent_speaking

machineVars == <<vad, onsetStart, offsetStart, agentSpeaking>>

VADState == {"quiet", "starting", "speaking", "stopping"}

\* Below offset_threshold, between the two, from onset_threshold on.
Levels == {"silence", "between", "speech"}

VADEvent == [new : VADState, interrupted : BOOLEAN]
NoEvent == [none |-> TRUE]

MachineTypeOK ==
    /\ vad \in VADState
    /\ onsetStart \in Nat
    /\ offsetStart \in Nat
    /\ agentSpeaking \in BOOLEAN

MachineInit ==
    /\ vad = "quiet"
    /\ onsetStart = 0
    /\ offsetStart = 0
    /\ agentSpeaking = FALSE

Reset ==
    /\ vad' = "quiet"
    /\ onsetStart' = 0
    /\ offsetStart' = 0
    /\ agentSpeaking' = FALSE

-----------------------------------------------------------------------------
(* process(level, t) returns event.  One action per branch.                 *)

Moves(state, interrupted, event) ==
    /\ vad' = state
    /\ event = [new |-> state, interrupted |-> interrupted]

\* Mutant: an onset counts from the first one of the session.
OnsetBeginsOnce(level, t, event) ==
    /\ vad = "quiet" /\ level = "speech"
    /\ onsetStart' = IF onsetStart = 0 THEN t ELSE onsetStart
    /\ Moves("starting", agentSpeaking, event)
    /\ UNCHANGED offsetStart

OnsetBegins(level, t, event) ==
    /\ vad = "quiet" /\ level = "speech"
    /\ onsetStart' = t
    /\ Moves("starting", agentSpeaking, event)
    /\ UNCHANGED offsetStart

OnsetConfirmed(level, t, event) ==
    /\ vad = "starting" /\ level = "speech"
    /\ t - onsetStart >= OnsetDuration
    /\ Moves("speaking", FALSE, event)
    /\ UNCHANGED <<onsetStart, offsetStart>>

\* Mutant: only confirmed speech ends with an event.
FalseStartUntold(level, event) ==
    /\ vad = "starting" /\ level # "speech"
    /\ vad' = "quiet"
    /\ event = NoEvent
    /\ UNCHANGED <<onsetStart, offsetStart>>

FalseStart(level, event) ==
    /\ vad = "starting" /\ level # "speech"
    /\ Moves("quiet", FALSE, event)
    /\ UNCHANGED <<onsetStart, offsetStart>>

OffsetBegins(level, t, event) ==
    /\ vad = "speaking" /\ level = "silence"
    /\ offsetStart' = t
    /\ Moves("stopping", FALSE, event)
    /\ UNCHANGED onsetStart

SpeechResumes(level, event) ==
    /\ vad = "stopping" /\ level = "speech"
    /\ Moves("speaking", FALSE, event)
    /\ UNCHANGED <<onsetStart, offsetStart>>

OffsetConfirmed(level, t, event) ==
    /\ vad = "stopping" /\ level # "speech"
    /\ t - offsetStart >= OffsetDuration
    /\ Moves("quiet", FALSE, event)
    /\ UNCHANGED <<onsetStart, offsetStart>>

Remains(level, t, event) ==
    /\ \/ vad = "quiet" /\ level # "speech"
       \/ vad = "starting" /\ level = "speech" /\ t - onsetStart < OnsetDuration
       \/ vad = "speaking" /\ level # "silence"
       \/ vad = "stopping" /\ level # "speech" /\ t - offsetStart < OffsetDuration
    /\ event = NoEvent
    /\ UNCHANGED <<vad, onsetStart, offsetStart>>

Process(level, t, event) ==
    /\ \/ OnsetBegins(level, t, event)
       \/ OnsetConfirmed(level, t, event)
       \/ FalseStart(level, event)
       \/ OffsetBegins(level, t, event)
       \/ SpeechResumes(level, event)
       \/ OffsetConfirmed(level, t, event)
       \/ Remains(level, t, event)
    /\ UNCHANGED agentSpeaking

-----------------------------------------------------------------------------
(* What the machine should have understood of a session, told from the      *)
(* frames alone: h[i] is the i-th frame, with its level and its time.       *)

\* Up to frame j, at least two frames are speech for the onset duration.
SpeechLasts(h, j) ==
    \E i \in 1..(j - 1) :
        /\ \A x \in i..j : h[x].level = "speech"
        /\ h[j].at - h[i].at >= OnsetDuration

\* Frame k is silent and up to m no speech comes back, for the offset duration.
SilenceLasts(h, k, m) ==
    /\ k < m
    /\ h[k].level = "silence"
    /\ \A x \in k..m : h[x].level # "speech"
    /\ h[m].at - h[k].at >= OffsetDuration

\* Speech has ended after frame j.
EndedAfter(h, j) == \E m \in 1..Len(h) : \E k \in (j + 1)..m : SilenceLasts(h, k, m)

\* Speech lasted, and has not ended since.
Talking(h) == \E j \in 1..Len(h) : SpeechLasts(h, j) /\ ~ EndedAfter(h, j)
=============================================================================
