---------------------------- MODULE VadPipeline ----------------------------
(***************************************************************************)
(* VADPipeline (app/vad_pipeline/pipeline.py): audio frames wait in a       *)
(* bounded queue for a consumer task, which runs the detector on each and   *)
(* queues its events for a subscriber.  asyncio runs one coroutine at a     *)
(* time, and a consumer gives up the loop only when the audio queue is      *)
(* empty.  Nothing serialises the callers of start() and stop().            *)
(***************************************************************************)
EXTENDS VadStateMachine

CONSTANTS
    MaxQueueSize,   \* config.max_queue_size
    MaxFrames,      \* bound: frames pushed
    MaxTime,        \* bound: the clock of a session
    MaxSessions,    \* bound: successful calls of start()
    MaxStops        \* bound: calls of stop() that wait at the same time

ASSUME PipelineAssumption ==
    /\ MaxQueueSize \in Nat \ {0}
    /\ MaxFrames \in Nat
    /\ MaxTime \in Nat
    /\ MaxSessions \in Nat
    /\ MaxStops \in Nat

VARIABLES
    audio,      \* _audio_q
    lastEvent,  \* the event put last in _events_q, which is unbounded and loses none
    task,       \* what _task holds: "none", or a task in that condition
    orphans,    \* consumers that run and that _task does not hold
    running,    \* who holds the event loop: "none", "task" or "orphan"
    stops,      \* calls of stop() at their await
    clock,      \* monotonic time since _start_ms
    pushed,     \* history: number of frames queued
    sessions,   \* history: number of starts
    heard       \* history: frames processed since the last start

queueVars == <<audio, lastEvent, pushed>>
taskVars == <<task, orphans, stops, sessions>>
vars == <<machineVars, queueVars, taskVars, running, clock, heard>>

\* A frame on which infer raises (an odd number of bytes) is "bad".
Frames == Levels \cup {"bad"}
HeardFrame == [level : Levels, at : Nat]

TypeOK ==
    /\ MachineTypeOK
    /\ audio \in Seq(Frames) /\ Len(audio) <= MaxQueueSize
    /\ lastEvent \in VADEvent \cup {NoEvent}
    /\ task \in {"none", "live", "cancelled", "dead"}
    /\ orphans \in Nat
    /\ running \in {"none", "task", "orphan"}
    /\ stops \in 0..MaxStops
    /\ clock \in 0..MaxTime
    /\ pushed \in 0..MaxFrames
    /\ sessions \in 0..MaxSessions
    /\ heard \in Seq(HeardFrame)

Init ==
    /\ MachineInit
    /\ audio = <<>>
    /\ lastEvent = NoEvent
    /\ task = "none"
    /\ orphans = 0
    /\ running = "none"
    /\ stops = 0
    /\ clock = 0
    /\ pushed = 0
    /\ sessions = 0
    /\ heard = <<>>

-----------------------------------------------------------------------------
(* The callers.  They run between two bursts of a consumer.                 *)

\* Mutant: the queue has no maxsize.
PushAudioUnbounded(frame) ==
    /\ running = "none"
    /\ pushed < MaxFrames
    /\ audio' = Append(audio, frame)
    /\ pushed' = pushed + 1
    /\ UNCHANGED <<machineVars, lastEvent, taskVars, running, clock, heard>>

\* A full queue raises QueueFull in the caller and changes nothing.
PushAudio(frame) ==
    /\ running = "none"
    /\ pushed < MaxFrames
    /\ Len(audio) < MaxQueueSize
    /\ audio' = Append(audio, frame)
    /\ pushed' = pushed + 1
    /\ UNCHANGED <<machineVars, lastEvent, taskVars, running, clock, heard>>

SetAgentSpeaking(speaking) ==
    /\ running = "none"
    /\ agentSpeaking' = speaking
    /\ UNCHANGED <<vad, onsetStart, offsetStart, queueVars, taskVars, running, clock, heard>>

\* The queues keep what a former session left in them.
Start ==
    /\ running = "none"
    /\ task = "none"
    /\ sessions < MaxSessions
    /\ Reset
    /\ clock' = 0
    /\ task' = "live"
    /\ sessions' = sessions + 1
    /\ heard' = <<>>
    /\ UNCHANGED <<queueVars, orphans, running, stops>>

\* cancel() reaches the task where it waits for audio: it processes no more.
StopBegins ==
    /\ running = "none"
    /\ task # "none"
    /\ stops < MaxStops
    /\ task' = IF task = "live" THEN "cancelled" ELSE task
    /\ stops' = stops + 1
    /\ UNCHANGED <<machineVars, queueVars, orphans, sessions, running, clock, heard>>

\* gather returns.  The task in _task may be a later one than the task awaited.
StopEnds ==
    /\ running = "none"
    /\ stops > 0
    /\ stops' = stops - 1
    /\ task' = "none"
    /\ orphans' = IF task = "live" THEN orphans + 1 ELSE orphans
    /\ UNCHANGED <<machineVars, queueVars, sessions, running, clock, heard>>

-----------------------------------------------------------------------------
(* The consumers.                                                           *)

\* Consumer c, in its burst or woken for one, takes the next frame.
Takes(c) ==
    /\ running \in {"none", c}
    /\ CASE c = "task"   -> task = "live"
         [] c = "orphan" -> orphans > 0
    /\ audio # <<>>
    /\ audio' = Tail(audio)

RunFrame(c) ==
    /\ Takes(c)
    /\ \E level \in Levels, event \in VADEvent \cup {NoEvent} :
        /\ level = Head(audio)
        /\ Process(level, clock, event)
        /\ lastEvent' = IF event = NoEvent THEN lastEvent ELSE event
        /\ heard' = Append(heard, [level |-> level, at |-> clock])
    /\ running' = IF Tail(audio) = <<>> THEN "none" ELSE c
    /\ UNCHANGED <<pushed, taskVars, clock>>

\* The exception ends the task.  _task still holds it.
RunRaises(c) ==
    /\ Takes(c)
    /\ Head(audio) = "bad"
    /\ task' = IF c = "task" THEN "dead" ELSE task
    /\ orphans' = IF c = "orphan" THEN orphans - 1 ELSE orphans
    /\ running' = "none"
    /\ UNCHANGED <<machineVars, lastEvent, pushed, stops, sessions, clock, heard>>

Tick ==
    /\ clock < MaxTime
    /\ clock' = clock + 1
    /\ UNCHANGED <<machineVars, queueVars, taskVars, running, heard>>

Next ==
    \/ \E frame \in Frames : PushAudio(frame)
    \/ \E speaking \in BOOLEAN : SetAgentSpeaking(speaking)
    \/ Start
    \/ StopBegins
    \/ StopEnds
    \/ \E c \in {"task", "orphan"} : RunFrame(c) \/ RunRaises(c)
    \/ Tick

Spec == Init /\ [][Next]_vars

-----------------------------------------------------------------------------
\* The machine takes the caller to be talking exactly when the frames of the session
\* say so: speech lasted for the onset duration, and since then no silence began that
\* lasted for the offset duration (state_machine.py, whatever stops, restarts,
\* crashes and stray consumers do around it).
TurnsAsHeard == (vad \in {"speaking", "stopping"}) <=> Talking(heard)

\* What a subscriber knows once it has read every event.
Told == IF lastEvent = NoEvent THEN "quiet" ELSE lastEvent.new

\* The events tell the subscriber the state of the machine.  start() resets the machine
\* without an event, so they may be wrong after it, but only until somebody speaks.
SubscriberCatchesUp ==
    Told # vad =>
        /\ vad = "quiet"
        /\ \A i \in DOMAIN heard : heard[i].level # "speech"
=============================================================================
