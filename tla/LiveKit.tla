-------------------------------- MODULE LiveKit --------------------------------
(***************************************************************************)
(* The LiveKit server as the code under app/ uses it: rooms named after     *)
(* leads, one SIP leg per room, the webhooks it sends about a room in the   *)
(* order of the room's events, and the agent jobs it dispatches.            *)
(***************************************************************************)
EXTENDS AgentOperations, Sequences

Events == {"room_started", "participant_joined", "room_finished"}

\* A webhook: meta says whether the room's metadata names the lead.
Hook == [event : Events, meta : BOOLEAN]

\* An agent job: it talks in the room, then has its transcript to save, and
\* then to write under the call row it found.  Jobs of one lead that are
\* alike, left over from an earlier room, count once.
Session == [lead : Leads, pc : {"talking", "saving", "writing"}, text : Texts,
            call : CallIds \cup {NoRow}]

VARIABLES
    room,      \* "none", "open", or "bare": opened by a SIP leg, without metadata
    leg,       \* the SIP leg of the room: "none", "ringing", "joined"
    answered,  \* the callee has spoken in the room since it was opened
    hooks,     \* webhooks of a room not yet acknowledged, oldest first
    sending,   \* the oldest one is being delivered
    sessions   \* agent jobs

livekitVars == <<room, leg, answered, hooks, sending, sessions>>

LiveKitTypeOK ==
    /\ room \in [Leads -> {"none", "open", "bare"}]
    /\ leg \in [Leads -> {"none", "ringing", "joined"}]
    /\ answered \in [Leads -> BOOLEAN]
    /\ hooks \in [Leads -> Seq(Hook)]
    /\ sending \in [Leads -> BOOLEAN]
    /\ sessions \subseteq Session

LiveKitInit ==
    /\ room = [l \in Leads |-> "none"]
    /\ leg = [l \in Leads |-> "none"]
    /\ answered = [l \in Leads |-> FALSE]
    /\ hooks = [l \in Leads |-> <<>>]
    /\ sending = [l \in Leads |-> FALSE]
    /\ sessions = {}

-----------------------------------------------------------------------------
Emit(l, event) ==
    hooks' = [hooks EXCEPT ![l] = Append(@, [event |-> event, meta |-> room'[l] = "open"])]

(* The room is created unless it exists, and then an agent is dispatched.   *)
OpenRoom(l, kind) ==
    IF room[l] = "none"
    THEN /\ room' = [room EXCEPT ![l] = kind]
         /\ answered' = [answered EXCEPT ![l] = FALSE]
         /\ Emit(l, "room_started")
         /\ sessions' = sessions \cup
               {[lead |-> l, pc |-> "talking", text |-> "plain", call |-> NoRow]}
         /\ UNCHANGED sending
    ELSE UNCHANGED <<room, answered, hooks, sending, sessions>>

(* What CreateRoom and CreateSIPParticipant do on the server.  The SIP      *)
(* service opens a room that is gone; a second leg has the identity of the  *)
(* first and replaces it.                                                   *)
CreateRoom(l) == OpenRoom(l, "open") /\ UNCHANGED leg
CreateSipParticipant(l) ==
    /\ OpenRoom(l, "bare")
    /\ leg' = [leg EXCEPT ![l] = "ringing"]

-----------------------------------------------------------------------------
SipJoins(l) ==
    /\ leg[l] = "ringing"
    /\ leg' = [leg EXCEPT ![l] = "joined"]
    /\ answered' = [answered EXCEPT ![l] = TRUE]
    /\ hooks' = [hooks EXCEPT ![l] =
          Append(@, [event |-> "participant_joined", meta |-> room[l] = "open"])]
    /\ UNCHANGED <<room, sending, sessions>>

\* The callee hangs up, or never answers.
SipLeaves(l) ==
    /\ leg[l] # "none"
    /\ leg' = [leg EXCEPT ![l] = "none"]
    /\ UNCHANGED <<room, answered, hooks, sending, sessions>>

\* A room without a SIP leg closes after a while: agents do not keep it open.
RoomCloses(l) ==
    /\ room[l] # "none" /\ leg[l] = "none"
    /\ room' = [room EXCEPT ![l] = "none"]
    /\ hooks' = [hooks EXCEPT ![l] =
          Append(@, [event |-> "room_finished", meta |-> room[l] = "open"])]
    /\ UNCHANGED <<leg, answered, sending, sessions>>
=============================================================================
