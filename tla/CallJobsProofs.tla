---------------------------- MODULE CallJobsProofs ----------------------------
(***************************************************************************)
(* OneMoreJobPerFault of CallLifecycle: an account of everything that can   *)
(* still become an analysis job of a lead's calls.                          *)
(***************************************************************************)
EXTENDS CallSafetyProofs, FiniteSetTheorems

\* The webhooks among s that end a call: each becomes at most one job, unless
\* its answer is lost.
EndsIn(s) == Cardinality({i \in 1..Len(s) : s[i].event = "room_finished"})

\* A handler that may still enqueue a job although LiveKit's copy of the
\* webhook is gone, or will be sent again.
IsLate(r, l) == r.lead = l /\ r.event = "room_finished" /\ ~r.awaited
LateIn(rs, l) == Cardinality({r \in rs : IsLate(r, l)})

\* The worker may open a room for the lead: it may be dispatched, or it is
\* being dispatched and its room has gone again.
MayOpen(l) ==
    \/ /\ status[l] \in {"ABSENT", "PENDING"}
       /\ ~(current = l /\ worker \in {"create_sip", "merge", "commit"})
    \/ l \in batch
    \/ current = l /\ worker \in {"create_room", "retry_merge", "retry_commit"}
    \/ current = l /\ worker = "create_sip" /\ room[l] = "none"

\* What can still become jobs: a dispatch to come, an open room, the ends on
\* their way, and the handlers nobody waits for.
Pending(l) ==
    (IF MayOpen(l) THEN 1 ELSE 0) + (IF room[l] = "none" THEN 0 ELSE 1)
        + EndsIn(hooks[l]) + LateIn(requests, l)

Given(l, c) == IF calls[c] # NoRow /\ calls[c].lead = l THEN enqueued[c] ELSE 0

\* A handler that is awaited handles the oldest webhook of its room, and only
\* an end is enqueued.
Tracked(r) ==
    /\ r.awaited => Head(hooks[r.lead]).event = r.event
    /\ r.pc = "enqueue" => r.event = "room_finished"

\* OneMoreJobPerFault with what makes it inductive: what was given and what is
\* pending never exceed one job and one more per failure.  A handler that is
\* awaited is counted by the webhook it handles.
JobInv ==
    /\ IsFiniteSet(requests)
    /\ \A r \in requests : Tracked(r)
    /\ \A c \in CallIds : calls[c] = NoRow => enqueued[c] = 0
    /\ \A l \in Leads, c \in CallIds : Pending(l) + Given(l, c) <= 1 + faults

(***************************************************************************)
(* Counting webhooks and handlers.                                          *)
(***************************************************************************)
LEMMA EndsFinite ==
    ASSUME NEW s \in Seq(Hook)
    PROVE  /\ IsFiniteSet({i \in 1..Len(s) : s[i].event = "room_finished"})
           /\ EndsIn(s) \in Nat
<1>1. IsFiniteSet(1..Len(s))
  BY FS_Interval
<1>2. {i \in 1..Len(s) : s[i].event = "room_finished"} \in SUBSET (1..Len(s))
  OBVIOUS
<1> QED BY <1>1, <1>2, FS_Subset, FS_CardinalityType DEF EndsIn

LEMMA EndsOfEmpty == EndsIn(<<>>) = 0
<1>1. {i \in 1..Len(<<>>) : <<>>[i].event = "room_finished"} = {}
  OBVIOUS
<1> QED BY <1>1, FS_EmptySet DEF EndsIn

LEMMA EndsOfAppend ==
    ASSUME NEW s \in Seq(Hook), NEW h \in Hook
    PROVE  EndsIn(Append(s, h)) = EndsIn(s) + (IF h.event = "room_finished" THEN 1 ELSE 0)
<1> DEFINE before == {i \in 1..Len(s) : s[i].event = "room_finished"}
           after == {i \in 1..Len(Append(s, h)) : Append(s, h)[i].event = "room_finished"}
<1>1. Len(Append(s, h)) = Len(s) + 1 /\ Len(s) \in Nat
  OBVIOUS
<1>2. \A i \in 1..Len(Append(s, h)) : Append(s, h)[i] = IF i = Len(s) + 1 THEN h ELSE s[i]
  OBVIOUS
<1>3. after = IF h.event = "room_finished" THEN before \cup {Len(s) + 1} ELSE before
  BY <1>1, <1>2
<1>4. Len(s) + 1 \notin before
  BY <1>1
<1>5. IsFiniteSet(before) /\ EndsIn(s) = Cardinality(before) /\ EndsIn(s) \in Nat
  BY EndsFinite DEF EndsIn
<1>6. EndsIn(Append(s, h)) = Cardinality(after)
  BY DEF EndsIn
<1>7. Cardinality(before \cup {Len(s) + 1}) = Cardinality(before) + 1
  BY <1>4, <1>5, FS_AddElement
<1> HIDE DEF before, after
<1> QED BY <1>3, <1>5, <1>6, <1>7

LEMMA EndsOfTail ==
    ASSUME NEW s \in Seq(Hook), s # <<>>
    PROVE  EndsIn(Tail(s)) = EndsIn(s) - (IF Head(s).event = "room_finished" THEN 1 ELSE 0)
<1> DEFINE all == {i \in 1..Len(s) : s[i].event = "room_finished"}
           rest == {i \in 1..Len(Tail(s)) : Tail(s)[i].event = "room_finished"}
           f == [i \in rest |-> i + 1]
<1>1. Len(s) \in Nat /\ Len(s) >= 1 /\ Len(Tail(s)) = Len(s) - 1 /\ Head(s) = s[1]
  OBVIOUS
<1>2. \A i \in 1..Len(Tail(s)) : Tail(s)[i] = s[i + 1]
  OBVIOUS
<1>3. IsFiniteSet(rest) /\ EndsIn(Tail(s)) = Cardinality(rest) /\ EndsIn(Tail(s)) \in Nat
  <2>1. Tail(s) \in Seq(Hook)
    OBVIOUS
  <2> QED BY <2>1, EndsFinite DEF EndsIn
<1>4. IsFiniteSet(all) /\ EndsIn(s) = Cardinality(all) /\ EndsIn(s) \in Nat
  BY EndsFinite DEF EndsIn
<1>5. rest \subseteq Nat /\ all \subseteq Nat
  BY <1>1
<1>6. \A i \in rest : i + 1 \in all \ {1}
  BY <1>1, <1>2
<1>7. \A j \in all \ {1} : j - 1 \in rest
  <2> SUFFICES ASSUME NEW j \in all \ {1} PROVE j - 1 \in rest
    OBVIOUS
  <2>1. j \in 1..Len(s) /\ j # 1 /\ s[j].event = "room_finished"
    OBVIOUS
  <2>2. j - 1 \in 1..Len(Tail(s)) /\ (j - 1) + 1 = j
    BY <1>1, <2>1
  <2> QED BY <1>2, <2>1, <2>2
<1>8. f \in Bijection(rest, all \ {1})
  <2> HIDE DEF rest, all
  <2>1. f \in [rest -> all \ {1}]
    BY <1>6
  <2>2. \A a, b \in rest : f[a] = f[b] => a = b
    BY <1>5
  <2>3. \A j \in all \ {1} : \E i \in rest : f[i] = j
    <3> SUFFICES ASSUME NEW j \in all \ {1} PROVE \E i \in rest : f[i] = j
      OBVIOUS
    <3>1. j - 1 \in rest /\ (j - 1) + 1 = j
      BY <1>5, <1>7
    <3> QED BY <3>1
  <2> QED BY <2>1, <2>2, <2>3 DEF Bijection, Injection, Surjection, IsInjective
<1>9. Cardinality(all \ {1}) = Cardinality(rest)
  BY <1>3, <1>8, FS_Bijection DEF ExistsBijection
<1>10. 1 \in all <=> Head(s).event = "room_finished"
  BY <1>1
<1> HIDE DEF all, rest
<1>11. Cardinality(all \ {1}) = IF 1 \in all THEN Cardinality(all) - 1 ELSE Cardinality(all)
  BY <1>4, FS_RemoveElement
<1> QED BY <1>3, <1>4, <1>9, <1>10, <1>11

LEMMA LateFinite ==
    ASSUME NEW rs, NEW l, IsFiniteSet(rs)
    PROVE  IsFiniteSet({r \in rs : IsLate(r, l)}) /\ LateIn(rs, l) \in Nat
<1>1. {r \in rs : IsLate(r, l)} \in SUBSET rs
  OBVIOUS
<1> QED BY <1>1, FS_Subset, FS_CardinalityType DEF LateIn

LEMMA LateWithout ==
    ASSUME NEW rs, NEW l, NEW r \in rs, IsFiniteSet(rs)
    PROVE  LateIn(rs \ {r}, l) = LateIn(rs, l) - (IF IsLate(r, l) THEN 1 ELSE 0)
<1> DEFINE all == {q \in rs : IsLate(q, l)}
           rest == {q \in rs \ {r} : IsLate(q, l)}
<1>1. rest = all \ {r} /\ (r \in all <=> IsLate(r, l))
  OBVIOUS
<1>2. IsFiniteSet(all) /\ LateIn(rs, l) = Cardinality(all) /\ LateIn(rs, l) \in Nat
  BY LateFinite DEF LateIn
<1>3. LateIn(rs \ {r}, l) = Cardinality(rest)
  BY DEF LateIn
<1> HIDE DEF all, rest
<1>4. Cardinality(all \ {r}) = IF r \in all THEN Cardinality(all) - 1 ELSE Cardinality(all)
  BY <1>2, FS_RemoveElement
<1> QED BY <1>1, <1>2, <1>3, <1>4

LEMMA LateWith ==
    ASSUME NEW rs, NEW l, NEW r, IsFiniteSet(rs)
    PROVE  LateIn(rs \cup {r}, l) <= LateIn(rs, l) + (IF IsLate(r, l) THEN 1 ELSE 0)
<1> DEFINE old == {q \in rs : IsLate(q, l)}
           new == {q \in rs \cup {r} : IsLate(q, l)}
<1>1. new = IF IsLate(r, l) THEN old \cup {r} ELSE old
  OBVIOUS
<1>2. IsFiniteSet(old) /\ LateIn(rs, l) = Cardinality(old) /\ LateIn(rs, l) \in Nat
  BY LateFinite DEF LateIn
<1>3. LateIn(rs \cup {r}, l) = Cardinality(new)
  BY DEF LateIn
<1> HIDE DEF old, new
<1>4. Cardinality(old \cup {r}) <= Cardinality(old) + 1
  BY <1>2, FS_AddElement
<1> QED BY <1>1, <1>2, <1>3, <1>4

(***************************************************************************)
(* Steps of the rooms, and of the worker.                                   *)
(***************************************************************************)
\* No step adds more to what is pending of a lead than the failures it costs.
NoGain(l) == Pending(l)' + faults <= Pending(l) + faults'

\* What may happen to one room: nothing, or one event, with its webhook.
RoomMove(m) ==
    \/ room'[m] = room[m] /\ hooks'[m] = hooks[m]
    \/ \E h \in Hook :
          /\ hooks'[m] = Append(hooks[m], h)
          /\ \/ h.event = "room_started" /\ room[m] = "none" /\ room'[m] # "none"
             \/ h.event = "participant_joined" /\ room'[m] = room[m]
             \/ h.event = "room_finished" /\ room[m] # "none" /\ room'[m] = "none"

LEMMA ServerMoves ==
    ASSUME LiveKitTypeOK, NEW l \in Leads, CreateRoom(l) \/ CreateSipParticipant(l)
    PROVE  /\ room'[l] # "none"
           /\ \A m \in Leads : RoomMove(m) /\ (m # l => room'[m] = room[m] /\ hooks'[m] = hooks[m])
<1>1. PICK kind \in {"open", "bare"} : OpenRoom(l, kind)
  BY DEF CreateRoom, CreateSipParticipant
<1>2. CASE room[l] = "none"
  <2>1. [event |-> "room_started", meta |-> room'[l] = "open"] \in Hook
    BY DEF Hook, Events
  <2>2. room'[l] # "none" /\ \A m \in Leads \ {l} : room'[m] = room[m]
    BY <1>1, <1>2 DEF OpenRoom, LiveKitTypeOK
  <2>3. /\ hooks'[l] = Append(hooks[l], [event |-> "room_started", meta |-> room'[l] = "open"])
        /\ \A m \in Leads \ {l} : hooks'[m] = hooks[m]
    BY <1>1, <1>2 DEF OpenRoom, Emit, LiveKitTypeOK
  <2> QED BY <1>2, <2>1, <2>2, <2>3 DEF RoomMove
<1>3. CASE room[l] # "none"
  BY <1>1, <1>3 DEF OpenRoom, RoomMove
<1> QED BY <1>2, <1>3

LEMMA LiveKitMoves ==
    ASSUME LiveKitTypeOK, LiveKitNext
    PROVE  \A m \in Leads :
              /\ RoomMove(m)
              /\ room'[m] # room[m] =>
                    /\ room[m] # "none" /\ room'[m] = "none"
                    /\ worker = "create_sip" /\ current = m => Fault
<1> PICK l \in Leads : \/ SipJoins(l) \/ SipLeaves(l)
                       \/ RoomCloses(l) /\ (worker = "create_sip" /\ current = l => Fault)
  BY DEF LiveKitNext
<1>1. CASE SipJoins(l)
  <2>1. [event |-> "participant_joined", meta |-> room[l] = "open"] \in Hook
    BY DEF Hook, Events
  <2>2. room' = room /\ \A m \in Leads \ {l} : hooks'[m] = hooks[m]
    BY <1>1 DEF SipJoins, LiveKitTypeOK
  <2>3. hooks'[l] = Append(hooks[l], [event |-> "participant_joined", meta |-> room[l] = "open"])
    BY <1>1 DEF SipJoins, LiveKitTypeOK
  <2> QED BY <2>1, <2>2, <2>3 DEF RoomMove
<1>2. CASE SipLeaves(l)
  BY <1>2 DEF SipLeaves, RoomMove
<1>3. CASE RoomCloses(l) /\ (worker = "create_sip" /\ current = l => Fault)
  <2>1. [event |-> "room_finished", meta |-> room[l] = "open"] \in Hook
    BY DEF Hook, Events
  <2>2. /\ room[l] # "none" /\ room'[l] = "none"
        /\ \A m \in Leads \ {l} : room'[m] = room[m] /\ hooks'[m] = hooks[m]
    BY <1>3 DEF RoomCloses, LiveKitTypeOK
  <2>3. hooks'[l] = Append(hooks[l], [event |-> "room_finished", meta |-> room[l] = "open"])
    BY <1>3 DEF RoomCloses, LiveKitTypeOK
  <2> QED BY <1>3, <2>1, <2>2, <2>3 DEF RoomMove
<1> QED BY <1>1, <1>2, <1>3

LEMMA RoomMoveEnds ==
    ASSUME LiveKitTypeOK, NEW m \in Leads, RoomMove(m)
    PROVE  /\ EndsIn(hooks[m]) \in Nat /\ EndsIn(hooks'[m]) \in Nat
           /\ EndsIn(hooks'[m]) = EndsIn(hooks[m])
                 + (IF room[m] # "none" /\ room'[m] = "none" THEN 1 ELSE 0)
           /\ hooks[m] # <<>> => hooks'[m] # <<>> /\ Head(hooks'[m]) = Head(hooks[m])
<1>1. hooks[m] \in Seq(Hook)
  BY DEF LiveKitTypeOK
<1>2. EndsIn(hooks[m]) \in Nat
  BY <1>1, EndsFinite
<1>3. CASE room'[m] = room[m] /\ hooks'[m] = hooks[m]
  BY <1>2, <1>3
<1>4. ASSUME NEW h \in Hook, hooks'[m] = Append(hooks[m], h)
      PROVE  /\ EndsIn(hooks'[m])
                    = EndsIn(hooks[m]) + (IF h.event = "room_finished" THEN 1 ELSE 0)
             /\ hooks[m] # <<>> => hooks'[m] # <<>> /\ Head(hooks'[m]) = Head(hooks[m])
  BY <1>1, <1>4, EndsOfAppend
<1> QED BY <1>2, <1>3, <1>4 DEF RoomMove

\* A step that leaves rooms, webhooks and handlers alone adds a job only if it
\* makes the worker dial again.
LEMMA NoGainOfDispatch ==
    ASSUME TypeOK, IsFiniteSet(requests), NEW l \in Leads,
           requests' = requests, hooks' = hooks, room' = room, faults' \in Nat,
           \/ (MayOpen(l)' => MayOpen(l)) /\ faults' >= faults
           \/ faults' = faults + 1
    PROVE  NoGain(l)
<1>1. EndsIn(hooks[l]) \in Nat /\ LateIn(requests, l) \in Nat /\ faults \in Nat
  <2>1. hooks[l] \in Seq(Hook) /\ faults \in Nat
    BY LeadsAssumption DEF TypeOK, LiveKitTypeOK, TablesTypeOK
  <2> QED BY <2>1, EndsFinite, LateFinite
<1> QED BY <1>1 DEF NoGain, Pending

LEMMA WorkerGainsNothing ==
    ASSUME TypeOK, TypeOK', RefsOK, DialInv, IsFiniteSet(requests), WorkerNext,
           requests' = requests, NEW l \in Leads
    PROVE  NoGain(l)
<1>1. faults \in Nat /\ faults' \in Nat /\ status \in [Leads -> ContactStatus]
  BY LeadsAssumption DEF TypeOK, TablesTypeOK
<1>2. worker \in HoldsLead => current \in Leads /\ current \notin batch
  BY DEF RefsOK, DispatchHasLead
<1>3. CASE /\ UNCHANGED livekitVars /\ Fault
  BY <1>1, <1>3, NoGainOfDispatch DEF livekitVars, Fault
<1>4. CASE /\ UNCHANGED livekitVars /\ faults' = faults /\ (MayOpen(l)' => MayOpen(l))
  BY <1>1, <1>4, NoGainOfDispatch DEF livekitVars
<1>5. CASE \/ StartWorker \/ BatchEnds \/ MergeDialed \/ MergeRetry
           \/ \E rows \in SUBSET Leads : UnknownTimeZone(rows)
           \/ \E m \in Leads : NextLead(m)
  <2>1. UNCHANGED livekitVars /\ faults' = faults
    BY <1>5 DEF StartWorker, BatchEnds, MergeDialed, MergeRetry, Merge, UnknownTimeZone, NextLead,
       tableVars
  <2>2. MayOpen(l)' => MayOpen(l)
    BY <1>5 DEF StartWorker, BatchEnds, MergeDialed, MergeRetry, Merge, UnknownTimeZone, NextLead,
       Forget, tableVars, livekitVars, MayOpen
  <2> QED BY <1>4, <2>1, <2>2
<1>6. ASSUME NEW rows \in SUBSET Leads, NEW dialable \in SUBSET Leads, FetchBatch(rows, dialable)
      PROVE  NoGain(l)
  <2>1. \A m \in dialable : status[m] = "PENDING"
    BY <1>6 DEF FetchBatch, IsFetch, Eligible
  <2> QED BY <1>4, <1>6, <2>1 DEF FetchBatch, tableVars, livekitVars, MayOpen
<1>7. CASE CommitDialed
  <2>1. status'[current] \notin {"ABSENT", "PENDING"}
    BY <1>1, <1>2, <1>7 DEF CommitDialed, DialFlushed, FlushLead, HoldsLead, DialInv
  <2>2. \A m \in Leads \ {current} : status'[m] = status[m]
    BY <1>1, <1>7 DEF CommitDialed, DialFlushed, FlushLead
  <2>3. UNCHANGED <<livekitVars, faults, batch>> /\ worker' = "next" /\ worker = "commit"
    BY <1>7 DEF CommitDialed, DispatchEnds
  <2> QED BY <1>4, <2>1, <2>2, <2>3 DEF MayOpen
<1>8. CASE CommitRetry
  <2>1. \A m \in Leads \ {current} : status'[m] = status[m]
    BY <1>1, <1>8 DEF CommitRetry, RetryFlushed, FlushLead
  <2>2. UNCHANGED <<livekitVars, faults, batch>> /\ worker' = "next" /\ worker = "retry_commit"
    BY <1>8 DEF CommitRetry, DispatchEnds
  <2> QED BY <1>4, <2>1, <2>2 DEF MayOpen
<1>9. CASE DatabaseFails \/ WorkerCrashes \/ \E m \in Leads : SessionGetFails(m)
  BY <1>3, <1>9 DEF DatabaseFails, WorkerCrashes, SessionGetFails
<1>10. ASSUME worker \in {"create_room", "create_sip"},
              CreateRoom(current) \/ CreateSipParticipant(current),
              batch' = batch, current' = current, status' = status,
              \/ worker = "create_room" /\ worker' = "create_sip" /\ faults' = faults
              \/ worker = "create_sip" /\ worker' = "merge" /\ faults' = faults
              \/ worker' = "retry_merge" /\ Fault
       PROVE  NoGain(l)
  <2>1. current \in Leads /\ current \notin batch
    BY <1>2, <1>10 DEF HoldsLead
  <2>2. /\ room'[current] # "none" /\ \A m \in Leads : RoomMove(m)
        /\ \A m \in Leads \ {current} : room'[m] = room[m]
    BY <1>10, <2>1, ServerMoves DEF TypeOK
  <2>3. /\ EndsIn(hooks[l]) \in Nat /\ LateIn(requests, l) \in Nat
        /\ EndsIn(hooks'[l]) = EndsIn(hooks[l])
              + (IF room[l] # "none" /\ room'[l] = "none" THEN 1 ELSE 0)
    BY <2>2, RoomMoveEnds, LateFinite DEF TypeOK
  <2>4. CASE l # current
    <3>1. (MayOpen(l)' <=> MayOpen(l)) /\ room'[l] = room[l] /\ faults' >= faults
      BY <1>1, <1>10, <2>2, <2>4 DEF MayOpen, Fault
    <3> QED BY <1>1, <2>3, <3>1 DEF NoGain, Pending
  <2>5. CASE l = current /\ ~Fault
    <3>1. ~MayOpen(l)' /\ (MayOpen(l) \/ room[l] # "none") /\ room'[l] # "none" /\ faults' = faults
      BY <1>10, <2>1, <2>2, <2>5 DEF MayOpen
    <3> QED BY <1>1, <2>3, <3>1 DEF NoGain, Pending
  <2>6. CASE l = current /\ Fault
    <3>1. (MayOpen(l) \/ room[l] # "none") /\ room'[l] # "none" /\ faults' = faults + 1
      BY <1>10, <2>1, <2>2, <2>6 DEF MayOpen, Fault
    <3> QED BY <1>1, <2>3, <3>1 DEF NoGain, Pending
  <2> QED BY <2>4, <2>5, <2>6
<1>11. CASE RoomCreated \/ SipDialed
  BY <1>10, <1>11 DEF RoomCreated, SipDialed, PlaceDial, Goto, tableVars
<1>12. CASE RoomFails \/ SipFails
  BY <1>3, <1>10, <1>12 DEF RoomFails, SipFails, PlaceDial, Goto, leadVars
<1> QED BY <1>5, <1>6, <1>7, <1>8, <1>9, <1>11, <1>12 DEF WorkerNext, Dispatching

(***************************************************************************)
(* Steps of the other processes.                                            *)
(***************************************************************************)
LEMMA OthersKeepMayOpen ==
    ASSUME TypeOK, RefsOK, [Next]_vars, UNCHANGED workerVars, NEW l \in Leads
    PROVE  MayOpen(l)' =>
              \/ MayOpen(l)
              \/ worker = "create_sip" /\ current = l /\ room[l] # "none" /\ room'[l] = "none"
BY StatusMoves DEF StatusMove, MayOpen, workerVars

LEMMA LiveKitGainsNothing ==
    ASSUME TypeOK, TypeOK', RefsOK, [Next]_vars, IsFiniteSet(requests), LiveKitNext,
           UNCHANGED othersOfLiveKit, NEW l \in Leads
    PROVE  NoGain(l)
<1>1. faults \in Nat /\ faults' \in Nat /\ faults' >= faults
  BY LeadsAssumption DEF TypeOK, TablesTypeOK, LiveKitNext, Fault
<1>2. UNCHANGED <<workerVars, requests>>
  BY DEF othersOfLiveKit, receiverVars
<1>3. /\ RoomMove(l)
      /\ room'[l] # room[l] =>
            /\ room[l] # "none" /\ room'[l] = "none"
            /\ worker = "create_sip" /\ current = l => Fault
  BY LiveKitMoves DEF TypeOK
<1>4. /\ EndsIn(hooks[l]) \in Nat /\ LateIn(requests, l) \in Nat
      /\ EndsIn(hooks'[l]) = EndsIn(hooks[l])
            + (IF room[l] # "none" /\ room'[l] = "none" THEN 1 ELSE 0)
  BY <1>3, RoomMoveEnds, LateFinite DEF TypeOK
<1>5. (MayOpen(l)' => MayOpen(l)) \/ faults' = faults + 1
  BY <1>2, <1>3, OthersKeepMayOpen DEF Fault
<1> QED BY <1>1, <1>2, <1>3, <1>4, <1>5 DEF NoGain, Pending

\* The dashboard, the clock, the registry, the agents and the analysis workers
\* touch neither rooms nor webhooks nor handlers.
LEMMA TablesGainNothing ==
    ASSUME TypeOK, TypeOK', RefsOK, [Next]_vars, IsFiniteSet(requests),
           UNCHANGED <<workerVars, room, hooks, requests>>, faults' >= faults, NEW l \in Leads
    PROVE  NoGain(l)
<1>1. faults' \in Nat
  BY LeadsAssumption DEF TypeOK, TablesTypeOK
<1>2. MayOpen(l)' => MayOpen(l)
  BY OthersKeepMayOpen
<1> QED BY <1>1, <1>2, NoGainOfDispatch

(***************************************************************************)
(* Steps of the webhook receiver.                                           *)
(***************************************************************************)
\* The webhooks of a lead that can still become jobs.
Owed(l) == EndsIn(hooks[l]) + LateIn(requests, l)

\* An answer takes a handler, and perhaps its webhook; with 200 it takes what
\* the handler was counted by.
LEMMA AnswerOwes ==
    ASSUME LiveKitTypeOK, requests \subseteq Request, OneAwaited, IsFiniteSet(requests),
           \A q \in requests : Tracked(q),
           NEW r \in requests, Answer200(r) \/ Answer500(r), NEW l \in Leads
    PROVE  /\ IsFiniteSet(requests') /\ Owed(l) \in Nat /\ Owed(l)' \in Nat
           /\ Owed(l)' <= Owed(l)
           /\ Answer200(r) /\ r.event = "room_finished" /\ r.lead = l => Owed(l)' + 1 <= Owed(l)
<1>1. r \in Request /\ r.lead \in Leads /\ r.awaited \in BOOLEAN
  BY DEF Request
<1>2. requests' = requests \ {r}
  BY DEF Answer200, Answer500, Ends
<1>3. IsFiniteSet(requests')
  BY <1>2, FS_RemoveElement
<1>4. LateIn(requests', l) = LateIn(requests, l) - (IF IsLate(r, l) THEN 1 ELSE 0)
  BY <1>2, LateWithout
<1>5. LateIn(requests, l) \in Nat /\ LateIn(requests', l) \in Nat
  BY <1>3, LateFinite
<1>6. hooks[l] \in Seq(Hook)
  BY DEF LiveKitTypeOK
<1>7. EndsIn(hooks[l]) \in Nat
  BY <1>6, EndsFinite
<1>8. CASE hooks'[l] = hooks[l]
  <2>1. Answer200(r) /\ r.event = "room_finished" /\ r.lead = l => IsLate(r, l)
    <3>1. ASSUME Answer200(r), r.awaited, r.lead = l PROVE FALSE
      <4>1. hooks'[l] = Tail(hooks[l]) /\ hooks[l] # <<>>
        BY <3>1 DEF Answer200, StopSending, OneAwaited, LiveKitTypeOK
      <4>2. Len(Tail(hooks[l])) # Len(hooks[l])
        BY <1>6, <4>1
      <4> QED BY <1>8, <4>1, <4>2
    <3> QED BY <3>1 DEF IsLate
  <2>2. /\ Owed(l) = EndsIn(hooks[l]) + LateIn(requests, l)
        /\ Owed(l)' = EndsIn(hooks[l]) + LateIn(requests', l)
    BY <1>8 DEF Owed
  <2> QED BY <1>3, <1>4, <1>5, <1>7, <2>1, <2>2
<1>9. CASE hooks'[l] # hooks[l]
  <2>1. r.awaited /\ r.lead = l /\ hooks'[l] = Tail(hooks[l]) /\ hooks[l] # <<>>
    <3>1. r.awaited
      BY <1>9 DEF Answer200, Answer500
    <3>2. hooks[r.lead] # <<>>
      BY <3>1 DEF OneAwaited
    <3>3. \E done \in BOOLEAN : StopSending(r.lead, done)
      BY <3>1 DEF Answer200, Answer500
    <3> QED BY <1>1, <1>9, <3>1, <3>2, <3>3 DEF StopSending, LiveKitTypeOK
  <2>2. Head(hooks[l]).event = r.event /\ ~IsLate(r, l)
    BY <2>1 DEF IsLate, Tracked
  <2>3. EndsIn(hooks'[l]) = EndsIn(hooks[l]) - (IF r.event = "room_finished" THEN 1 ELSE 0)
    BY <1>6, <2>1, <2>2, EndsOfTail
  <2>4. EndsIn(hooks'[l]) \in Nat
    <3>1. Tail(hooks[l]) \in Seq(Hook)
      BY <1>6, <2>1
    <3> QED BY <2>1, <3>1, EndsFinite
  <2> QED BY <1>3, <1>4, <1>5, <1>7, <2>2, <2>3, <2>4 DEF Owed
<1> QED BY <1>8, <1>9

\* What a step adds to the webhooks owed is paid by failures.
Paid(l) ==
    /\ Owed(l) \in Nat /\ Owed(l)' \in Nat
    /\ Owed(l)' + faults <= Owed(l) + faults'

\* A handler of a lead goes on as another one that is as late as it was.
LEMMA ContinuesOwes ==
    ASSUME LiveKitTypeOK, requests \subseteq Request, IsFiniteSet(requests),
           faults \in Nat, faults' = faults, hooks' = hooks,
           NEW r \in requests, NEW pc, NEW c, Continues(r, pc, c), NEW l \in Leads
    PROVE  IsFiniteSet(requests') /\ Paid(l)
<1> DEFINE new == [r EXCEPT !.pc = pc, !.call = c]
           rest == requests \ {r}
<1>1. IsLate(new, l) <=> IsLate(r, l)
  BY DEF Request, IsLate
<1>2. requests' = rest \cup {new}
  BY DEF Continues
<1> HIDE DEF new
<1>3. IsFiniteSet(rest) /\ LateIn(rest, l) = LateIn(requests, l) - (IF IsLate(r, l) THEN 1 ELSE 0)
  BY LateWithout, FS_RemoveElement
<1> HIDE DEF rest
<1>4. IsFiniteSet(requests') /\ LateIn(requests', l) <= LateIn(rest, l) + (IF IsLate(new, l) THEN 1 ELSE 0)
  BY <1>2, <1>3, LateWith, FS_AddElement
<1>5. LateIn(requests, l) \in Nat /\ LateIn(requests', l) \in Nat /\ LateIn(rest, l) \in Nat
  BY <1>3, <1>4, LateFinite
<1>6. EndsIn(hooks[l]) \in Nat
  <2>1. hooks[l] \in Seq(Hook)
    BY DEF LiveKitTypeOK
  <2> QED BY <2>1, EndsFinite
<1> QED BY <1>1, <1>3, <1>4, <1>5, <1>6 DEF Paid, Owed

\* The answer times out: the handler is late now, for one more failure.
LEMMA TimeoutOwes ==
    ASSUME LiveKitTypeOK, requests \subseteq Request, OneAwaited, IsFiniteSet(requests),
           faults \in Nat, NEW r \in requests, AnswerTimesOut(r), NEW l \in Leads
    PROVE  IsFiniteSet(requests') /\ Paid(l)
<1> DEFINE new == [r EXCEPT !.awaited = FALSE]
           rest == requests \ {r}
<1>1. requests' = rest \cup {new} /\ faults' = faults + 1 /\ r.awaited
  BY DEF AnswerTimesOut, Fault
<1> HIDE DEF new
<1>2. IsFiniteSet(rest) /\ LateIn(rest, l) <= LateIn(requests, l)
  <2>1. LateIn(requests, l) \in Nat
    BY LateFinite
  <2>2. LateIn(rest, l) = LateIn(requests, l) - (IF IsLate(r, l) THEN 1 ELSE 0)
    BY LateWithout
  <2>3. IsFiniteSet(rest)
    BY FS_RemoveElement
  <2> HIDE DEF rest
  <2> QED BY <2>1, <2>2, <2>3
<1> HIDE DEF rest
<1>3. IsFiniteSet(requests') /\ LateIn(requests', l) <= LateIn(rest, l) + (IF IsLate(new, l) THEN 1 ELSE 0)
  BY <1>1, <1>2, LateWith, FS_AddElement
<1>4. LateIn(requests, l) \in Nat /\ LateIn(requests', l) \in Nat /\ LateIn(rest, l) \in Nat
  BY <1>2, <1>3, LateFinite
<1>5. hooks[l] \in Seq(Hook)
  BY DEF LiveKitTypeOK
<1>6. EndsIn(hooks[l]) \in Nat
  BY <1>5, EndsFinite
<1>7. EndsIn(hooks'[l]) \in Nat /\ EndsIn(hooks'[l]) <= EndsIn(hooks[l])
  <2>1. CASE hooks'[l] = hooks[l]
    BY <1>6, <2>1
  <2>2. CASE hooks'[l] # hooks[l]
    <3>1. r.lead \in Leads /\ hooks[r.lead] # <<>>
      BY <1>1 DEF Request, OneAwaited
    <3>2. hooks'[l] = Tail(hooks[l]) /\ hooks[l] # <<>>
      BY <2>2, <3>1 DEF AnswerTimesOut, StopSending, LiveKitTypeOK
    <3>3. Tail(hooks[l]) \in Seq(Hook)
      BY <1>5, <3>2
    <3>4. EndsIn(Tail(hooks[l])) \in Nat /\ EndsIn(Tail(hooks[l])) <= EndsIn(hooks[l])
      <4>1. EndsIn(Tail(hooks[l])) \in Nat
        BY <3>3, EndsFinite
      <4>2. EndsIn(Tail(hooks[l]))
               = EndsIn(hooks[l]) - (IF Head(hooks[l]).event = "room_finished" THEN 1 ELSE 0)
        BY <1>5, <3>2, EndsOfTail
      <4> QED BY <1>6, <4>1, <4>2
    <3> QED BY <3>2, <3>4
  <2> QED BY <2>1, <2>2
<1> QED BY <1>1, <1>2, <1>3, <1>4, <1>6, <1>7 DEF Paid, Owed

\* An answer after the effects of a handler: with 500 it costs a failure.
LEMMA AnswersOwe ==
    ASSUME LiveKitTypeOK, requests \subseteq Request, OneAwaited, IsFiniteSet(requests),
           \A q \in requests : Tracked(q), faults \in Nat, NEW r \in requests, NEW l \in Leads,
           \/ Answer200(r) /\ faults' = faults
           \/ Answer500(r) /\ (faults' = faults \/ Fault)
           \/ Answer200(r) /\ Fault
    PROVE  /\ IsFiniteSet(requests') /\ Paid(l)
           /\ BroadcastAndAnswer(r) /\ r.event = "room_finished" /\ r.lead = l
                 => Owed(l)' + 1 + faults <= Owed(l) + faults'
<1>1. /\ IsFiniteSet(requests') /\ Owed(l) \in Nat /\ Owed(l)' \in Nat /\ Owed(l)' <= Owed(l)
      /\ Answer200(r) /\ r.event = "room_finished" /\ r.lead = l => Owed(l)' + 1 <= Owed(l)
  BY AnswerOwes
<1>2. PICK after \in Nat : after = Owed(l)'
  BY <1>1
<1>3. faults' = faults \/ faults' = faults + 1
  BY DEF Fault
<1>4. BroadcastAndAnswer(r) => Answer200(r) \/ faults' = faults + 1
  BY DEF BroadcastAndAnswer, Fault
<1> QED BY <1>1, <1>2, <1>3, <1>4 DEF Paid

LEMMA ReceiverPays ==
    ASSUME TypeOK, TypeOK', RefsOK, JobInv, ReceiverNext, NEW l \in Leads
    PROVE  /\ IsFiniteSet(requests') /\ Paid(l)
           /\ \/ enqueued' = enqueued
              \/ \E r \in requests :
                    /\ r.call \in CallIds /\ calls[r.call] # NoRow /\ calls[r.call].lead = r.lead
                    /\ enqueued' = [enqueued EXCEPT ![r.call] = @ + 1]
                    /\ r.lead = l => Owed(l)' + 1 + faults <= Owed(l) + faults'
<1> USE DEF JobInv, RefsOK
<1>1. LiveKitTypeOK /\ requests \subseteq Request /\ faults \in Nat /\ hooks[l] \in Seq(Hook)
  BY LeadsAssumption DEF TypeOK, LiveKitTypeOK, ReceiverTypeOK, TablesTypeOK
<1>2. EndsIn(hooks[l]) \in Nat /\ LateIn(requests, l) \in Nat
  BY <1>1, EndsFinite, LateFinite
<1> DEFINE Goal == /\ IsFiniteSet(requests') /\ Paid(l)
                   /\ \/ enqueued' = enqueued
                      \/ \E r \in requests :
                            /\ r.call \in CallIds /\ calls[r.call] # NoRow
                            /\ calls[r.call].lead = r.lead
                            /\ enqueued' = [enqueued EXCEPT ![r.call] = @ + 1]
                            /\ r.lead = l => Owed(l)' + 1 + faults <= Owed(l) + faults'
<1> SUFFICES Goal
  OBVIOUS
<1>3. ASSUME NEW m \in Leads, Deliver(m) PROVE Goal
  <2> DEFINE new == [lead |-> m, event |-> Head(hooks[m]).event, meta |-> Head(hooks[m]).meta,
                     awaited |-> TRUE, pc |-> "select", call |-> NoRow]
  <2>1. ~IsLate(new, l)
    BY DEF IsLate
  <2>2. requests' = requests \cup {new} /\ UNCHANGED <<hooks, enqueued, faults>>
    BY <1>3 DEF Deliver, tableVars
  <2> HIDE DEF new
  <2>3. IsFiniteSet(requests')
    BY <2>2, FS_AddElement
  <2>4. LateIn(requests', l) \in Nat
    BY <2>3, LateFinite
  <2>5. LateIn(requests', l) <= LateIn(requests, l) + (IF IsLate(new, l) THEN 1 ELSE 0)
    BY <2>2, LateWith
  <2> QED BY <1>1, <1>2, <2>1, <2>2, <2>3, <2>4, <2>5 DEF Paid, Owed
<1>4. ASSUME NEW r \in requests, NEW pc, NEW c, Continues(r, pc, c), UNCHANGED <<hooks, faults, enqueued>>
      PROVE  Goal
  BY <1>1, <1>4, ContinuesOwes
<1>5. ASSUME NEW r \in requests, enqueued' = enqueued,
             \/ Answer200(r) /\ faults' = faults
             \/ Answer500(r) /\ (faults' = faults \/ Fault)
             \/ Answer200(r) /\ Fault
      PROVE  Goal
  BY <1>1, <1>5, AnswersOwe
<1>6. ASSUME NEW r \in requests, EnqueueAnalysis(r) PROVE Goal
  <2>1. /\ r.call \in CallIds /\ calls[r.call] # NoRow /\ calls[r.call].lead = r.lead
        /\ r.event = "room_finished"
    BY <1>1, <1>6 DEF EnqueueAnalysis, RequestsNameRows, Tracked, Request
  <2>2. BroadcastAndAnswer(r) /\ enqueued' = [enqueued EXCEPT ![r.call] = @ + 1]
    BY <1>6 DEF EnqueueAnalysis
  <2>3. /\ IsFiniteSet(requests') /\ Paid(l)
        /\ r.lead = l => Owed(l)' + 1 + faults <= Owed(l) + faults'
    BY <1>1, <2>1, <2>2, AnswersOwe DEF BroadcastAndAnswer
  <2> QED BY <2>1, <2>2, <2>3
<1>7. ASSUME NEW r \in requests, AnswerTimesOut(r) PROVE Goal
  <2>1. enqueued' = enqueued
    BY <1>7 DEF AnswerTimesOut
  <2> QED BY <1>1, <1>7, <2>1, TimeoutOwes
<1>8. CASE ApiCrashes
  <2>1. requests' = {} /\ faults' = faults + 1 /\ UNCHANGED <<hooks, enqueued>>
    BY <1>8 DEF ApiCrashes, Fault
  <2>2. IsFiniteSet(requests') /\ LateIn(requests', l) = 0
    <3>1. {r \in requests' : IsLate(r, l)} = {}
      BY <2>1
    <3> QED BY <2>1, <3>1, FS_EmptySet DEF LateIn
  <2> QED BY <1>1, <1>2, <2>1, <2>2 DEF Paid, Owed
<1> HIDE DEF Goal
<1>9. ASSUME NEW r \in requests, SelectRaises(r) \/ SelectFindsNone(r) \/ ParticipantJoined(r)
                                 \/ CommitRoomStarted(r) \/ EnqueueSwallowed(r) \/ HandlerRaises(r)
      PROVE  Goal
  BY <1>4, <1>5, <1>9 DEF SelectRaises, SelectFindsNone, ParticipantJoined, CommitRoomStarted,
     EnqueueSwallowed, HandlerRaises, BroadcastAndAnswer, tableVars, livekitVars
<1>10. ASSUME NEW r \in requests, CommitRoomFinished(r) PROVE Goal
  <2>1. Continues(r, "enqueue", r.call) /\ UNCHANGED <<hooks, faults, enqueued>>
    BY <1>10 DEF CommitRoomFinished, livekitVars
  <2> QED BY <1>4, <2>1
<1>11. ASSUME NEW r \in requests, NEW c \in CallIds, SelectFindsCall(r, c) PROVE Goal
  <2>1. Continues(r, "commit", c) /\ UNCHANGED <<hooks, faults, enqueued>>
    BY <1>11 DEF SelectFindsCall, tableVars, livekitVars
  <2> QED BY <1>4, <2>1
<1>12. ASSUME NEW r \in requests, Handling(r) PROVE Goal
  BY <1>6, <1>9, <1>10, <1>11, <1>12 DEF Handling
<1> HIDE DEF JobInv, RefsOK
<1> QED BY <1>3, <1>7, <1>8, <1>9, <1>12 DEF ReceiverNext

(***************************************************************************)
(* The account is kept by every step.                                       *)
(***************************************************************************)
\* A step of the receiver, and of nothing else.
Receives == ReceiverNext /\ UNCHANGED othersOfReceiver

LEMMA RoomsMove ==
    ASSUME TypeOK, RefsOK, [Next]_vars, ~Receives
    PROVE  requests' = requests /\ enqueued' = enqueued /\ \A m \in Leads : RoomMove(m)
<1>1. CASE UNCHANGED <<room, hooks, receiverVars>>
  BY <1>1 DEF RoomMove, receiverVars
<1>2. CASE UNCHANGED <<room, hooks, requests, enqueued>>
  BY <1>2 DEF RoomMove
<1>3. CASE WorkerNext /\ UNCHANGED othersOfWorker
  <2>1. CASE /\ CreateRoom(current) \/ CreateSipParticipant(current)
             /\ worker \in {"create_room", "create_sip"}
    <3>1. current \in Leads
      BY <2>1 DEF RefsOK, DispatchHasLead, HoldsLead
    <3> QED BY <1>3, <2>1, <3>1, ServerMoves DEF TypeOK, othersOfWorker, receiverVars
  <2>2. CASE UNCHANGED livekitVars
    BY <1>1, <1>3, <2>2 DEF livekitVars, othersOfWorker
  <2> QED BY <1>3, <2>1, <2>2 DEF WorkerNext, Dispatching, StartWorker, BatchEnds, FetchBatch,
          UnknownTimeZone, NextLead, SessionGetFails, RoomCreated, RoomFails, SipDialed, SipFails,
          PlaceDial, MergeDialed, MergeRetry, Merge, CommitDialed, CommitRetry, DatabaseFails,
          WorkerCrashes
<1>4. CASE LiveKitNext /\ UNCHANGED othersOfLiveKit
  BY <1>4, LiveKitMoves DEF TypeOK, othersOfLiveKit, receiverVars
<1>5. CASE AgentNext /\ UNCHANGED othersOfAgent
  BY <1>1, <1>5 DEF AgentNext, Saving, SessionEnds, FindsCallToSave, SaveTranscript,
     TranscriptDropped, SessionCrashes, JobEnds, othersOfAgent
<1>6. CASE AnalysisNext
  BY <1>2, <1>6 DEF AnalysisNext, Analysing, ReadTranscript, Extract, WriteResult, NotifyN8n,
     AnalysisRaises, WorkHorseKilled, livekitVars
<1> QED BY <1>1, <1>3, <1>4, <1>5, <1>6 DEF Next, Receives, othersOfTables, livekitVars, vars

LEMMA StepsKeepTracked ==
    ASSUME TypeOK, RefsOK, JobInv, [Next]_vars
    PROVE  \A r \in requests' : Tracked(r)'
<1> USE DEF RefsOK
<1>1. LiveKitTypeOK /\ requests \subseteq Request
  BY DEF TypeOK, ReceiverTypeOK
<1>2. \A r \in requests : r \in Request /\ Tracked(r)
  BY <1>1 DEF JobInv
<1> DEFINE Goal == \A r \in requests' : Tracked(r)'
<1> SUFFICES Goal
  OBVIOUS
<1>3. CASE ~Receives
  <2>1. requests' = requests /\ \A m \in Leads : RoomMove(m)
    BY <1>3, RoomsMove
  <2>2. ASSUME NEW r \in requests, r.awaited PROVE Head(hooks'[r.lead]).event = r.event
    <3>1. r.lead \in Leads /\ hooks[r.lead] # <<>> /\ Head(hooks[r.lead]).event = r.event
      BY <1>2, <2>2 DEF OneAwaited, Request, Tracked
    <3> QED BY <1>1, <2>1, <3>1, RoomMoveEnds
  <2> QED BY <1>2, <2>1, <2>2 DEF Tracked
<1>4. ASSUME NEW l \in Leads, Deliver(l) PROVE Goal
  <2> DEFINE new == [lead |-> l, event |-> Head(hooks[l]).event, meta |-> Head(hooks[l]).meta,
                     awaited |-> TRUE, pc |-> "select", call |-> NoRow]
  <2>1. new.awaited /\ Head(hooks[new.lead]).event = new.event /\ new.pc # "enqueue"
    OBVIOUS
  <2>2. requests' = requests \cup {new} /\ hooks' = hooks
    BY <1>4 DEF Deliver
  <2> HIDE DEF new
  <2> QED BY <1>2, <2>1, <2>2 DEF Tracked
<1>5. ASSUME NEW r \in requests, NEW pc, NEW c, Continues(r, pc, c), hooks' = hooks,
             pc = "enqueue" => r.event = "room_finished"
      PROVE  Goal
  <2> DEFINE new == [r EXCEPT !.pc = pc, !.call = c]
  <2>1. new.awaited = r.awaited /\ new.lead = r.lead /\ new.event = r.event /\ new.pc = pc
    BY <1>2 DEF Request
  <2>2. requests' = (requests \ {r}) \cup {new}
    BY <1>5 DEF Continues
  <2> HIDE DEF new
  <2> QED BY <1>2, <1>5, <2>1, <2>2 DEF Tracked
<1>6. ASSUME NEW r \in requests,
             \A q \in requests' : \/ q \in requests \ {r}
                                  \/ ~q.awaited /\ (q.pc = "enqueue" => q.event = "room_finished"),
             \/ ~r.awaited /\ hooks' = hooks
             \/ r.awaited /\ \E done \in BOOLEAN : StopSending(r.lead, done)
      PROVE  Goal
  <2>1. ASSUME NEW q \in requests \ {r}, q.awaited PROVE Head(hooks'[q.lead]).event = q.event
    <3>1. q.lead \in Leads /\ Head(hooks[q.lead]).event = q.event
      BY <1>2, <2>1 DEF Request, Tracked
    <3>2. r.awaited => q.lead # r.lead
      BY <2>1 DEF OneAwaited
    <3>3. hooks'[q.lead] = hooks[q.lead]
      BY <1>1, <1>6, <3>1, <3>2 DEF StopSending, LiveKitTypeOK
    <3> QED BY <3>1, <3>3
  <2> QED BY <1>2, <1>6, <2>1 DEF Tracked
<1>7. ASSUME NEW r \in requests, Answer200(r) \/ Answer500(r) PROVE Goal
  <2>1. requests' = requests \ {r}
    BY <1>7 DEF Answer200, Answer500, Ends
  <2>2. \/ ~r.awaited /\ hooks' = hooks
        \/ r.awaited /\ \E done \in BOOLEAN : StopSending(r.lead, done)
    BY <1>7 DEF Answer200, Answer500
  <2>3. \A q \in requests' : \/ q \in requests \ {r}
                             \/ ~q.awaited /\ (q.pc = "enqueue" => q.event = "room_finished")
    BY <2>1
  <2> HIDE DEF Goal
  <2> QED BY ONLY <1>6, <2>2, <2>3
<1>8. ASSUME NEW r \in requests, AnswerTimesOut(r) PROVE Goal
  <2> DEFINE new == [r EXCEPT !.awaited = FALSE]
  <2>1. ~new.awaited /\ new.pc = r.pc /\ new.event = r.event
    BY <1>2 DEF Request
  <2>2. /\ requests' = (requests \ {r}) \cup {new}
        /\ r.awaited /\ \E done \in BOOLEAN : StopSending(r.lead, done)
    BY <1>8 DEF AnswerTimesOut
  <2> HIDE DEF new
  <2> QED BY <1>2, <1>6, <2>1, <2>2 DEF Tracked
<1>9. CASE ApiCrashes
  BY <1>9 DEF ApiCrashes
<1> HIDE DEF Goal
<1>10. ASSUME NEW r \in requests, CommitRoomFinished(r) PROVE Goal
  <2>1. Continues(r, "enqueue", r.call) /\ hooks' = hooks /\ r.event = "room_finished"
    BY <1>10 DEF CommitRoomFinished, livekitVars
  <2> QED BY <1>5, <2>1
<1>11. ASSUME NEW r \in requests, NEW c \in CallIds, SelectFindsCall(r, c) PROVE Goal
  <2>1. Continues(r, "commit", c) /\ hooks' = hooks
    BY <1>11 DEF SelectFindsCall, livekitVars
  <2> QED BY <1>5, <2>1
<1>12. ASSUME NEW r \in requests, Handling(r) PROVE Goal
  <2>1. CASE \/ SelectRaises(r) \/ ParticipantJoined(r) \/ CommitRoomStarted(r) \/ EnqueueAnalysis(r)
    BY <1>7, <2>1 DEF SelectRaises, ParticipantJoined, CommitRoomStarted, EnqueueAnalysis,
       BroadcastAndAnswer
  <2>2. CASE SelectFindsNone(r)
    BY <1>5, <1>7, <2>2 DEF SelectFindsNone, livekitVars
  <2> QED BY <1>10, <1>11, <1>12, <2>1, <2>2 DEF Handling
<1>13. ASSUME NEW r \in requests, EnqueueSwallowed(r) \/ HandlerRaises(r) PROVE Goal
  BY <1>7, <1>13 DEF EnqueueSwallowed, HandlerRaises
<1> QED BY <1>3, <1>4, <1>8, <1>9, <1>12, <1>13 DEF ReceiverNext, Receives

\* A row appears for no call that has one, and only calls with a row are given
\* jobs.
LEMMA StepsKeepGiven ==
    ASSUME TypeOK, TypeOK', RefsOK, JobInv, [Next]_vars, NEW c \in CallIds
    PROVE  /\ calls'[c] = NoRow => enqueued'[c] = 0
           /\ \A l \in Leads : calls[c] = NoRow => Given(l, c)' = 0
           /\ calls[c] # NoRow => calls'[c] # NoRow /\ calls'[c].lead = calls[c].lead
<1>1. calls[c] # NoRow => calls'[c] # NoRow /\ calls'[c].lead = calls[c].lead
  BY StepsKeepRows DEF RowsKept, RefsOK
<1>2. calls[c] = NoRow => enqueued'[c] = 0
  <2>1. CASE enqueued' = enqueued
    BY <2>1 DEF JobInv
  <2>2. ASSUME NEW r \in requests, calls[r.call] # NoRow,
               enqueued' = [enqueued EXCEPT ![r.call] = @ + 1]
        PROVE  calls[c] = NoRow => enqueued'[c] = 0
    BY <2>2 DEF JobInv, TypeOK, ReceiverTypeOK
  <2>3. CASE ReceiverNext
    <3>1. CASE ApiCrashes
      BY <2>1, <3>1 DEF ApiCrashes
    <3>2. ASSUME NEW l \in Leads PROVE calls[c] = NoRow => enqueued'[c] = 0
      BY <2>1, <2>2, <2>3, ReceiverPays
    <3>3. \A r \in requests : r.lead \in Leads
      BY DEF TypeOK, ReceiverTypeOK, Request
    <3> QED BY <2>3, <3>1, <3>2, <3>3 DEF ReceiverNext
  <2> QED BY <2>1, <2>3, RoomsMove DEF Receives
<1> QED BY <1>1, <1>2 DEF Given

LEMMA GivenMoves ==
    ASSUME TypeOK, TypeOK', RefsOK, JobInv, [Next]_vars, NEW c \in CallIds, NEW l \in Leads
    PROVE  /\ Given(l, c) \in Nat /\ Given(l, c)' \in Nat
           /\ enqueued'[c] = enqueued[c] => Given(l, c)' = Given(l, c)
           /\ calls[c].lead # l /\ calls[c] # NoRow => Given(l, c)' = 0
           /\ enqueued'[c] = enqueued[c] + 1 => Given(l, c)' <= Given(l, c) + 1
<1>1. enqueued[c] \in Nat /\ enqueued'[c] \in Nat
  BY DEF TypeOK, ReceiverTypeOK
<1>2. calls[c] = NoRow => enqueued[c] = 0
  BY DEF JobInv
<1> QED BY <1>1, <1>2, StepsKeepGiven DEF Given

LEMMA ReceiverKeepsAccount ==
    ASSUME TypeOK, TypeOK', RefsOK, JobInv, [Next]_vars, Receives, NEW l \in Leads,
           NEW c \in CallIds
    PROVE  Pending(l)' + Given(l, c)' <= 1 + faults'
<1>1. room' = room
  BY DEF Receives, ReceiverNext, Handling, Deliver, SelectRaises, SelectFindsCall, SelectFindsNone,
     CommitRoomStarted, ParticipantJoined, CommitRoomFinished, EnqueueAnalysis, EnqueueSwallowed,
     HandlerRaises, AnswerTimesOut, ApiCrashes, Answer200, Answer500, BroadcastAndAnswer,
     Continues, StopSending, livekitVars
<1>2. MayOpen(l)' => MayOpen(l)
  BY <1>1, OthersKeepMayOpen DEF Receives, othersOfReceiver
<1>3. Paid(l) /\ faults \in Nat /\ faults' \in Nat
  BY ReceiverPays, LeadsAssumption DEF Receives, TypeOK, TablesTypeOK
<1>4. PICK before \in Nat : before = Owed(l)
  BY <1>3 DEF Paid
<1>5. PICK after \in Nat : after = Owed(l)'
  BY <1>3 DEF Paid
<1>6. PICK i \in Nat, j \in Nat :
        Pending(l) = i + before /\ Pending(l)' = j + after /\ j <= i
  <2>1. /\ EndsIn(hooks[l]) \in Nat /\ LateIn(requests, l) \in Nat
        /\ EndsIn(hooks'[l]) \in Nat /\ LateIn(requests', l) \in Nat
    <3>1. /\ hooks[l] \in Seq(Hook) /\ hooks'[l] \in Seq(Hook)
          /\ IsFiniteSet(requests) /\ IsFiniteSet(requests')
      BY ReceiverPays DEF Receives, TypeOK, LiveKitTypeOK, JobInv
    <3> QED BY <3>1, EndsFinite, LateFinite
  <2> DEFINE i == (IF MayOpen(l) THEN 1 ELSE 0) + (IF room[l] = "none" THEN 0 ELSE 1)
             j == (IF MayOpen(l)' THEN 1 ELSE 0) + (IF room[l] = "none" THEN 0 ELSE 1)
  <2>2. i \in Nat /\ j \in Nat /\ j <= i
    BY <1>2
  <2>3. /\ Pending(l) = i + EndsIn(hooks[l]) + LateIn(requests, l)
        /\ Pending(l)' = j + EndsIn(hooks'[l]) + LateIn(requests', l)
    BY <1>1 DEF Pending
  <2>4. before = EndsIn(hooks[l]) + LateIn(requests, l)
        /\ after = EndsIn(hooks'[l]) + LateIn(requests', l)
    BY <1>4, <1>5 DEF Owed
  <2> HIDE DEF i, j
  <2> QED BY <2>1, <2>2, <2>3, <2>4
<1>8. Given(l, c) \in Nat /\ Given(l, c)' \in Nat
  BY GivenMoves
<1>9. PICK given \in Nat : given = Given(l, c)'
  BY <1>8
<1>10. i + before + Given(l, c) <= 1 + faults
  BY <1>6 DEF JobInv
<1>11. CASE given = Given(l, c) /\ after + faults <= before + faults'
  <2>1. j + after + given <= 1 + faults'
    BY <1>3, <1>4, <1>5, <1>6, <1>8, <1>9, <1>10, <1>11
  <2> QED BY <1>6, <1>9, <2>1
<1>12. CASE given <= Given(l, c) + 1 /\ after + 1 + faults <= before + faults'
  <2>1. j + after + given <= 1 + faults'
    BY <1>3, <1>4, <1>5, <1>6, <1>8, <1>9, <1>10, <1>12
  <2> QED BY <1>6, <1>9, <2>1
<1>13. CASE enqueued' = enqueued
  BY <1>3, <1>4, <1>5, <1>9, <1>11, <1>13, GivenMoves DEF Paid
<1>14. ASSUME NEW r \in requests, r.call \in CallIds, calls[r.call] # NoRow,
              calls[r.call].lead = r.lead, enqueued' = [enqueued EXCEPT ![r.call] = @ + 1],
              r.lead = l => Owed(l)' + 1 + faults <= Owed(l) + faults'
       PROVE  Pending(l)' + Given(l, c)' <= 1 + faults'
  <2>1. enqueued \in [CallIds -> Nat]
    BY DEF TypeOK, ReceiverTypeOK
  <2>2. CASE c # r.call
    BY <1>3, <1>4, <1>5, <1>9, <1>11, <1>14, <2>1, <2>2, GivenMoves DEF Paid
  <2>3. CASE c = r.call /\ r.lead = l
    BY <1>4, <1>5, <1>9, <1>12, <1>14, <2>1, <2>3, GivenMoves
  <2>4. CASE c = r.call /\ r.lead # l
    <3>1. Given(l, c) = 0 /\ Given(l, c)' = 0
      BY <1>14, <2>4, GivenMoves DEF Given
    <3> QED BY <1>3, <1>4, <1>5, <1>9, <1>11, <3>1 DEF Paid
  <2> QED BY <2>2, <2>3, <2>4
<1> QED BY <1>13, <1>14, ReceiverPays DEF Receives

LEMMA OthersKeepAccount ==
    ASSUME TypeOK, TypeOK', RefsOK, DialInv, JobInv, [Next]_vars, ~Receives,
           NEW l \in Leads, NEW c \in CallIds
    PROVE  Pending(l)' + Given(l, c)' <= 1 + faults'
<1>1. requests' = requests /\ enqueued' = enqueued /\ IsFiniteSet(requests)
  BY RoomsMove DEF JobInv
<1>2. faults \in Nat /\ faults' \in Nat
  BY LeadsAssumption DEF TypeOK, TablesTypeOK
<1> SUFFICES NoGain(l)
  <2>1. Pending(l) + Given(l, c) <= 1 + faults
    BY DEF JobInv
  <2>2. Given(l, c) \in Nat /\ Given(l, c)' = Given(l, c)
    BY <1>1, GivenMoves
  <2>3. Pending(l) \in Nat
    <3>1. hooks[l] \in Seq(Hook)
      BY DEF TypeOK, LiveKitTypeOK
    <3>2. EndsIn(hooks[l]) \in Nat /\ LateIn(requests, l) \in Nat
      BY <1>1, <3>1, EndsFinite, LateFinite
    <3> QED BY <3>2 DEF Pending
  <2>4. Pending(l)' \in Nat
    <3>1. hooks'[l] \in Seq(Hook)
      BY DEF TypeOK, LiveKitTypeOK
    <3>2. EndsIn(hooks'[l]) \in Nat /\ LateIn(requests', l) \in Nat
      BY <1>1, <3>1, EndsFinite, LateFinite
    <3> QED BY <3>2 DEF Pending
  <2>5. PICK after \in Nat : after = Pending(l)'
    BY <2>4
  <2>6. ASSUME after + faults <= Pending(l) + faults'
        PROVE  after + Given(l, c) <= 1 + faults'
    BY <1>2, <2>1, <2>2, <2>3, <2>6
  <2> QED BY <2>2, <2>5, <2>6 DEF NoGain
<1>3. CASE WorkerNext
  BY <1>1, <1>3, WorkerGainsNothing
<1>4. CASE LiveKitNext /\ UNCHANGED othersOfLiveKit
  BY <1>1, <1>4, LiveKitGainsNothing
<1>5. ASSUME workerVars' = workerVars, room' = room, hooks' = hooks, faults' = faults \/ Fault
      PROVE  NoGain(l)
  <2>1. UNCHANGED <<workerVars, room, hooks, requests>> /\ faults' >= faults
    BY <1>1, <1>2, <1>5 DEF Fault
  <2> QED BY <1>1, <2>1, TablesGainNothing
<1>6. CASE AgentNext /\ UNCHANGED othersOfAgent
  <2>1. room' = room /\ hooks' = hooks /\ (faults' = faults \/ Fault)
    BY <1>6 DEF AgentNext, Saving, SessionEnds, FindsCallToSave, SaveTranscript,
       TranscriptDropped, SessionCrashes, JobEnds, tableVars
  <2>2. workerVars' = workerVars
    BY <1>6 DEF othersOfAgent
  <2> QED BY <1>5, <2>1, <2>2
<1>7. CASE AnalysisNext /\ UNCHANGED othersOfAnalysis
  <2>1. room' = room /\ hooks' = hooks /\ (faults' = faults \/ Fault)
    BY <1>7 DEF AnalysisNext, Analysing, ReadTranscript, Extract, WriteResult, NotifyN8n,
       AnalysisRaises, WorkHorseKilled, livekitVars, tableVars
  <2>2. workerVars' = workerVars
    BY <1>7 DEF othersOfAnalysis
  <2> QED BY <1>5, <2>1, <2>2
<1>8. CASE \/ DashboardNext /\ UNCHANGED othersOfTables
           \/ (\E m \in Leads : BackoffElapses(m)) /\ UNCHANGED othersOfTables
           \/ (\E p \in Phones : RegistryImport(p)) /\ UNCHANGED othersOfTables
           \/ UNCHANGED vars
  BY <1>5, <1>8 DEF DashboardNext, CreateCampaign, UploadLeads, AssignLeads, BackoffElapses,
     RegistryImport, othersOfTables, livekitVars, tableVars, vars
<1> QED BY <1>3, <1>4, <1>6, <1>7, <1>8 DEF Next, Receives

LEMMA StepsKeepJobInv ==
    ASSUME TypeOK, TypeOK', RefsOK, DialInv, JobInv, [Next]_vars
    PROVE  JobInv'
<1>1. IsFiniteSet(requests')
  <2>1. CASE ApiCrashes
    BY <2>1, FS_EmptySet DEF ApiCrashes
  <2>2. CASE Leads = {}
    <3>1. requests = {}
      BY <2>2 DEF TypeOK, ReceiverTypeOK, Request
    <3> QED BY <2>1, <2>2, <3>1, RoomsMove DEF JobInv, Receives, ReceiverNext
  <2>3. CASE Leads # {}
    BY <2>3, ReceiverPays, RoomsMove DEF JobInv, Receives
  <2> QED BY <2>2, <2>3
<1>2. \A r \in requests' : Tracked(r)'
  BY StepsKeepTracked
<1>3. \A c \in CallIds : calls'[c] = NoRow => enqueued'[c] = 0
  BY StepsKeepGiven
<1>4. \A l \in Leads, c \in CallIds : Pending(l)' + Given(l, c)' <= 1 + faults'
  BY ReceiverKeepsAccount, OthersKeepAccount
<1> QED BY <1>1, <1>2, <1>3, <1>4 DEF JobInv

JobsDialInv == JobInv /\ DialInv

\* What the failures so far allow is never exceeded: a handler answers 500 and
\* is sent its webhook again, a worker dies after a dial and dials again, an
\* answer is lost and its handler goes on nevertheless, and still a call is
\* given at most one job, and one more for each of those failures, for every
\* number of leads, calls and failures.
THEOREM OneJobPerCall == Spec => []OneMoreJobPerFault
<1>1. Init => JobsDialInv
  <2>1. ASSUME Init PROVE JobInv
    <3>1. requests = {} /\ faults = 0 /\ worker = "off"
      BY <2>1 DEF Init, ReceiverInit, TablesInit, WorkerInit
    <3>2. \A l \in Leads : room[l] = "none" /\ hooks[l] = <<>> /\ LateIn(requests, l) = 0
      <4>1. \A l \in Leads : {r \in requests : IsLate(r, l)} = {}
        BY <3>1
      <4>2. \A l \in Leads : LateIn(requests, l) = 0
        BY <4>1, FS_EmptySet DEF LateIn
      <4> QED BY <2>1, <4>2 DEF Init, LiveKitInit
    <3>3. \A l \in Leads : EndsIn(hooks[l]) = 0
      BY <3>2, EndsOfEmpty
    <3>4. \A l \in Leads, c \in CallIds : Given(l, c) = 0
      BY <2>1 DEF Given, Init, TablesInit, ReceiverInit
    <3>5. \A l \in Leads, c \in CallIds : Pending(l) + Given(l, c) <= 1 + faults
      BY <3>1, <3>2, <3>3, <3>4 DEF Pending
    <3>6. \A c \in CallIds : enqueued[c] = 0
      BY <2>1 DEF Init, ReceiverInit
    <3>7. IsFiniteSet(requests)
      BY <3>1, FS_EmptySet
    <3> QED BY <3>1, <3>5, <3>6, <3>7 DEF JobInv
  <2>2. Init => DialInv
    BY DEF Init, TablesInit, WorkerInit, DialInv, DialedAgainOnlyIfUnrecorded
  <2> QED BY <2>1, <2>2 DEF JobsDialInv
<1>2. TypeOK /\ TypeOK' /\ RefsOK /\ JobsDialInv /\ [Next]_vars => JobsDialInv'
  BY StepsKeepJobInv, WorkerOrOthers, WorkerKeepsDialInv, OthersKeepDialInv DEF JobsDialInv
<1>3. ASSUME TypeOK, JobsDialInv PROVE OneMoreJobPerFault
  <2> SUFFICES ASSUME NEW c \in CallIds PROVE enqueued[c] <= 1 + faults
    BY DEF OneMoreJobPerFault
  <2>1. enqueued[c] \in Nat /\ faults \in Nat
    BY <1>3, LeadsAssumption DEF TypeOK, ReceiverTypeOK, TablesTypeOK
  <2>2. CASE calls[c] = NoRow
    BY <1>3, <2>1, <2>2 DEF JobsDialInv, JobInv
  <2>3. CASE calls[c] # NoRow
    <3> DEFINE l == calls[c].lead
    <3>1. l \in Leads
      BY <1>3, <2>3 DEF TypeOK, TablesTypeOK, CallRow
    <3> HIDE DEF l
    <3>2. hooks[l] \in Seq(Hook) /\ IsFiniteSet(requests)
      BY <1>3, <3>1 DEF TypeOK, LiveKitTypeOK, JobsDialInv, JobInv
    <3>3. EndsIn(hooks[l]) \in Nat /\ LateIn(requests, l) \in Nat
      BY <3>2, EndsFinite, LateFinite
    <3>4. Pending(l) \in Nat
      BY <3>3 DEF Pending
    <3>5. Given(l, c) = enqueued[c]
      BY <2>3 DEF Given, l
    <3>6. Pending(l) + Given(l, c) <= 1 + faults
      BY <1>3, <3>1 DEF JobsDialInv, JobInv
    <3> QED BY <2>1, <3>4, <3>5, <3>6
  <2> QED BY <2>2, <2>3
<1> QED BY <1>1, <1>2, <1>3, TypeCorrect, ReferencesKept, PTL DEF Spec
=============================================================================
