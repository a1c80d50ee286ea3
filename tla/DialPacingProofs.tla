--------------------------- MODULE DialPacingProofs ---------------------------
(***************************************************************************)
(* The timing of the dialing worker, for any batch size, interval, calling  *)
(* hours, timezones and durations of a request.                             *)
(***************************************************************************)
EXTENDS DialPacing, FiniteSetTheorems, TLAPS

(***************************************************************************)
(* Arithmetic.                                                              *)
(***************************************************************************)
LEMMA OneSlotMore == ASSUME NEW n \in Int, NEW s \in Int PROVE (n + 1) * s = n * s + s
OBVIOUS

LEMMA MoreSlots ==
    ASSUME NEW m \in Int, NEW n \in Int, NEW s \in Nat, m <= n
    PROVE  m * s <= n * s
OBVIOUS

LEMMA BackoffIsNat == \A n \in Nat : Backoff(n) \in Nat
BY DEF Backoff

-----------------------------------------------------------------------------
LEMMA SmallerBatch ==
    ASSUME NEW S, S \subseteq Leads, NEW T, T \subseteq S
    PROVE  /\ Cardinality(S) \in Nat /\ Cardinality(T) \in Nat
           /\ Cardinality(T) <= Cardinality(S)
<1>1. IsFiniteSet(S)
  BY PacingAssumption, FS_Subset
<1> QED BY <1>1, FS_Subset, FS_CardinalityType

LEMMA FetchedBatch ==
    ASSUME NEW ls \in SUBSET Leads, FetchBatch(ls)
    PROVE  batch' \subseteq Leads /\ Cardinality(batch') <= BatchSize
<1>1. batch' \subseteq ls /\ Cardinality(ls) <= BatchSize
  BY DEF FetchBatch, IsFetch
<1>2. Cardinality(ls) \in Nat /\ Cardinality(batch') \in Nat /\ Cardinality(batch') <= Cardinality(ls)
  BY <1>1, SmallerBatch
<1> QED BY <1>1, <1>2, PacingAssumption

\* Every variable keeps its type, and the batch its limit.
LEMMA StepsKeepType == ASSUME TypeOK, [Next]_vars PROVE TypeOK'
<1> USE PacingAssumption DEF TypeOK, WorkerPoints, Requesting, Sleeping
<1>1. CASE StartWorker
  BY <1>1 DEF StartWorker, NoDial, rows
<1>2. ASSUME NEW ls \in SUBSET Leads, FetchBatch(ls) PROVE TypeOK'
  BY <1>2, FetchedBatch DEF FetchBatch, rows
<1>3. ASSUME NEW l \in Leads, NextLead(l) PROVE TypeOK'
  <2>1. batch' = batch \ {l}
    BY <1>3 DEF NextLead
  <2>2. batch' \subseteq Leads /\ Cardinality(batch') <= BatchSize
    BY <2>1, SmallerBatch
  <2> QED BY <1>3, <2>2 DEF NextLead, Sleep, rows
<1>4. CASE BatchEnds
  BY <1>4 DEF BatchEnds, Sleep, rows
<1>5. CASE Wakes \/ RoomCreated \/ Tick
  BY <1>5 DEF Wakes, RoomCreated, Tick, rows
<1>6. CASE DialPlaced
  <2>1. lastDial' \in [lead : Leads \cup {NoLead}, at : Nat, checked : Nat]
    BY <1>6 DEF DialPlaced
  <2>2. /\ UNCHANGED <<now, deadline, batch, current, status, retryCount, nextRetry, faults>>
        /\ UNCHANGED <<checkedAt, failedAt>>
        /\ worker' = "dialed"
    BY <1>6 DEF DialPlaced, rows
  <2>3. worker' \in WorkerPoints
    BY <2>2
  <2>4. /\ now' \in Nat /\ deadline' \in Nat /\ checkedAt' \in Nat
        /\ batch' \subseteq Leads /\ Cardinality(batch') <= BatchSize
        /\ current' \in Leads \cup {NoLead}
        /\ faults' \in 0..MaxFaults
    BY <2>2
  <2>5. /\ status' \in [Leads -> {"PENDING", "CALLING"}]
        /\ retryCount' \in [Leads -> Nat] /\ nextRetry' \in [Leads -> Nat]
        /\ failedAt' \in [Leads -> Nat]
    BY <2>2
  <2> QED BY <2>1, <2>3, <2>4, <2>5, Zenon DEF TypeOK
<1>7. CASE DialAnswered
  <2>1. status' \in [Leads -> {"PENDING", "CALLING"}]
    BY <1>7 DEF DialAnswered
  <2>2. /\ worker' = "pause" /\ deadline' = now + 1 /\ current' = NoLead
        /\ UNCHANGED <<now, batch, retryCount, nextRetry, faults, checkedAt, failedAt, lastDial>>
    BY <1>7 DEF DialAnswered, Sleep
  <2> QED BY <2>1, <2>2
<1>8. CASE RequestFails
  <2>1. \A l \in Leads : retryCount[l] + 1 \in Nat /\ now + Backoff(retryCount[l] + 1) \in Nat
    BY BackoffIsNat
  <2>2. /\ retryCount' \in [Leads -> Nat] /\ nextRetry' \in [Leads -> Nat]
        /\ failedAt' \in [Leads -> Nat]
    BY <1>8, <2>1 DEF RequestFails
  <2> QED BY <1>8, <2>2 DEF RequestFails, Sleep, Faults
<1>9. CASE CommitFails \/ WorkerCrashes
  <2>1. Cardinality({}) = 0
    BY FS_EmptySet
  <2> QED BY <1>9, <2>1 DEF CommitFails, WorkerCrashes, Sleep, Faults, rows
<1>10. ASSUME NEW l \in Leads, SessionGetFails(l) PROVE TypeOK'
  <2>1. batch' \subseteq batch
    BY <1>10 DEF SessionGetFails
  <2>2. batch' \subseteq Leads /\ Cardinality(batch') <= BatchSize
    BY <2>1, SmallerBatch
  <2> QED BY <1>10, <2>2 DEF SessionGetFails, Faults, rows
<1>11. CASE UNCHANGED vars
  BY <1>11 DEF vars, rows
<1> QED BY <1>1, <1>2, <1>3, <1>4, <1>5, <1>6, <1>7, <1>8, <1>9, <1>10, <1>11 DEF Next

\* Every variable of the worker and its clock keeps its type, and no batch is
\* larger than its limit, for any instance.
THEOREM PacingTypeCorrect == Spec => []TypeOK
<1>1. Init => TypeOK
  <2>1. Cardinality({}) = 0
    BY FS_EmptySet
  <2> QED BY <2>1, PacingAssumption DEF Init, TypeOK, WorkerPoints, NoDial
<1> QED BY <1>1, StepsKeepType, PTL DEF Spec

-----------------------------------------------------------------------------
(***************************************************************************)
(* The pace: wherever the process is before its next dial, a second has     *)
(* passed since the last one, or will have when it wakes.                   *)
(***************************************************************************)
Paced ==
    /\ lastDial # NoDial /\ worker \in {"poll", "next", "create_room", "create_sip"}
          => now >= lastDial.at + 1
    /\ lastDial # NoDial /\ worker \in Sleeping => deadline >= lastDial.at + 1
    /\ lastDial # NoDial => lastDial.at <= now
    /\ worker \in Requesting => current \in Leads

LEMMA StepsKeepPace == ASSUME TypeOK, Paced, [Next]_vars PROVE Paced'
<1> USE PacingAssumption DEF TypeOK, Paced, WorkerPoints, Requesting, Sleeping
<1>1. CASE StartWorker
  BY <1>1 DEF StartWorker
<1>2. ASSUME NEW ls \in SUBSET Leads, FetchBatch(ls) PROVE Paced'
  BY <1>2 DEF FetchBatch
<1>3. ASSUME NEW l \in Leads, NextLead(l) PROVE Paced'
  BY <1>3 DEF NextLead, Sleep
<1>4. CASE BatchEnds
  BY <1>4 DEF BatchEnds, Sleep
<1>5. CASE Wakes
  BY <1>5 DEF Wakes
<1>6. CASE RoomCreated
  BY <1>6 DEF RoomCreated
<1>7. CASE DialPlaced
  BY <1>7 DEF DialPlaced
<1>8. CASE DialAnswered
  BY <1>8 DEF DialAnswered, Sleep
<1>9. CASE RequestFails
  BY <1>9 DEF RequestFails, Sleep
<1>10. CASE CommitFails
  BY <1>10 DEF CommitFails, Sleep
<1>11. CASE WorkerCrashes
  BY <1>11 DEF WorkerCrashes
<1>12. CASE Tick
  BY <1>12 DEF Tick
<1>13. ASSUME NEW l \in Leads, SessionGetFails(l) PROVE Paced'
  BY <1>13 DEF SessionGetFails
<1>14. CASE UNCHANGED vars
  BY <1>14 DEF vars
<1> QED BY <1>1, <1>2, <1>3, <1>4, <1>5, <1>6, <1>7, <1>8, <1>9, <1>10, <1>11, <1>12, <1>13, <1>14
        DEF Next

\* Only DialPlaced moves from one dial to another, and it waits for the pace.
LEMMA DialsApart ==
    ASSUME TypeOK, Paced, [Next]_vars,
           lastDial' # lastDial, lastDial # NoDial, lastDial' # NoDial
    PROVE  lastDial'.at >= lastDial.at + 1
<1>1. DialPlaced
  BY DEF Next, vars, StartWorker, FetchBatch, NextLead, BatchEnds, Wakes, RoomCreated,
         DialAnswered, RequestFails, CommitFails, SessionGetFails, WorkerCrashes, Tick
<1>2. lastDial'.at = now
  BY <1>1 DEF DialPlaced
<1>3. now >= lastDial.at + 1
  BY <1>1 DEF DialPlaced, Paced
<1> QED BY <1>2, <1>3

\* No two dials of one process are less than a second apart, whatever the
\* duration of its requests and the failures between them.
THEOREM PaceKept == Spec => DialsPaced
<1>1. Init => Paced
  BY DEF Init, Paced, Sleeping, Requesting
<1>2. TypeOK /\ Paced /\ [Next]_vars
        => [lastDial' # lastDial /\ lastDial # NoDial /\ lastDial' # NoDial
               => lastDial'.at >= lastDial.at + 1]_vars
  BY DialsApart
<1> QED BY <1>1, <1>2, StepsKeepPace, PacingTypeCorrect, PTL DEF Spec, DialsPaced

-----------------------------------------------------------------------------
(***************************************************************************)
(* The calling hours: a dispatch takes at most a slot, so the time since    *)
(* the hours were checked is bounded by the leads that left the batch.      *)
(***************************************************************************)
Spent == (BatchSize - Cardinality(batch)) * Slot

LastDialInHours ==
    lastDial # NoDial =>
        /\ lastDial.lead \in Leads
        /\ WithinHours(lastDial.lead, lastDial.checked)
        /\ lastDial.at < lastDial.checked + BatchSize * Slot

Fresh ==
    /\ \A l \in batch : WithinHours(l, checkedAt)
    /\ worker \in Requesting => current \in Leads /\ WithinHours(current, checkedAt)
    /\ worker = "next" => now <= checkedAt + Spent
    /\ worker = "create_room" =>
          now <= deadline /\ deadline <= checkedAt + Spent - (MaxRequest + 1)
    /\ worker \in {"create_sip", "dialed"} =>
          now <= deadline /\ deadline <= checkedAt + Spent - 1
    /\ worker = "pause" => now <= deadline /\ deadline <= checkedAt + Spent
    /\ LastDialInHours

LEMMA SpentType == ASSUME TypeOK PROVE Spent \in Int /\ Spent <= BatchSize * Slot
<1>1. Cardinality(batch) \in Nat
  BY SmallerBatch DEF TypeOK
<1>2. Slot \in Nat
  BY PacingAssumption DEF Slot
<1>3. BatchSize - Cardinality(batch) <= BatchSize
  BY <1>1, PacingAssumption
<1> QED BY <1>1, <1>2, <1>3, MoreSlots, PacingAssumption DEF Spent

\* The clause of Fresh about the batch, and its slots, where the batch stays.
LEMMA SameBatch ==
    ASSUME Fresh, UNCHANGED <<batch, checkedAt>>
    PROVE  Spent' = Spent /\ \A l \in batch' : WithinHours(l, checkedAt')
BY DEF Fresh, Spent, WithinHours, LocalHour

LEMMA FetchKeepsFresh ==
    ASSUME TypeOK, TypeOK', Fresh, NEW ls \in SUBSET Leads, FetchBatch(ls)
    PROVE  Fresh'
<1>1. /\ worker' = "next" /\ checkedAt' = now
      /\ UNCHANGED <<now, lastDial>>
      /\ batch' = {l \in ls : WithinHours(l, now)}
  BY DEF FetchBatch
<1>2. Spent' \in Nat
  <2>1. Cardinality(batch') \in Nat /\ Cardinality(batch') <= BatchSize
    BY SmallerBatch DEF TypeOK
  <2>2. Slot \in Nat /\ BatchSize - Cardinality(batch') \in Nat
    BY <2>1, PacingAssumption DEF Slot
  <2> QED BY <2>2, MoreSlots DEF Spent
<1>3. \A l \in batch' : WithinHours(l, checkedAt')
  BY <1>1 DEF WithinHours, LocalHour
<1>4. LastDialInHours'
  BY <1>1 DEF Fresh, LastDialInHours, WithinHours, LocalHour
<1>5. now' <= checkedAt' + Spent'
  <2>1. now \in Nat
    BY DEF TypeOK
  <2>2. PICK n \in Nat : n = Spent'
    BY <1>2
  <2>3. now <= now + n
    BY <2>1
  <2> QED BY <1>1, <2>2, <2>3
<1>6. worker' \notin Requesting \cup {"pause"}
  BY <1>1 DEF Requesting
<1> QED BY <1>3, <1>4, <1>5, <1>6 DEF Fresh, Requesting

LEMMA NextLeadKeepsFresh ==
    ASSUME TypeOK, TypeOK', Fresh, NEW l \in Leads, NextLead(l)
    PROVE  Fresh'
<1>1. /\ worker = "next" /\ l \in batch /\ batch' = batch \ {l}
      /\ UNCHANGED <<now, checkedAt, lastDial>>
  BY DEF NextLead
<1>2. Spent' = Spent + Slot
  <2>1. IsFiniteSet(batch)
    BY FS_Subset, PacingAssumption DEF TypeOK
  <2>2. Cardinality(batch') = Cardinality(batch) - 1 /\ Cardinality(batch) \in Nat
    BY <1>1, <2>1, FS_RemoveElement, FS_CardinalityType
  <2>3. BatchSize - Cardinality(batch') = (BatchSize - Cardinality(batch)) + 1
    BY <2>2, PacingAssumption
  <2>4. Slot \in Int /\ BatchSize - Cardinality(batch) \in Int
    BY <2>2, PacingAssumption DEF Slot
  <2> QED BY <2>3, <2>4, OneSlotMore DEF Spent
<1>3. /\ \A m \in batch' : WithinHours(m, checkedAt')
      /\ WithinHours(l, checkedAt')
  BY <1>1 DEF Fresh, WithinHours, LocalHour
<1>4. LastDialInHours'
  BY <1>1 DEF Fresh, LastDialInHours, WithinHours, LocalHour
<1>5. Spent \in Int /\ Slot = 2 * MaxRequest + 1
  BY SpentType DEF Slot
<1>6. now <= checkedAt + Spent
  BY <1>1 DEF Fresh
<1>7. CASE l \in Refused
  <2>1. worker' = "pause" /\ deadline' = now + 1
    BY <1>7 DEF NextLead, Sleep
  <2> QED BY <1>1, <1>2, <1>3, <1>4, <1>5, <1>6, <2>1, PacingAssumption
          DEF Fresh, TypeOK, Requesting
<1>8. CASE l \notin Refused
  <2>1. worker' = "create_room" /\ deadline' = now + MaxRequest /\ current' = l
    BY <1>8 DEF NextLead
  <2>2. WithinHours(current', checkedAt')
    BY <1>3, <2>1 DEF WithinHours, LocalHour
  <2> QED BY <1>1, <1>2, <1>3, <1>4, <1>5, <1>6, <2>1, <2>2, PacingAssumption
          DEF Fresh, TypeOK, Requesting
<1> QED BY <1>7, <1>8

\* A lead the database keeps from its dispatch takes no time.
LEMMA GetKeepsFresh ==
    ASSUME TypeOK, TypeOK', Fresh, NEW l \in Leads, SessionGetFails(l)
    PROVE  Fresh'
<1>1. /\ worker = "next" /\ worker' = "next" /\ batch' \subseteq batch
      /\ UNCHANGED <<now, checkedAt, lastDial>>
  BY DEF SessionGetFails
<1>2. Spent <= Spent'
  <2>1. /\ Cardinality(batch') \in Nat /\ Cardinality(batch) \in Nat
        /\ Cardinality(batch') <= Cardinality(batch)
    BY <1>1, SmallerBatch DEF TypeOK
  <2>2. /\ BatchSize - Cardinality(batch) \in Int /\ BatchSize - Cardinality(batch') \in Int
        /\ BatchSize - Cardinality(batch) <= BatchSize - Cardinality(batch')
    BY <2>1, PacingAssumption
  <2>3. Slot \in Nat
    BY PacingAssumption DEF Slot
  <2> QED BY <2>2, <2>3, MoreSlots DEF Spent
<1>3. \A m \in batch' : WithinHours(m, checkedAt')
  BY <1>1 DEF Fresh, WithinHours, LocalHour
<1>4. LastDialInHours'
  BY <1>1 DEF Fresh, LastDialInHours, WithinHours, LocalHour
<1>5. now' <= checkedAt' + Spent'
  <2>1. now <= checkedAt + Spent
    BY <1>1 DEF Fresh
  <2>2. now \in Nat /\ checkedAt \in Nat /\ Spent \in Int
    BY SpentType DEF TypeOK
  <2>3. PICK n \in Int : n = Spent'
    <3>1. Cardinality(batch') \in Nat
      BY SmallerBatch DEF TypeOK
    <3> QED BY <3>1, PacingAssumption DEF Spent, Slot
  <2>4. PICK m \in Int : m = Spent
    BY <2>2
  <2>5. m <= n
    BY <1>2, <2>3, <2>4
  <2>6. now <= checkedAt + n
    BY <2>1, <2>2, <2>4, <2>5
  <2> QED BY <1>1, <2>3, <2>6
<1> QED BY <1>1, <1>3, <1>4, <1>5 DEF Fresh, Requesting

LEMMA DialKeepsFresh == ASSUME TypeOK, Fresh, DialPlaced PROVE Fresh'
<1>1. /\ worker = "create_sip" /\ worker' = "dialed"
      /\ lastDial' = [lead |-> current, at |-> now, checked |-> checkedAt]
      /\ UNCHANGED <<now, deadline, batch, current, checkedAt>>
  BY DEF DialPlaced
<1>2. Spent' = Spent /\ \A l \in batch' : WithinHours(l, checkedAt')
  BY <1>1, SameBatch
<1>3. /\ current \in Leads /\ WithinHours(current, checkedAt)
      /\ now <= deadline /\ deadline <= checkedAt + Spent - 1
  BY <1>1 DEF Fresh, Requesting
<1>4. now < checkedAt + BatchSize * Slot
  <2>1. BatchSize * Slot \in Int
    BY PacingAssumption DEF Slot
  <2> QED BY <1>3, <2>1, SpentType DEF TypeOK
<1>5. LastDialInHours'
  BY <1>1, <1>3, <1>4 DEF LastDialInHours, WithinHours, LocalHour
<1>6. WithinHours(current', checkedAt')
  BY <1>1, <1>3 DEF WithinHours, LocalHour
<1> QED BY <1>1, <1>2, <1>3, <1>5, <1>6 DEF Fresh

\* The steps that leave the batch, its check and the last dial alone.
Elsewhere == UNCHANGED <<batch, checkedAt, lastDial>>

LEMMA OthersKeepFresh ==
    ASSUME TypeOK, Fresh, Elsewhere, Wakes \/ RoomCreated \/ DialAnswered \/ RequestFails \/ Tick
    PROVE  Fresh'
<1>1. Spent' = Spent /\ \A l \in batch' : WithinHours(l, checkedAt')
  BY SameBatch DEF Elsewhere
<1>2. LastDialInHours'
  BY DEF Elsewhere, Fresh, LastDialInHours, WithinHours, LocalHour
<1>3. Spent \in Int
  BY SpentType
<1>4. current' = current /\ WithinHours(current, checkedAt) => WithinHours(current', checkedAt')
  BY DEF Elsewhere, WithinHours, LocalHour
<1> USE PacingAssumption, <1>1, <1>2, <1>3, <1>4 DEF Fresh, TypeOK, Elsewhere, Requesting, Sleeping
<1>5. CASE Wakes
  BY <1>5 DEF Wakes
<1>6. CASE RoomCreated
  BY <1>6 DEF RoomCreated
<1>7. CASE DialAnswered
  BY <1>7 DEF DialAnswered, Sleep
<1>8. CASE RequestFails
  BY <1>8 DEF RequestFails, Sleep
<1>9. CASE Tick
  BY <1>9 DEF Tick
<1> QED BY <1>5, <1>6, <1>7, <1>8, <1>9

LEMMA StepsKeepFresh == ASSUME TypeOK, TypeOK', Fresh, [Next]_vars PROVE Fresh'
<1>1. CASE StartWorker
  BY <1>1, SameBatch DEF StartWorker, Fresh, LastDialInHours, Requesting
<1>2. CASE BatchEnds
  BY <1>2 DEF BatchEnds, Sleep, Fresh, LastDialInHours, Requesting, WithinHours, LocalHour
<1>3. CASE CommitFails
  BY <1>3 DEF CommitFails, Sleep, Fresh, LastDialInHours, Requesting, WithinHours, LocalHour
<1>4. CASE WorkerCrashes
  BY <1>4 DEF WorkerCrashes, Fresh, LastDialInHours, Requesting, WithinHours, LocalHour
<1>5. CASE Wakes \/ RoomCreated \/ DialAnswered \/ RequestFails \/ Tick
  <2>1. Elsewhere
    BY <1>5 DEF Elsewhere, Wakes, RoomCreated, DialAnswered, RequestFails, Tick
  <2> QED BY <1>5, <2>1, OthersKeepFresh
<1>6. CASE UNCHANGED vars
  BY <1>6, SameBatch DEF vars, Fresh, LastDialInHours, Requesting, WithinHours, LocalHour
<1> QED BY <1>1, <1>2, <1>3, <1>4, <1>5, <1>6, FetchKeepsFresh, NextLeadKeepsFresh, DialKeepsFresh,
           GetKeepsFresh DEF Next

\* An hour in the calling hours is a second of the day in their range.
LEMMA HoursInSeconds ==
    ASSUME NEW l \in Leads, NEW t \in Nat, WithinHours(l, t)
    PROVE  (t + UtcOffset[l]) % 86400 \in (3600 * StartHour)..(3600 * EndHour - 1)
<1>1. t + UtcOffset[l] \in Int
  BY PacingAssumption
<1>2. PICK x \in Int : x = t + UtcOffset[l]
  BY <1>1
<1>3. PICK d \in Int : d = x \div 3600
  OBVIOUS
<1>4. 3600 * d <= x /\ x < 3600 * d + 3600
  BY <1>3
<1>5. PICK h \in Int : h = d % 24
  OBVIOUS
<1>6. PICK q \in Int : q = d \div 24
  OBVIOUS
<1>7. d = 24 * q + h /\ 0 <= h /\ h < 24
  BY <1>5, <1>6
<1>8. PICK s \in Int : s = x % 86400
  OBVIOUS
<1>9. PICK p \in Int : p = x \div 86400
  OBVIOUS
<1>10. x = 86400 * p + s /\ 0 <= s /\ s < 86400
  BY <1>8, <1>9
<1>11. p = q /\ 3600 * h <= s /\ s < 3600 * h + 3600
  BY <1>4, <1>7, <1>10
<1>12. StartHour <= h /\ h < EndHour
  BY <1>2, <1>3, <1>5 DEF WithinHours, LocalHour
<1>13. s \in (3600 * StartHour)..(3600 * EndHour - 1)
  BY <1>11, <1>12, PacingAssumption
<1> QED BY <1>2, <1>8, <1>13

\* Every dialed lead was inside its calling hours less than a batch of
\* dispatches before, for any batch size and any duration of a request.
THEOREM HoursKept == Spec => []DialedSoonAfterHours
<1>1. Init => Fresh
  BY DEF Init, Fresh, LastDialInHours, Requesting
<1>2. TypeOK /\ Fresh => DialedSoonAfterHours
  <2> SUFFICES ASSUME TypeOK, Fresh, lastDial # NoDial PROVE DialedSoonAfterHours
    BY DEF DialedSoonAfterHours
  <2>1. lastDial.lead \in Leads /\ lastDial.checked \in Nat
    BY DEF Fresh, LastDialInHours, TypeOK
  <2>2. WithinHours(lastDial.lead, lastDial.checked)
    BY DEF Fresh, LastDialInHours
  <2> QED BY <2>1, <2>2, HoursInSeconds DEF DialedSoonAfterHours, Fresh, LastDialInHours
<1> QED BY <1>1, <1>2, StepsKeepFresh, PacingTypeCorrect, PTL DEF Spec

-----------------------------------------------------------------------------
(***************************************************************************)
(* The backoff: it is checked when a lead is fetched, and no failure of     *)
(* that lead is recorded between the fetch and its dial.                    *)
(***************************************************************************)
Rested ==
    /\ \A l \in Leads : retryCount[l] > FailedBefore[l]
          => nextRetry[l] = failedAt[l] + Backoff(retryCount[l])
    /\ \A l \in batch : nextRetry[l] <= now
    /\ worker \in Requesting =>
          current \in Leads /\ current \notin batch /\ nextRetry[current] <= now

LEMMA StepsKeepRested == ASSUME TypeOK, Rested, [Next]_vars PROVE Rested'
<1> USE PacingAssumption DEF TypeOK, Rested, WorkerPoints, Requesting, Sleeping
<1>1. CASE StartWorker \/ BatchEnds \/ Wakes \/ RoomCreated \/ Tick
  BY <1>1 DEF StartWorker, BatchEnds, Wakes, RoomCreated, Tick, Sleep, rows
<1>2. ASSUME NEW ls \in SUBSET Leads, FetchBatch(ls) PROVE Rested'
  BY <1>2 DEF FetchBatch, IsFetch, Due, rows
<1>3. ASSUME NEW l \in Leads, NextLead(l) PROVE Rested'
  BY <1>3 DEF NextLead, Sleep, rows
<1>4. CASE DialPlaced \/ DialAnswered
  BY <1>4 DEF DialPlaced, DialAnswered, Sleep, rows
<1>5. CASE RequestFails
  <2>1. /\ \A l \in Leads \ {current} : /\ retryCount'[l] = retryCount[l]
                                        /\ nextRetry'[l] = nextRetry[l]
                                        /\ failedAt'[l] = failedAt[l]
        /\ nextRetry'[current] = failedAt'[current] + Backoff(retryCount'[current])
    BY <1>5 DEF RequestFails
  <2>2. worker' = "pause" /\ batch' = batch /\ now' = now /\ current \notin batch
    BY <1>5 DEF RequestFails, Sleep
  <2> QED BY <2>1, <2>2
<1>6. CASE CommitFails \/ WorkerCrashes
  BY <1>6 DEF CommitFails, WorkerCrashes, Sleep, rows
<1>7. ASSUME NEW l \in Leads, SessionGetFails(l) PROVE Rested'
  BY <1>7 DEF SessionGetFails, rows
<1>8. CASE UNCHANGED vars
  BY <1>8 DEF vars
<1> QED BY <1>1, <1>2, <1>3, <1>4, <1>5, <1>6, <1>7, <1>8 DEF Next

LEMMA BackoffDoubles ==
    ASSUME NEW n \in Nat, n > 0
    PROVE  Backoff(n) = IF n >= 6 THEN 60 ELSE 2 ^ n
<1>1. 2 ^ 1 = 2 /\ 2 ^ 2 = 4 /\ 2 ^ 3 = 8 /\ 2 ^ 4 = 16 /\ 2 ^ 5 = 32
  OBVIOUS
<1>2. CASE n >= 6
  BY <1>2 DEF Backoff
<1>3. CASE n \in 1..5
  <2>1. n = 1 \/ n = 2 \/ n = 3 \/ n = 4 \/ n = 5
    BY <1>3
  <2>2. ~(n >= 6) /\ Backoff(n) = <<2, 4, 8, 16, 32>>[n]
    BY <1>3 DEF Backoff
  <2>3. 2 ^ n = <<2, 4, 8, 16, 32>>[n]
    <3>1. CASE n = 1
      BY <1>1, <3>1
    <3>2. CASE n = 2
      BY <1>1, <3>2
    <3>3. CASE n = 3
      BY <1>1, <3>3
    <3>4. CASE n = 4
      BY <1>1, <3>4
    <3>5. CASE n = 5
      BY <1>1, <3>5
    <3> QED BY <2>1, <3>1, <3>2, <3>3, <3>4, <3>5
  <2> QED BY <2>2, <2>3
<1> QED BY <1>2, <1>3

\* A lead is dialed only when its backoff is over: only DialPlaced dials, and
\* the lead it dials has rested since it was fetched.
LEMMA DialsRested ==
    ASSUME TypeOK, Rested, [Next]_vars, lastDial' # lastDial, lastDial' # NoDial,
           NEW l, l = lastDial'.lead, retryCount[l] > FailedBefore[l]
    PROVE  now >= failedAt[l] + (IF retryCount[l] >= 6 THEN 60 ELSE 2 ^ retryCount[l])
<1>1. DialPlaced
  BY DEF Next, vars, StartWorker, FetchBatch, NextLead, BatchEnds, Wakes, RoomCreated,
         DialAnswered, RequestFails, CommitFails, SessionGetFails, WorkerCrashes, Tick
<1>2. l = current
  BY <1>1 DEF DialPlaced
<1>3. l \in Leads /\ nextRetry[l] <= now /\ nextRetry[l] = failedAt[l] + Backoff(retryCount[l])
  BY <1>1, <1>2 DEF DialPlaced, Rested, Requesting
<1>4. retryCount[l] \in Nat /\ retryCount[l] > 0
  BY <1>3, PacingAssumption DEF TypeOK
<1>5. Backoff(retryCount[l]) = IF retryCount[l] >= 6 THEN 60 ELSE 2 ^ retryCount[l]
  BY <1>4, BackoffDoubles
<1> QED BY <1>3, <1>5

\* A lead is not dialed again before min(2 ** n, 60) seconds have passed since
\* its nth failure, for every interval, batch size and duration of a request:
\* the query checks the backoff, and between the fetch and the dial no failure
\* of the lead is recorded.
THEOREM BackoffKept == Spec => BackoffRespected
<1>1. Init => Rested
  BY PacingAssumption DEF Init, Rested, Requesting
<1>2. TypeOK /\ Rested /\ [Next]_vars
        => [lastDial' # lastDial /\ lastDial' # NoDial =>
               LET l == lastDial'.lead IN
               retryCount[l] > FailedBefore[l] =>
                   now >= failedAt[l]
                             + (IF retryCount[l] >= 6 THEN 60 ELSE 2 ^ retryCount[l])]_vars
  BY DialsRested
<1> QED BY <1>1, <1>2, StepsKeepRested, PacingTypeCorrect, PTL DEF Spec, BackoffRespected
=============================================================================
