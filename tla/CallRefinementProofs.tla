-------------------------- MODULE CallRefinementProofs --------------------------
(***************************************************************************)
(* The whole system implements DialLedger, for every number of leads,       *)
(* failures and calls: each of its steps is a step of the ledger or leaves  *)
(* the ledger alone.                                                        *)
(***************************************************************************)
EXTENDS CallSafetyProofs, CallRefinement

\* What the ledger's steps need of the system besides DialInv: no pledge is
\* left when a batch is fetched, and a dial in the worker's hands that is
\* about to be recorded is the only one not lost.
LedgerInv ==
    /\ DialInv
    /\ worker \in {"off", "poll"} => batch = {}
    /\ worker \in {"merge", "commit"} => dials[current] = unrecorded[current] + 1
    /\ \A l \in Leads : unrecorded[l] <= dials[l]

LedgerStep == Ledger!Next \/ UNCHANGED Ledger!vars

LEMMA OthersKeepLedger ==
    ASSUME TypeOK, RefsOK, LedgerInv, [Next]_vars, UNCHANGED <<workerVars, dialHistory>>,
           DialInv'
    PROVE  LedgerInv' /\ LedgerStep
<1>1. LedgerInv'
  BY DEF LedgerInv, workerVars, dialHistory
<1>2. Pledged' = Pledged /\ dials' = dials /\ unrecorded' = unrecorded
  BY DEF Pledged, workerVars, dialHistory
<1>3. Ledger!List
  BY <1>2, RegistryGrows DEF Ledger!List
<1> QED BY <1>1, <1>3 DEF LedgerStep, Ledger!Next

LEMMA WorkerKeepsLedger ==
    ASSUME TypeOK, RefsOK, LedgerInv, WorkerNext, DialInv'
    PROVE  LedgerInv' /\ LedgerStep
<1> DEFINE Alone == dials' = dials /\ unrecorded' = unrecorded
<1>1. /\ dials \in [Leads -> Nat] /\ unrecorded \in [Leads -> Nat]
      /\ worker \in HoldsLead => current \in Leads /\ current \notin batch
      /\ batch \subseteq Leads
  BY DEF TypeOK, WorkerTypeOK, RefsOK, DispatchHasLead
<1>2. dnc' = dnc
  BY DEF WorkerNext, Dispatching, StartWorker, BatchEnds, FetchBatch, UnknownTimeZone, NextLead,
     RoomCreated, RoomFails, SipDialed, SipFails, MergeDialed, MergeRetry, Merge, CommitDialed,
     CommitRetry, DialFlushed, RetryFlushed, SessionGetFails, DatabaseFails, WorkerCrashes, tableVars
<1>3. ASSUME Alone, Pledged' \subseteq Pledged PROVE LedgerStep
  BY <1>2, <1>3 DEF LedgerStep, Ledger!Next, Ledger!Release
<1>4. CASE StartWorker \/ BatchEnds \/ \E rows \in SUBSET Leads : UnknownTimeZone(rows)
  <2>1. Alone /\ worker' \in {"off", "poll"} /\ batch' = {}
    BY <1>4 DEF StartWorker, BatchEnds, UnknownTimeZone, Forget, dialHistory
  <2>2. Pledged' \subseteq Pledged
    BY <2>1 DEF Pledged
  <2> QED BY <1>3, <2>1, <2>2 DEF LedgerInv
<1>5. ASSUME NEW rows \in SUBSET Leads, NEW dialable \in SUBSET Leads, FetchBatch(rows, dialable)
      PROVE  LedgerInv' /\ LedgerStep
  <2>1. Alone /\ worker = "poll" /\ worker' = "next" /\ batch' = dialable
    BY <1>5 DEF FetchBatch, dialHistory
  <2>2. Pledged = {} /\ Pledged' = dialable
    BY <2>1 DEF Pledged, LedgerInv
  <2>3. \A l \in dialable : PhoneOf[l] \notin dnc /\ status[l] = "PENDING"
    BY <1>5 DEF FetchBatch, IsFetch, Eligible
  <2>4. \A l \in dialable : dials[l] = unrecorded[l]
    BY <1>1, <2>1, <2>3 DEF LedgerInv, DialInv
  <2>5. Ledger!Pledge
    BY <1>2, <2>1, <2>2, <2>3, <2>4 DEF Ledger!Pledge
  <2> QED BY <2>1, <2>5 DEF LedgerInv, LedgerStep, Ledger!Next
<1>6. ASSUME NEW l \in Leads, NextLead(l) \/ SessionGetFails(l) PROVE LedgerInv' /\ LedgerStep
  <2>1. /\ Alone /\ worker = "next" /\ l \in batch /\ batch' \subseteq batch
        /\ (worker' = "create_room" /\ current' = l) \/ (worker' = worker /\ current' = current)
    BY <1>6 DEF NextLead, SessionGetFails, dialHistory
  <2>2. Pledged' \subseteq Pledged
    BY <2>1 DEF Pledged
  <2> QED BY <1>3, <2>1, <2>2 DEF LedgerInv
<1>7. CASE RoomCreated \/ RoomFails
  <2>1. /\ Alone /\ worker = "create_room" /\ worker' \in {"create_sip", "retry_merge"}
        /\ batch' = batch /\ current' = current
    BY <1>7 DEF RoomCreated, RoomFails, Goto, dialHistory
  <2>2. Pledged' \subseteq Pledged
    BY <2>1 DEF Pledged
  <2> QED BY <1>3, <2>1, <2>2 DEF LedgerInv
<1>8. ASSUME worker = "create_sip"
      PROVE  /\ current \in Leads /\ current \notin batch /\ current \in Pledged
             /\ dials[current] = unrecorded[current]
  BY <1>1, <1>8 DEF HoldsLead, Pledged, LedgerInv, DialInv
<1>9. CASE SipDialed
  <2>1. /\ worker = "create_sip" /\ worker' = "merge" /\ batch' = batch /\ current' = current
        /\ unrecorded' = unrecorded /\ dials' = [dials EXCEPT ![current] = @ + 1]
    BY <1>9 DEF SipDialed, PlaceDial, Goto
  <2>2. Pledged' = Pledged \ {current}
    BY <1>8, <2>1 DEF Pledged
  <2>3. Ledger!Dial(current)
    BY <1>2, <1>8, <2>1, <2>2 DEF Ledger!Dial
  <2> QED BY <1>1, <1>8, <2>1, <2>3 DEF LedgerInv, LedgerStep, Ledger!Next
<1>10. CASE SipFails
  <2>1. /\ worker = "create_sip" /\ worker' = "retry_merge" /\ batch' = batch
        /\ current' = current
    BY <1>10 DEF SipFails, Goto
  <2>2. Pledged' = Pledged \ {current}
    BY <1>8, <2>1 DEF Pledged
  <2>3. CASE PlaceDial /\ LoseRecord
    <3>1. /\ current \in Pledged /\ dials[current] = unrecorded[current]
          /\ dials' = [dials EXCEPT ![current] = @ + 1]
          /\ unrecorded' = [unrecorded EXCEPT ![current] = @ + 1]
      BY <1>8, <2>1, <2>3 DEF PlaceDial, LoseRecord, SipFails
    <3>2. Ledger!DialUnanswered(current)
      BY <1>2, <2>2, <3>1 DEF Ledger!DialUnanswered
    <3> QED BY <1>1, <1>8, <2>1, <3>1, <3>2 DEF LedgerInv, LedgerStep, Ledger!Next
  <2>4. CASE UNCHANGED dialHistory
    BY <1>3, <2>1, <2>2, <2>4 DEF LedgerInv, dialHistory
  <2> QED BY <1>10, <2>3, <2>4 DEF SipFails
<1>11. CASE MergeDialed \/ MergeRetry \/ CommitDialed \/ CommitRetry
  <2>1. /\ Alone /\ batch' = batch /\ worker' \notin {"off", "poll", "create_room", "create_sip"}
        /\ \/ worker' = "commit" /\ worker = "merge" /\ current' = current
           \/ worker' \in {"next", "retry_commit"}
    BY <1>11 DEF MergeDialed, MergeRetry, Merge, CommitDialed, CommitRetry, DispatchEnds,
       dialHistory
  <2>2. Pledged' \subseteq Pledged
    BY <2>1 DEF Pledged
  <2> QED BY <1>3, <2>1, <2>2 DEF LedgerInv
<1>12. CASE DatabaseFails \/ WorkerCrashes
  <2>1. /\ dials' = dials /\ worker' \in {"off", "poll"} /\ batch' = {}
        /\ IF worker \in {"merge", "commit"} THEN LoseRecord ELSE unrecorded' = unrecorded
    BY <1>12 DEF DatabaseFails, WorkerCrashes, Forget
  <2>2. Pledged' \subseteq Pledged
    BY <2>1 DEF Pledged
  <2>3. CASE worker \in {"merge", "commit"}
    <3>1. current \in Leads /\ dials[current] = unrecorded[current] + 1
      BY <1>1, <2>3 DEF LedgerInv, HoldsLead
    <3>2. Ledger!Lose(current)
      BY <1>2, <2>1, <2>2, <2>3, <3>1 DEF LoseRecord, Ledger!Lose
    <3> QED BY <1>1, <2>1, <2>3, <3>1, <3>2 DEF LoseRecord, LedgerInv, LedgerStep, Ledger!Next
  <2> QED BY <1>3, <2>1, <2>2, <2>3 DEF LedgerInv
<1> QED BY <1>4, <1>5, <1>6, <1>7, <1>9, <1>10, <1>11, <1>12 DEF WorkerNext, Dispatching

\* The dialing of the whole system keeps the ledger: pledges only of unlisted
\* leads without a recorded dial, dials only of pledged leads, whatever every
\* other process does in between.
THEOREM SystemKeepsLedger == Spec => LedgerKept
<1>1. Init => Ledger!Init /\ LedgerInv
  BY DEF Init, TablesInit, WorkerInit, Ledger!Init, Pledged, LedgerInv, DialInv,
     DialedAgainOnlyIfUnrecorded
<1>2. ASSUME TypeOK, RefsOK, LedgerInv, [Next]_vars PROVE LedgerInv' /\ [Ledger!Next]_(Ledger!vars)
  <2>1. DialInv'
    BY <1>2, WorkerOrOthers, WorkerKeepsDialInv, OthersKeepDialInv DEF LedgerInv
  <2>2. LedgerInv' /\ LedgerStep
    BY <1>2, <2>1, WorkerOrOthers, WorkerKeepsLedger, OthersKeepLedger
  <2> QED BY <2>2 DEF LedgerStep
<1> QED BY <1>1, <1>2, TypeCorrect, ReferencesKept, PTL DEF Spec, LedgerKept, Ledger!Spec
=============================================================================
