---------------------------- MODULE MCCallLifecycle ----------------------------
(***************************************************************************)
(* Instances of CallLifecycle for TLC: the whole system for one lead, and   *)
(* its two halves, the dispatch of calls and what follows a dial, on their  *)
(* own with more leads and more failures.                                   *)
(***************************************************************************)
EXTENDS DocumentedClaims, CallRefinement, TLC

CONSTANTS l1, l2, l3, p1, p2, p3, k1, k2, c1, c2, c3

\* One lead.
OnePhoneOf == (l1 :> p1)
OneCreatedAt == (l1 :> 1)

\* Two leads, uploaded one after the other, with the same number or not.
SharedPhoneOf == (l1 :> p1 @@ l2 :> p1)
TwoPhoneOf == (l1 :> p1 @@ l2 :> p2)
TwoCreatedAt == (l1 :> 1 @@ l2 :> 2)

\* Three leads: two of one upload, of which one shares its number with the third.
ThreePhoneOf == (l1 :> p1 @@ l2 :> p2 @@ l3 :> p1)
ThreeCreatedAt == (l1 :> 1 @@ l2 :> 1 @@ l3 :> 2)

\* Three leads of their own numbers, two of them older than the third.
DistinctPhoneOf == (l1 :> p1 @@ l2 :> p2 @@ l3 :> p3)

\* Ids of call rows are interchangeable, and so are campaigns where Init names none.
CallIdSymmetry == Permutations(CallIds)
IdSymmetry == Permutations(CallIds) \cup Permutations(Campaigns)

-----------------------------------------------------------------------------
\* Dispatch: no webhook is delivered and no agent speaks.
DispatchNext ==
    \/ DashboardNext /\ UNCHANGED othersOfTables
    \/ (\E l \in Leads : BackoffElapses(l)) /\ UNCHANGED othersOfTables
    \/ (\E p \in Phones : RegistryImport(p)) /\ UNCHANGED othersOfTables
    \/ WorkerNext /\ UNCHANGED othersOfWorker
DispatchSpec == Init /\ [][DispatchNext]_vars
FairDispatchSpec == DispatchSpec /\ WorkerFairness

-----------------------------------------------------------------------------
\* Aftermath: the worker has just dialed l1 and is about to record the dial;
\* it dials no more.
AftermathInit ==
    /\ status = [l \in Leads |-> "PENDING"]
    /\ retryCount = [l \in Leads |-> 0]
    /\ waiting = [l \in Leads |-> FALSE]
    /\ campaignId = [l \in Leads |-> k1]
    /\ campaigns = {k1}
    /\ dnc = {}
    /\ calls = [c \in CallIds |-> NoRow]
    /\ transcripts = [c \in CallIds |-> NoRow]
    /\ faults = 0
    /\ room = [l \in Leads |-> "open"]
    /\ leg = [l \in Leads |-> "ringing"]
    /\ answered = [l \in Leads |-> FALSE]
    /\ hooks = [l \in Leads |-> <<[event |-> "room_started", meta |-> TRUE]>>]
    /\ sending = [l \in Leads |-> FALSE]
    /\ sessions = {[lead |-> l1, pc |-> "talking", text |-> "plain", call |-> NoRow]}
    /\ worker = "commit"
    /\ batch = {}
    /\ current = l1
    /\ snapshot = [l \in Leads |-> k1]
    /\ dirty = {"status"}
    /\ dials = [l \in Leads |-> 1]
    /\ unrecorded = [l \in Leads |-> 0]
    /\ listedDials = [l \in Leads |-> 0]
    /\ ReceiverInit
    /\ AnalysisInit

(* The commit of the dial: it succeeds, or the database fails it.           *)
DialRecorded == worker = "commit" /\ (CommitDialed \/ DatabaseFails)

(* Fresh ids are interchangeable, so they are taken in order.               *)
IdsInOrder == \A c \in CallIds : calls[c] # NoRow => \A d \in 1..c : calls[d] # NoRow

AftermathNext ==
    /\ \/ DialRecorded /\ UNCHANGED othersOfWorker
       \/ LiveKitNext /\ UNCHANGED othersOfLiveKit
       \/ ReceiverNext /\ UNCHANGED othersOfReceiver
       \/ AgentNext /\ UNCHANGED othersOfAgent
       \/ AnalysisNext /\ UNCHANGED othersOfAnalysis
    /\ IdsInOrder'
AftermathSpec == AftermathInit /\ [][AftermathNext]_vars
FairAftermathSpec == AftermathSpec /\ AftermathFairness
=============================================================================
