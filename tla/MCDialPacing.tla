----------------------------- MODULE MCDialPacing -----------------------------
(***************************************************************************)
(* An instance of DialPacing: three leads a few seconds before nine in the  *)
(* evening UTC.  l2 closes then; l1 lives one hour behind and stays open;   *)
(* l3 is refused.  The next failure of l1 is its sixth, whose backoff is    *)
(* capped, and that of l2 is its second.                                    *)
(***************************************************************************)
EXTENDS DialPacing, TLC

CONSTANTS l1, l2, l3

MCCreatedAt == (l1 :> 1 @@ l2 :> 2 @@ l3 :> 2)
MCUtcOffset == (l1 :> 0 - 3600 @@ l2 :> 0 @@ l3 :> 0)
MCFailedBefore == (l1 :> 5 @@ l2 :> 1 @@ l3 :> 0)
MCStartTime == 21 * 3600 - 4
MCHorizon == MCStartTime + 70
=============================================================================
