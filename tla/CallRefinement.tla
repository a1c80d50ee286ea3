----------------------------- MODULE CallRefinement -----------------------------
(***************************************************************************)
(* The whole system implements DialLedger.  A lead is pledged while the     *)
(* worker holds it and has not asked for its dial: in the batch, or between *)
(* the check of its number and create_sip_participant.                      *)
(***************************************************************************)
EXTENDS CallLifecycle

Pledged == batch \cup (IF worker \in {"create_room", "create_sip"} THEN {current} ELSE {})

Ledger == INSTANCE DialLedger WITH registry <- dnc, pledged <- Pledged, lost <- unrecorded

\* Whatever the webhooks, agents, analyses, imports and failures do between the
\* steps of the worker, its dials keep the ledger: a lead is dialed only if
\* its number was off the registry when its batch was fetched, at most once
\* for that fetch, and again only after a dial whose record was lost.
LedgerKept == Ledger!Spec
=============================================================================
