------------------------------- MODULE DialLedger -------------------------------
(***************************************************************************)
(* What the dialing promises, without its processes: leads are pledged for  *)
(* dialing when their number is not on the registry and every dial of them  *)
(* so far is one whose record was lost, and only a pledged lead is dialed,  *)
(* once per pledge.  The registry may grow at any time.                     *)
(***************************************************************************)
EXTENDS Naturals

CONSTANTS Leads, PhoneOf

VARIABLES
    registry,   \* numbers that must not be dialed
    pledged,    \* leads that may still be dialed, whatever is listed meanwhile
    dials,      \* dials of a lead so far
    lost        \* those nobody has a record of

vars == <<registry, pledged, dials, lost>>

Init ==
    /\ registry = {}
    /\ pledged = {}
    /\ dials = [l \in Leads |-> 0]
    /\ lost = [l \in Leads |-> 0]

\* Numbers are listed and never taken off.
List ==
    /\ registry \subseteq registry'
    /\ UNCHANGED <<pledged, dials, lost>>

Pledge ==
    /\ pledged = {}
    /\ pledged' \subseteq {l \in Leads : PhoneOf[l] \notin registry /\ dials[l] = lost[l]}
    /\ UNCHANGED <<registry, dials, lost>>

\* A pledge is given up: the lead is skipped, its dial fails or the pledge is forgotten.
Release ==
    /\ pledged' \subseteq pledged
    /\ UNCHANGED <<registry, dials, lost>>

Dial(l) ==
    /\ l \in pledged
    /\ dials[l] = lost[l]
    /\ dials' = [dials EXCEPT ![l] = @ + 1]
    /\ pledged' = pledged \ {l}
    /\ UNCHANGED <<registry, lost>>

\* The dial takes place, and its answer is an error.
DialUnanswered(l) ==
    /\ l \in pledged
    /\ dials[l] = lost[l]
    /\ dials' = [dials EXCEPT ![l] = @ + 1]
    /\ lost' = [lost EXCEPT ![l] = @ + 1]
    /\ pledged' = pledged \ {l}
    /\ UNCHANGED registry

\* The record of a dial is lost, and the pledges with it.
Lose(l) ==
    /\ dials[l] = lost[l] + 1
    /\ lost' = [lost EXCEPT ![l] = @ + 1]
    /\ pledged' \subseteq pledged
    /\ UNCHANGED <<registry, dials>>

Next ==
    \/ List \/ Pledge \/ Release
    \/ \E l \in Leads : Dial(l) \/ DialUnanswered(l) \/ Lose(l)

Spec == Init /\ [][Next]_vars
=============================================================================
