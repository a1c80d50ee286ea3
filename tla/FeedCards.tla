------------------------------- MODULE FeedCards -------------------------------
(***************************************************************************)
(* What the live feed promises, without its messages: each open page has a  *)
(* card for each call that it follows.  The card appears after the call     *)
(* began and is taken off after the call ended, and for a call nothing      *)
(* happened to it does so once.  Only the card of another call may be       *)
(* missing, and may come back after the end of the call.                    *)
(***************************************************************************)
CONSTANTS Pages, Calls

VARIABLES
    cards,   \* of each page and call; "none" while the page does not follow the call
    ended,   \* calls whose room has closed
    sure     \* calls nothing has happened to so far: no failure, and no second row

vars == <<cards, ended, sure>>

Init ==
    /\ cards = [p \in Pages |-> [c \in Calls |-> "none"]]
    /\ ended = {}
    /\ sure = Calls

\* A page begins to follow a call that goes on; the first word of it may have
\* come already.
Follow(p, c) ==
    /\ cards[p][c] = "none" /\ cards'[p][c] \in {"awaited", "shown"}
    /\ c \notin ended'

\* The page is closed, or has lost its connection.
Leave(p, c) == cards'[p][c] = "none"

Show(p, c) == cards[p][c] = "awaited" /\ cards'[p][c] = "shown"

TakeOff(p, c) ==
    /\ cards[p][c] = "shown" /\ cards'[p][c] = "gone"
    /\ c \in ended'

\* The call ends without the page having heard of it.
Miss(p, c) ==
    /\ cards[p][c] = "awaited" /\ cards'[p][c] = "gone"
    /\ c \in ended' /\ c \notin sure

\* A message of the start comes after the end: the card is on its way back, or
\* will be when the message of the end has taken it off.
Return(p, c) ==
    /\ cards[p][c] \in {"shown", "gone"} /\ cards'[p][c] = "awaited"
    /\ c \in ended' /\ c \notin sure'

\* One event can move the cards of many pages and calls.
Move(p, c) ==
    \/ cards'[p][c] = cards[p][c]
    \/ Follow(p, c) \/ Leave(p, c) \/ Show(p, c) \/ TakeOff(p, c) \/ Miss(p, c)
    \/ Return(p, c)

Next ==
    /\ ended \subseteq ended'
    /\ sure' \subseteq sure
    /\ \A p \in Pages, c \in Calls : Move(p, c)

Spec == Init /\ [][Next]_vars
=============================================================================
