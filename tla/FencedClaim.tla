----------------------------- MODULE FencedClaim -----------------------------
(* What every claimable piece of work in this system promises, whatever its    *)
(* table: a row is closed until it may be worked on, open while anyone may     *)
(* claim it, held by the one token drawn at the claim, and done for good.      *)
(* Only the holder's terminal write takes a row out of "held"; control         *)
(* operations may open or withdraw any number of rows that nobody holds, and   *)
(* never touch a held one.                                                     *)
EXTENDS Naturals

CONSTANT Items

VARIABLES
    phase,   \* "closed", "open", "held" or "done"
    holder,  \* the token that holds the item; 0 if none ever did or it let go
    issued   \* how many tokens were drawn for the item

vars == <<phase, holder, issued>>

Init ==
    \A i \in Items : phase[i] \in {"closed", "open"} /\ holder[i] = 0 /\ issued[i] = 0

Same(i) == phase'[i] = phase[i] /\ holder'[i] = holder[i] /\ issued'[i] = issued[i]

Opened(i) == phase[i] = "closed" /\ phase'[i] = "open"

Withdrawn(i) == phase[i] \in {"closed", "open"} /\ phase'[i] = "done"

\* What may happen to an item beside the move of a holder.
Aside(i) ==
    \/ Same(i)
    \/ (Opened(i) \/ Withdrawn(i)) /\ holder'[i] = holder[i] /\ issued'[i] = issued[i]

Claimed(i) ==
    /\ phase[i] = "open" /\ phase'[i] = "held"
    /\ issued'[i] = issued[i] + 1 /\ holder'[i] = issued'[i]

Released(i) ==
    /\ phase[i] = "held" /\ phase'[i] = "open"
    /\ holder'[i] = 0 /\ issued'[i] = issued[i]

Settled(i) ==
    /\ phase[i] = "held" /\ phase'[i] = "done"
    /\ holder'[i] = holder[i] /\ issued'[i] = issued[i]

HolderMoves(i) ==
    /\ Claimed(i) \/ Released(i) \/ Settled(i)
    /\ \A j \in Items \ {i} : Aside(j)

Next == (\E i \in Items : HolderMoves(i)) \/ \A i \in Items : Aside(i)

Spec == Init /\ [][Next]_vars
=============================================================================
