----------------------------- MODULE MarketFeed -----------------------------
(***************************************************************************)
(* What the market-data path promises a trading client, with the          *)
(* publisher, the multicast groups, the snapshots and the recovery         *)
(* abstracted away (spec P3 and P6): the exchange appends updates to its   *)
(* stream; the client's view of the book is the exchange's book after     *)
(* some prefix of that stream, and the prefix only ever grows.  A step of *)
(* the client may skip any number of updates (a recovery from a           *)
(* snapshot), but it never goes back to an older book and never shows a   *)
(* book the exchange did not have.                                         *)
(***************************************************************************)
EXTENDS Naturals, Sequences, SequencesExt

CONSTANTS
    Apply(_, _),    \* the effect of one update on a book
    Empty           \* the empty book

VARIABLES
    updates,        \* the exchange's update stream so far
    pos,            \* how many of them the client's view reflects
    view            \* the client's book

vars == <<updates, pos, view>>

\* The exchange's book after its first k updates.
BookOf(k) == FoldLeft(Apply, Empty, SubSeq(updates, 1, k))

Init ==
    /\ updates = <<>>
    /\ pos = 0
    /\ view = Empty

\* The exchange emits one more update.
Emit ==
    /\ Len(updates') = Len(updates) + 1
    /\ IsPrefix(updates, updates')
    /\ UNCHANGED <<pos, view>>

\* The client's view moves forward to a later book of the exchange.
Deliver ==
    /\ pos' \in pos + 1 .. Len(updates)
    /\ view' = BookOf(pos')
    /\ UNCHANGED updates

Next == Emit \/ Deliver

Spec == Init /\ [][Next]_vars
=============================================================================
