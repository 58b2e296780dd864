--------------------------- MODULE AtomicSettlement ---------------------------
(***************************************************************************)
(* What the settlement engine promises its callers: the legs of a matched  *)
(* trade reach the balances table all together, at most once, and nothing  *)
(* else ever changes a total.  Retries, concurrent ProcessQueue callers,   *)
(* crashes and failing SQL are all invisible at this level.                *)
(***************************************************************************)
EXTENDS Integers

CONSTANTS
    Trades,           \* identifiers of matched trades
    Rows,             \* keys (user_id, asset) of the balances table
    OpenLive,         \* rows that exist at the start
    OpenTotal,        \* their totals
    Moves(_, _, _),   \* Moves(t, r, live): what trade t adds to the total of row r
    Born(_)           \* rows that exist once trade t is settled

VARIABLES
    settled,          \* trades whose legs have been applied
    live,             \* rows that exist
    total             \* balances.total, 0 for a row that does not exist

vars == <<settled, live, total>>

Init ==
    /\ settled = {}
    /\ live = OpenLive
    /\ total = OpenTotal

(* One trade clears: every leg at once, and never again. *)
Settle(t) ==
    /\ t \notin settled
    /\ settled' = settled \cup {t}
    /\ live' = live \cup Born(t)
    /\ total' = [r \in Rows |-> total[r] + Moves(t, r, live)]

Next == \E t \in Trades : Settle(t)

Spec == Init /\ [][Next]_vars
===============================================================================
