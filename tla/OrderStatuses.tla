--------------------------- MODULE OrderStatuses ---------------------------
(***************************************************************************)
(* The order states of src/order_safety/types.py, the sets of them the     *)
(* journal tests, and the translation of an exchange's raw order state.    *)
(***************************************************************************)

Status == {"PENDING_SUBMISSION", "UNKNOWN", "ACKNOWLEDGED", "OPEN",
           "PARTIALLY_FILLED", "FILLED", "CANCELED", "FAILED", "REJECTED",
           "RECONCILIATION_PENDING"}

\* States the monotonicity guard of mark() never leaves.
Terminal == {"FILLED", "CANCELED", "FAILED", "REJECTED"}

\* States that every reconciliation pass still asks the exchange about.
Unresolved == {"PENDING_SUBMISSION", "UNKNOWN", "ACKNOWLEDGED", "OPEN",
               "PARTIALLY_FILLED", "RECONCILIATION_PENDING"}

\* States that block a new BUY of the order's market.
EntryBlocking == {"PENDING_SUBMISSION", "UNKNOWN", "RECONCILIATION_PENDING"}

\* Raw states of a REST answer; "none" is an answer without a state, which
\* the adapters return for an order they cannot look up.
RawState == {"wait", "trade", "done", "cancel", "none"}

\* Mutant: the map forgets canceled orders.
MapStateNoCancel(raw, fallback) ==
  CASE raw = "wait"   -> "OPEN"
    [] raw = "trade"  -> "PARTIALLY_FILLED"
    [] raw = "done"   -> "FILLED"
    [] OTHER          -> fallback

\* state_map.get(raw_state, fallback) of the reconciliation loops.
MapState(raw, fallback) ==
  CASE raw = "wait"   -> "OPEN"
    [] raw = "trade"  -> "PARTIALLY_FILLED"
    [] raw = "done"   -> "FILLED"
    [] raw = "cancel" -> "CANCELED"
    [] OTHER          -> fallback

=============================================================================
