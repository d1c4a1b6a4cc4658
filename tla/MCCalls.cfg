SPECIFICATION Spec
CONSTANTS
    Visits <- MCVisits
    Queries <- MCQueries
    Amounts <- MCAmounts
    Trades <- MCTrades
    Computed <- MCComputed
    PublicLike = {"public", "publicity"}
    None = None
\* A behavior is one call.
CHECK_DEADLOCK FALSE
INVARIANTS
    Routed
    Queried
    Spelled
    Kept
