-------------------------------- MODULE Calls --------------------------------
(***************************************************************************)
(* One call of one of the parts of the framework that compute and keep no  *)
(* state: the answer to a request, a chain of the query builder, an amount *)
(* in words, a product stored and read.                                    *)
(***************************************************************************)
EXTENDS Naturals

CONSTANTS Visits,       \* requests with the configuration of their server
          Queries,      \* chains with the call that ends them and their table
          Amounts,      \* amounts of money
          Trades,       \* products stored, changed and read
          Computed,     \* the integer parts of amounts that are not too high to compute
          PublicLike,   \* the segments of paths that begin with "public"
          None          \* no call yet

VARIABLES call, result

R == INSTANCE Routing
Q == INSTANCE QueryBuilder
W == INSTANCE Words
P == INSTANCE Products

\* No declared path has a segment that begins with "public".
ASSUME CallsAssumption ==
    /\ Visits \subseteq [conf : R!Configurations, rq : R!Requests]
    /\ Queries \subseteq Q!Uses
    /\ Amounts \subseteq W!Money
    /\ Trades \subseteq P!Exchanges
    /\ R!Empty \notin PublicLike
    /\ \A p \in R!OpenAPISpec \cup R!WebPages : \A i \in DOMAIN p[2] : p[2][i] \notin PublicLike

Init == call = None /\ result = None

Calling(part, args, value) ==
    /\ call' = [part |-> part, args |-> args]
    /\ result' = value

Visit == call = None /\ \E v \in Visits  : Calling("route", v, R!Serve(v.conf, v.rq))
Query == call = None /\ \E q \in Queries : Calling("query", q, Q!Run(q))
Spell == call = None /\ \E a \in Amounts : Calling("words", a, W!NumberToWords(a))
Trade == call = None /\ \E t \in Trades  : Calling("product", t, P!Trade(t))

Next == Visit \/ Query \/ Spell \/ Trade

Spec == Init /\ [][Next]_<<call, result>>

------------------------------------------------------------------------------

Called(part) == call # None /\ call.part = part

\* What a request is answered is what the OpenAPI document says, and the exceptions
\* named at RoutedAsDocumented.
Routed == Called("route") => R!RoutedAsDocumented(call.args.conf, call.args.rq, result)

\* Queries do what their chain asks for, with the exceptions named at
\* QueriesExplained.
Queried == Called("query") => Q!QueriesExplained(call.args, result)

\* Words say the amount, with the exceptions named at WordsSayTheAmount.
Spelled == Called("words") => W!WordsSayTheAmount(call.args, result)

\* Products are read as they were sent, with the exceptions named at
\* KeepsWhatWasSent.
Kept == Called("product") => P!KeepsWhatWasSent(call.args, result)
==============================================================================
