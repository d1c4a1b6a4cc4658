------------------------------ MODULE Requests -------------------------------
(***************************************************************************)
(* The requests an application serves at the same time: the pool their     *)
(* contexts come from (core/context.go, core/app.go), the handlers of the  *)
(* API (app/controllers) and the two tables these share, together with the *)
(* seeder of the command line, which works on the tables from outside.     *)
(*                                                                         *)
(* A handler is one step per call of the database, since other handlers    *)
(* run between them.  Which requests get this far is the matter of         *)
(* Routing.tla.  A value a request writes is named by the request, and a   *)
(* database call that fails changes nothing.                               *)
(***************************************************************************)
EXTENDS Naturals, FiniteSets

CONSTANTS Requests,   \* the requests that may arrive
          Contexts,   \* the Context objects the pool may come to hold
          Emails,     \* e-mail addresses
          Admin,      \* the address the seeder registers
          MaxId,      \* bound: the last id of a product
          Seeds,      \* the demonstration products
          Seeder,     \* the process of cmdSeed
          None        \* no value

ASSUME RequestsAssumption ==
    /\ Admin \in Emails
    /\ MaxId \in Nat
    /\ Seeder \notin Requests
    /\ None \notin Requests \cup {Seeder} \cup 1..MaxId

Ids == 1..MaxId

VARIABLES op,         \* what each request asks for
          pc,         \* where its handler stands
          own,        \* its context
          seen,       \* the product row it has read
          status,     \* the status codes that were written to it
          pool,       \* the contexts contextPool can give, new ones included
          ctx,        \* the fields of each context
          users,      \* whose password the account of an address has
          products,   \* the rows of the products table
          lastId,     \* the last id the products table gave
          seed,       \* where the seeder stands
          unseeded,   \* the products the seeder has still to insert
          acked,      \* history: the last answered writer of each column
          missed      \* history: updates whose row was gone when they wrote

handlerVars == <<op, seen>>
ctxVars     == <<own, pool, ctx>>
tables      == <<users, products, lastId>>
seedVars    == <<seed, unseeded>>
vars        == <<op, pc, own, seen, status, ctxVars, tables, seedVars, acked, missed>>

Columns == {"name", "price"}

Rows == [Columns -> Requests \cup {Seeder}]

\* The payload of an update names the columns it changes.
Ops == [kind : {"index", "store", "me"}]
       \cup [kind : {"show", "destroy"}, id : Ids]
       \cup [kind : {"update"}, id : Ids, sets : SUBSET Columns]
       \cup [kind : {"register", "login"}, email : Emails]

\* No row and no request is taken for none.
ASSUME NoneAssumption == None \notin Rows \cup Ops

Codes == {200, 201, 401, 404, 500}

TypeOK ==
    /\ op \in [Requests -> Ops \cup {None}]
    /\ pc \in [Requests -> {"new", "acquired", "handler", "free", "found", "answered", "done"}]
    /\ own \in [Requests -> Contexts \cup {None}]
    /\ seen \in [Requests -> Rows \cup {None}]
    /\ status \in [Requests -> SUBSET Codes]
    /\ pool \in SUBSET Contexts
    /\ ctx \in [Contexts -> [request : Requests \cup {None}, params : Ids \cup {None},
                             store : Requests \cup {None}]]
    /\ users \in [Emails -> Requests \cup {Seeder, None}]
    /\ products \in [Ids -> Rows \cup {None}]
    /\ lastId \in 0..MaxId
    /\ seed \in {"user", "insert", "count", "products", "ended", "failed"}
    /\ unseeded \in SUBSET Seeds
    /\ acked \in [Ids -> Rows \cup {None}]
    /\ missed \in SUBSET Requests

Init ==
    /\ op = [r \in Requests |-> None]
    /\ pc = [r \in Requests |-> "new"]
    /\ own = [r \in Requests |-> None]
    /\ seen = [r \in Requests |-> None]
    /\ status = [r \in Requests |-> {}]
    /\ pool = Contexts
    /\ ctx = [c \in Contexts |-> [request |-> None, params |-> None, store |-> None]]
    /\ users = [e \in Emails |-> None]
    /\ products = [i \in Ids |-> None]
    /\ lastId = 0
    /\ seed = "user"
    /\ unseeded = {}
    /\ acked = [i \in Ids |-> None]
    /\ missed = {}

Active(r) == pc[r] \notin {"new", "done"}

Goto(r, at) == pc' = [pc EXCEPT ![r] = at]

\* The handler writes through the Writer of its context.
Answer(r, code) ==
    /\ status' = [status EXCEPT ![ctx[own[r]].request] = @ \cup {code}]
    /\ Goto(r, "answered")

Handling(r, kind) == pc[r] = "handler" /\ op[r].kind = kind

\* What c.Param("id") gives.
Param(r) == ctx[own[r]].params

Row(r) == products[Param(r)]

------------------------------------------------------------------------------
(* Faulty variants, which no specification uses. *)

\* acquireContext that forgets to clear the maps.
AcquireUncleared(r) ==
    /\ pc[r] = "new"
    /\ \E o \in Ops, c \in Contexts :
          /\ c \in pool
          /\ op' = [op EXCEPT ![r] = o]
          /\ own' = [own EXCEPT ![r] = c]
          /\ pool' = pool \ {c}
          /\ ctx' = [ctx EXCEPT ![c].request = r]
    /\ Goto(r, "acquired")
    /\ UNCHANGED <<seen, status, tables, seedVars, acked, missed>>

\* Register that does not look at the error of its insert.
RegisterUnchecked(r) ==
    /\ pc[r] = "free" /\ op[r].kind = "register"
    /\ users' = [users EXCEPT ![op[r].email] = IF @ = None THEN r ELSE @]
    /\ Answer(r, 201)
    /\ UNCHANGED <<handlerVars, ctxVars, products, lastId, seedVars, acked, missed>>

\* An update without its WHERE.
UpdateAll(r) ==
    /\ pc[r] = "found"
    /\ LET new == [k \in Columns |-> IF k \in op[r].sets THEN r ELSE seen[r][k]]
       IN  /\ products' = [i \in Ids |-> IF products[i] = None THEN None ELSE new]
           /\ acked' = [acked EXCEPT ![Param(r)] =
                  IF Row(r) = None THEN @
                  ELSE [k \in Columns |-> IF k \in op[r].sets THEN r ELSE @[k]]]
    /\ missed' = IF Row(r) = None THEN missed \cup {r} ELSE missed
    /\ Answer(r, 200)
    /\ UNCHANGED <<handlerVars, ctxVars, users, lastId, seedVars>>

------------------------------------------------------------------------------
(* Contexts *)

\* withGlobalMiddleware: newContext takes a context from the pool, which makes a
\* new one when it has none, sets its fields and clears its maps.
Acquire(r) ==
    /\ pc[r] = "new"
    /\ \E o \in Ops, c \in Contexts :
          /\ c \in pool
          /\ op' = [op EXCEPT ![r] = o]
          /\ own' = [own EXCEPT ![r] = c]
          /\ pool' = pool \ {c}
          /\ ctx' = [ctx EXCEPT ![c] = [request |-> r, params |-> None, store |-> None]]
    /\ Goto(r, "acquired")
    /\ UNCHANGED <<seen, status, tables, seedVars, acked, missed>>

\* handleContext sets the parameters of the route, AuthAPI the user.
Route(r) ==
    /\ pc[r] = "acquired"
    /\ ctx' = [ctx EXCEPT ![own[r]].params = IF "id" \in DOMAIN op[r] THEN op[r].id ELSE None,
                          ![own[r]].store =
                                IF op[r].kind \in {"register", "login"} THEN @ ELSE r]
    /\ Goto(r, "handler")
    /\ UNCHANGED <<handlerVars, status, own, pool, tables, seedVars, acked, missed>>

\* The deferred releaseContext.
Release(r) ==
    /\ pc[r] = "answered"
    /\ ctx' = [ctx EXCEPT ![own[r]].request = None]
    /\ pool' = pool \cup {own[r]}
    /\ own' = [own EXCEPT ![r] = None]
    /\ Goto(r, "done")
    /\ UNCHANGED <<handlerVars, status, tables, seedVars, acked, missed>>

\* The payload is refused, a database call returns an error, or the handler
\* panics and Recover answers: 500 stands for 400 and 422 too.  Login answers 401
\* when the database fails.  The answer is the last thing each handler does, so
\* that none fails after it.
Fail(r) ==
    /\ pc[r] \in {"handler", "free", "found"}
    /\ \/ Answer(r, 500)
       \/ Handling(r, "login") /\ Answer(r, 401)
    /\ UNCHANGED <<handlerVars, ctxVars, tables, seedVars, acked, missed>>

------------------------------------------------------------------------------
(* Products *)

\* Index and Show, and Me, which answers with what AuthAPI has set, if anything.
Read(r) ==
    /\ \/ Handling(r, "index") /\ Answer(r, 200)
       \/ Handling(r, "me") /\ Answer(r, 200)
       \/ Handling(r, "show") /\ Answer(r, IF Row(r) = None THEN 404 ELSE 200)
    /\ UNCHANGED <<handlerVars, ctxVars, tables, seedVars, acked, missed>>

\* The insert of a product; the table gives the next id.
InsertProduct(who) ==
    /\ lastId + 1 \in Ids
    /\ lastId' = lastId + 1
    /\ products' = [products EXCEPT ![lastId + 1] = [k \in Columns |-> who]]
    /\ acked' = [acked EXCEPT ![lastId + 1] = [k \in Columns |-> who]]

Store(r) ==
    /\ Handling(r, "store")
    /\ InsertProduct(r)
    /\ Answer(r, 201)
    /\ UNCHANGED <<handlerVars, ctxVars, users, seedVars, missed>>

\* Update first reads the row...
UpdateFind(r) ==
    /\ Handling(r, "update")
    /\ IF Row(r) = None
       THEN Answer(r, 404) /\ UNCHANGED seen
       ELSE /\ seen' = [seen EXCEPT ![r] = Row(r)]
            /\ Goto(r, "found")
            /\ UNCHANGED status
    /\ UNCHANGED <<op, ctxVars, tables, seedVars, acked, missed>>

\* ... and then writes all its columns back, those of the payload changed.  It
\* does not look at the number of rows this affected.
UpdateWrite(r) ==
    /\ pc[r] = "found"
    /\ IF Row(r) = None
       THEN missed' = missed \cup {r} /\ UNCHANGED <<products, acked>>
       ELSE /\ products' = [products EXCEPT ![Param(r)] =
                   [k \in Columns |-> IF k \in op[r].sets THEN r ELSE seen[r][k]]]
            /\ acked' = [acked EXCEPT ![Param(r)] =
                   [k \in Columns |-> IF k \in op[r].sets THEN r ELSE @[k]]]
            /\ UNCHANGED missed
    /\ Answer(r, 200)
    /\ UNCHANGED <<handlerVars, ctxVars, users, lastId, seedVars>>

Destroy(r) ==
    /\ Handling(r, "destroy")
    /\ products' = [products EXCEPT ![Param(r)] = None]
    /\ Answer(r, IF Row(r) = None THEN 404 ELSE 200)
    /\ UNCHANGED <<handlerVars, ctxVars, users, lastId, seedVars, acked, missed>>

------------------------------------------------------------------------------
(* Accounts *)

\* Register looks the address up first; ErrEmailTaken is answered with 500 too.
RegisterCheck(r) ==
    /\ Handling(r, "register")
    /\ IF users[op[r].email] # None
       THEN Answer(r, 500)
       ELSE Goto(r, "free") /\ UNCHANGED status
    /\ UNCHANGED <<handlerVars, ctxVars, tables, seedVars, acked, missed>>

\* The insert, which the unique index refuses when the address is taken by now.
RegisterInsert(r) ==
    /\ pc[r] = "free"
    /\ IF users[op[r].email] = None
       THEN users' = [users EXCEPT ![op[r].email] = r] /\ Answer(r, 201)
       ELSE Answer(r, 500) /\ UNCHANGED users
    /\ UNCHANGED <<handlerVars, ctxVars, products, lastId, seedVars, acked, missed>>

\* attemptLogin: the account exists and has the password.
Login(r) ==
    /\ Handling(r, "login")
    /\ \E password \in Requests \cup {Seeder} :
          Answer(r, IF users[op[r].email] = password THEN 200 ELSE 401)
    /\ UNCHANGED <<handlerVars, ctxVars, tables, seedVars, acked, missed>>

------------------------------------------------------------------------------
(* cmdSeed *)

Seeding(from, to) == seed = from /\ seed' = to

\* The default user is looked up; an error ends the process.
SeedUser ==
    /\ \/ Seeding("user", IF users[Admin] = None THEN "insert" ELSE "count")
       \/ Seeding("user", "failed")
    /\ UNCHANGED <<op, pc, seen, status, ctxVars, tables, unseeded, acked, missed>>

SeedInsert ==
    /\ \/ /\ users[Admin] = None
          /\ Seeding("insert", "count")
          /\ users' = [users EXCEPT ![Admin] = Seeder]
       \/ Seeding("insert", "failed") /\ UNCHANGED users
    /\ UNCHANGED <<op, pc, seen, status, ctxVars, products, lastId, unseeded, acked, missed>>

SeedCount ==
    /\ \/ /\ \A i \in Ids : products[i] = None
          /\ Seeding("count", "products")
          /\ unseeded' = Seeds
       \/ Seeding("count", "ended") /\ UNCHANGED unseeded
    /\ UNCHANGED <<op, pc, seen, status, ctxVars, tables, acked, missed>>

\* One product more; an insert that fails is reported and the next one tried.
SeedProduct ==
    /\ seed = "products"
    /\ \E s \in unseeded : unseeded' = unseeded \ {s}
    /\ InsertProduct(Seeder) \/ UNCHANGED <<products, lastId, acked>>
    /\ seed' = IF unseeded' = {} THEN "ended" ELSE seed
    /\ UNCHANGED <<op, pc, seen, status, ctxVars, users, missed>>

------------------------------------------------------------------------------

Handler(r) == \/ Read(r) \/ Store(r) \/ UpdateFind(r) \/ UpdateWrite(r) \/ Destroy(r)
              \/ RegisterCheck(r) \/ RegisterInsert(r) \/ Login(r)

Next == \/ \E r \in Requests : Acquire(r) \/ Route(r) \/ Handler(r) \/ Fail(r) \/ Release(r)
        \/ SeedUser \/ SeedInsert \/ SeedCount \/ SeedProduct

Spec == Init /\ [][Next]_vars

------------------------------------------------------------------------------
(* Safety *)

\* Requests served at the same time do not meet in a context: while a handler
\* runs, its context is its own and shows the parameters and the user of this
\* request or none, never those of the request that had the context before, and
\* every request is answered once, through its own writer.
ContextPrivate ==
    \A r \in Requests :
        /\ Active(r) =>
              /\ own[r] \notin pool
              /\ ctx[own[r]].request = r
              /\ ctx[own[r]].store \in {None, r}
              /\ \/ ctx[own[r]].params = None
                 \/ "id" \in DOMAIN op[r] /\ ctx[own[r]].params = op[r].id
        /\ Cardinality(status[r]) = IF pc[r] \in {"answered", "done"} THEN 1 ELSE 0

\* However the look-ups and inserts of several registrations and of the seeder
\* interleave, an address has one account for good, and exactly the registration
\* that made it was answered 201.
RegisterTruthful ==
    \A r \in Requests, e \in Emails :
        users[e] = r <=> op[r] = [kind |-> "register", email |-> e] /\ 201 \in status[r]

\* A column shows what the last answered request that changed it wrote, unless
\* an update that did not change it had read the row before that and wrote the
\* old value back; and an update is answered with success although it wrote
\* nothing only if the product was destroyed after it was found.
UpdatesExplained ==
    /\ \A i \in Ids : products[i] # None => \A k \in Columns :
          \/ products[i][k] = acked[i][k]
          \/ \E r \in Requests :
                /\ op[r] # None /\ op[r].kind = "update" /\ op[r].id = i
                /\ 200 \in status[r] /\ r \notin missed
                /\ k \notin op[r].sets /\ seen[r][k] = products[i][k]
    /\ \A r \in missed : \E d \in Requests :
          op[d] = [kind |-> "destroy", id |-> op[r].id] /\ 200 \in status[d]
==============================================================================
