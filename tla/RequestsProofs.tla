---------------------------- MODULE RequestsProofs ---------------------------
(***************************************************************************)
(* Theorems about Requests for any requests, contexts, addresses and ids:  *)
(* its types, that concurrent requests do not meet in a context, and what  *)
(* concurrent handlers can do to the rows of the two tables.               *)
(***************************************************************************)
EXTENDS Requests, FiniteSetTheorems, TLAPS

\* The fields of an operation, by its kind.
LEMMA OpFields ==
    \A o \in Ops :
        /\ o.kind \in {"show", "destroy", "update"} => "id" \in DOMAIN o
        /\ "id" \in DOMAIN o => o.id \in Ids
        /\ o.kind \in {"register", "login"} => o.email \in Emails
        /\ o.kind = "update" => o.sets \subseteq Columns
        /\ o.kind = "register" => o = [kind |-> "register", email |-> o.email]
        /\ o.kind = "destroy" => o = [kind |-> "destroy", id |-> o.id]
BY DEF Ops

\* A record of an operation determines its kind.
LEMMA OpKinds ==
    \A o, e, i :
        /\ o = [kind |-> "register", email |-> e] => o.kind = "register" /\ o.email = e
        /\ o = [kind |-> "destroy", id |-> i] => o.kind = "destroy" /\ o.id = i
OBVIOUS

\* What an update writes is a row.
LEMMA UpdatedRow ==
    ASSUME NEW r \in Requests, NEW row \in Rows, NEW S
    PROVE  [k \in Columns |-> IF k \in S THEN r ELSE row[k]] \in Rows
BY DEF Rows

------------------------------------------------------------------------------

\* What each step of a handler relies on, beyond the types.
HandlerInv ==
    /\ \A r \in Requests :
          /\ pc[r] # "new" => op[r] \in Ops
          /\ Active(r) =>
                /\ own[r] \in Contexts \ pool
                /\ ctx[own[r]].request = r
                /\ ctx[own[r]].store \in {None, r}
          /\ pc[r] = "acquired" => ctx[own[r]].params = None
          /\ pc[r] \in {"handler", "free", "found", "answered"} =>
                ctx[own[r]].params = IF "id" \in DOMAIN op[r] THEN op[r].id ELSE None
          /\ pc[r] = "free" => op[r].kind = "register"
          /\ pc[r] = "found" => op[r].kind = "update" /\ seen[r] \in Rows
          /\ IF pc[r] \in {"answered", "done"} THEN \E code \in Codes : status[r] = {code}
                                               ELSE status[r] = {}
    /\ \A i \in Ids : products[i] # None => acked[i] \in Rows

LEMMA InitInv == Init => TypeOK /\ HandlerInv
BY RequestsAssumption DEF Init, TypeOK, HandlerInv, Active

\* A handler answers once, through its own writer.
LEMMA AnswerEffect ==
    ASSUME TypeOK, HandlerInv, NEW r \in Requests,
           pc[r] \in {"handler", "free", "found"}, NEW code \in Codes, Answer(r, code)
    PROVE  /\ pc' = [pc EXCEPT ![r] = "answered"]
           /\ status' = [status EXCEPT ![r] = {code}]
<1>1. ctx[own[r]].request = r /\ status[r] = {}
    BY DEF HandlerInv, Active
<1> QED
    BY <1>1 DEF Answer, Goto, TypeOK

\* The operation of a handler, and what c.Param("id") gives it.
LEMMA HandlerFields ==
    ASSUME TypeOK, HandlerInv, NEW r \in Requests, pc[r] \in {"handler", "free", "found"}
    PROVE  /\ op[r] \in Ops
           /\ op[r].kind \in {"show", "destroy", "update"} =>
                 Param(r) = op[r].id /\ op[r].id \in Ids
           /\ op[r].kind \in {"register", "login"} => op[r].email \in Emails
           /\ op[r].kind = "update" => op[r].sets \subseteq Columns
BY OpFields DEF HandlerInv, Param

\* What the insert of a product changes.
LEMMA InsertEffect ==
    ASSUME TypeOK, NEW who \in Requests \cup {Seeder}, InsertProduct(who)
    PROVE  /\ products' \in [Ids -> Rows \cup {None}]
           /\ acked' \in [Ids -> Rows \cup {None}]
           /\ lastId' \in 0..MaxId
           /\ \A i \in Ids : \/ products'[i] = products[i] /\ acked'[i] = acked[i]
                             \/ products'[i] = acked'[i] /\ acked'[i] \in Rows
<1>1. PICK row \in Rows : row = [k \in Columns |-> who]
    BY DEF Rows
<1>2. /\ products' = [products EXCEPT ![lastId + 1] = row]
      /\ acked' = [acked EXCEPT ![lastId + 1] = row]
      /\ lastId + 1 \in Ids /\ lastId' = lastId + 1
    BY <1>1 DEF InsertProduct
<1>3. lastId' \in 0..MaxId
    BY <1>2, RequestsAssumption DEF Ids, TypeOK
<1> QED
    BY <1>2, <1>3 DEF TypeOK

\* What handleContext and AuthAPI write into the context of a request.
LEMMA RouteEffect ==
    ASSUME TypeOK, HandlerInv, NEW r \in Requests, Route(r)
    PROVE  /\ ctx' \in [Contexts -> [request : Requests \cup {None}, params : Ids \cup {None},
                                     store : Requests \cup {None}]]
           /\ ctx'[own[r]].request = r
           /\ ctx'[own[r]].params = IF "id" \in DOMAIN op[r] THEN op[r].id ELSE None
           /\ ctx'[own[r]].store \in {None, r}
           /\ \A c \in Contexts \ {own[r]} : ctx'[c] = ctx[c]
<1> DEFINE id   == IF "id" \in DOMAIN op[r] THEN op[r].id ELSE None
           user == IF op[r].kind \in {"register", "login"} THEN ctx[own[r]].store ELSE r
<1>1. PICK c \in Contexts : c = own[r] /\ ctx[c].request = r /\ ctx[c].store \in {None, r}
    BY DEF Route, HandlerInv, Active
<1>2. id \in Ids \cup {None} /\ user \in {None, r}
    BY <1>1, OpFields DEF Route, HandlerInv
<1>3. /\ ctx' = [ctx EXCEPT ![c].params = id,
                          ![c].store = IF op[r].kind \in {"register", "login"} THEN @ ELSE r]
      /\ ctx \in [Contexts -> [request : Requests \cup {None}, params : Ids \cup {None},
                               store : Requests \cup {None}]]
    BY <1>1 DEF Route, TypeOK
<1> HIDE DEF id
<1>4. /\ DOMAIN ctx' = Contexts
      /\ \A d \in Contexts \ {c} : ctx'[d] = ctx[d]
      /\ ctx'[c] = [request |-> r, params |-> id, store |-> user]
  <2>1. c \in Contexts
      BY <1>1 DEF Route, HandlerInv, Active
  <2>2. DOMAIN ctx' = Contexts /\ \A d \in Contexts \ {c} : ctx'[d] = ctx[d]
      BY <1>3
  <2>3. PICK old \in [request : Requests \cup {None}, params : Ids \cup {None},
                      store : Requests \cup {None}] : old = ctx[c]
      BY <1>3, <2>1
  <2>4. ctx'[c] = [old EXCEPT !.params = id, !.store = user]
      BY <1>1, <1>3, <2>1, <2>3
  <2>5. old.request = r
      BY <1>1, <2>3
  <2> QED
      BY <2>2, <2>3, <2>4, <2>5
<1> HIDE DEF user
<1>5. ctx' = [ctx EXCEPT ![c] = [request |-> r, params |-> id, store |-> user]]
    BY <1>3, <1>4
<1> QED
    BY <1>1, <1>2, <1>3, <1>5 DEF id

LEMMA TypeNext == TypeOK /\ HandlerInv /\ [Next]_vars => TypeOK'
<1> SUFFICES ASSUME TypeOK, HandlerInv, [Next]_vars PROVE TypeOK'
    OBVIOUS
<1> USE RequestsAssumption DEF handlerVars, ctxVars, tables, seedVars
<1>1. ASSUME NEW r \in Requests, Acquire(r) PROVE TypeOK'
    BY <1>1 DEF Acquire, Goto, TypeOK
<1>2. ASSUME NEW r \in Requests, Route(r) PROVE TypeOK'
    BY <1>2, RouteEffect DEF Route, Goto, TypeOK
<1>3. ASSUME NEW r \in Requests, Release(r) PROVE TypeOK'
  <2>1. own[r] \in Contexts
      BY <1>3 DEF Release, HandlerInv, Active
  <2>2. ctx' \in [Contexts -> [request : Requests \cup {None}, params : Ids \cup {None},
                               store : Requests \cup {None}]]
    <3>1. PICK c \in Contexts : c = own[r]
        BY <2>1
    <3>2. PICK old \in [request : Requests \cup {None}, params : Ids \cup {None},
                        store : Requests \cup {None}] : old = ctx[c]
        BY <3>1 DEF TypeOK
    <3>3. PICK new : new = [old EXCEPT !.request = None]
        OBVIOUS
    <3>4. new \in [request : Requests \cup {None}, params : Ids \cup {None},
                   store : Requests \cup {None}]
        BY <3>3
    <3>5. ctx' = [ctx EXCEPT ![c] = new]
        BY <1>3, <3>1, <3>2, <3>3 DEF Release
    <3> QED
        BY <3>4, <3>5 DEF TypeOK
  <2>3. /\ pc' = [pc EXCEPT ![r] = "done"] /\ own' = [own EXCEPT ![r] = None]
        /\ pool' = pool \cup {own[r]}
        /\ UNCHANGED <<op, seen, status, tables, seedVars, acked, missed>>
      BY <1>3 DEF Release, Goto
  <2>4. own' \in [Requests -> Contexts \cup {None}] /\ pool' \subseteq Contexts
      BY <2>1, <2>3 DEF TypeOK
  <2>5. pc' \in [Requests -> {"new", "acquired", "handler", "free", "found", "answered",
                              "done"}]
      BY <2>3 DEF TypeOK
  <2> QED
      BY <2>2, <2>3, <2>4, <2>5 DEF TypeOK
\* A step that answers and otherwise leaves the types alone.
<1>4. ASSUME NEW r \in Requests, pc[r] \in {"handler", "free", "found"},
             NEW code \in Codes, Answer(r, code)
      PROVE  /\ pc' \in [Requests -> {"new", "acquired", "handler", "free", "found",
                                      "answered", "done"}]
             /\ status' \in [Requests -> SUBSET Codes]
    BY <1>4, AnswerEffect DEF TypeOK
<1>5. ASSUME NEW r \in Requests, Fail(r) PROVE TypeOK'
    BY <1>4, <1>5 DEF Fail, Codes, TypeOK
<1>6. ASSUME NEW r \in Requests, Read(r) PROVE TypeOK'
  <2>1. \E code \in Codes : Answer(r, code)
      BY <1>6 DEF Read, Codes
  <2> QED
      BY <1>4, <1>6, <2>1 DEF Read, Handling, TypeOK
<1>7. ASSUME NEW r \in Requests, Store(r) PROVE TypeOK'
    BY <1>4, <1>7, InsertEffect DEF Store, Handling, Codes, TypeOK
<1>8. ASSUME NEW r \in Requests, UpdateFind(r) PROVE TypeOK'
  <2>1. CASE Row(r) = None
      BY <1>4, <1>8, <2>1 DEF UpdateFind, Handling, Codes, TypeOK
  <2>2. CASE Row(r) # None
    <3>1. Row(r) \in Rows
        BY <1>8, <2>2, HandlerFields DEF UpdateFind, Handling, Row, TypeOK
    <3> QED
        BY <1>8, <2>2, <3>1 DEF UpdateFind, Goto, TypeOK
  <2> QED
      BY <2>1, <2>2
<1>9. ASSUME NEW r \in Requests, UpdateWrite(r) PROVE TypeOK'
  <2>1. CASE Row(r) = None
      BY <1>4, <1>9, <2>1 DEF UpdateWrite, Codes, TypeOK
  <2>2. CASE Row(r) # None
    <3>1. seen[r] \in Rows /\ Param(r) \in Ids /\ acked[Param(r)] \in Rows
        BY <1>9, <2>2, HandlerFields DEF UpdateWrite, Row, HandlerInv
    <3>2. /\ [k \in Columns |-> IF k \in op[r].sets THEN r ELSE seen[r][k]] \in Rows
          /\ [k \in Columns |-> IF k \in op[r].sets THEN r ELSE acked[Param(r)][k]] \in Rows
        BY <3>1, UpdatedRow
    <3> QED
        BY <1>4, <1>9, <2>2, <3>1, <3>2 DEF UpdateWrite, Codes, TypeOK
  <2> QED
      BY <2>1, <2>2
<1>10. ASSUME NEW r \in Requests, Destroy(r) PROVE TypeOK'
  <2>1. \E code \in Codes : Answer(r, code)
      BY <1>10 DEF Destroy, Codes
  <2> QED
      BY <1>4, <1>10, <2>1 DEF Destroy, Handling, TypeOK
<1>11. ASSUME NEW r \in Requests, RegisterCheck(r) PROVE TypeOK'
    BY <1>4, <1>11 DEF RegisterCheck, Handling, Goto, Codes, TypeOK
<1>12. ASSUME NEW r \in Requests, RegisterInsert(r) PROVE TypeOK'
    BY <1>4, <1>12 DEF RegisterInsert, Codes, TypeOK
<1>13. ASSUME NEW r \in Requests, Login(r) PROVE TypeOK'
  <2>1. \E code \in Codes : Answer(r, code)
      BY <1>13 DEF Login, Codes
  <2> QED
      BY <1>4, <1>13, <2>1 DEF Login, Handling, TypeOK
<1>14. CASE SeedUser \/ SeedInsert \/ SeedCount
    BY <1>14 DEF SeedUser, SeedInsert, SeedCount, Seeding, TypeOK
<1>15. CASE SeedProduct
    BY <1>15, InsertEffect DEF SeedProduct, TypeOK
<1>16. CASE UNCHANGED vars
    BY <1>16 DEF vars, TypeOK
<1> QED
    BY <1>1, <1>2, <1>3, <1>5, <1>6, <1>7, <1>8, <1>9, <1>10, <1>11, <1>12, <1>13,
       <1>14, <1>15, <1>16 DEF Next, Handler

LEMMA HandlerNext == TypeOK /\ HandlerInv /\ [Next]_vars => HandlerInv'
<1> SUFFICES ASSUME TypeOK, HandlerInv, [Next]_vars PROVE HandlerInv'
    OBVIOUS
<1> USE DEF handlerVars, ctxVars, tables, seedVars
\* The rows that are shown have been acknowledged.
<1>a. ASSUME \A i \in Ids : products'[i] # None =>
                               \/ products'[i] = products[i] /\ acked'[i] = acked[i]
                               \/ acked'[i] \in Rows
      PROVE  \A i \in Ids : products'[i] # None => acked'[i] \in Rows
    BY <1>a DEF HandlerInv
\* A handler that answers leaves every context alone.
<1>b. ASSUME NEW r \in Requests, pc[r] \in {"handler", "free", "found"},
             \E code \in Codes : Answer(r, code), UNCHANGED <<op, ctxVars, seen>>,
             \A i \in Ids : products'[i] # None =>
                               \/ products'[i] = products[i] /\ acked'[i] = acked[i]
                               \/ acked'[i] \in Rows
      PROVE  HandlerInv'
  <2>1. PICK code \in Codes : Answer(r, code)
      BY <1>b
  <2>2. /\ \A s \in Requests \ {r} : pc'[s] = pc[s] /\ status'[s] = status[s]
        /\ pc'[r] = "answered" /\ status'[r] = {code}
      BY <1>b, <2>1, AnswerEffect DEF TypeOK
  <2> QED
      BY <1>a, <1>b, <2>2 DEF HandlerInv, Active
<1>c. UNCHANGED <<products, acked>> =>
          \A i \in Ids : products'[i] # None => products'[i] = products[i]
                                                  /\ acked'[i] = acked[i]
    OBVIOUS
\* Active requests have different contexts, since these name them.
<1>d. \A r, s \in Requests : Active(r) /\ Active(s) /\ own[r] = own[s] => r = s
    BY DEF HandlerInv
<1>1. ASSUME NEW r \in Requests, Acquire(r) PROVE HandlerInv'
  <2>1. PICK o \in Ops, c \in Contexts :
            /\ c \in pool
            /\ op' = [op EXCEPT ![r] = o]
            /\ own' = [own EXCEPT ![r] = c]
            /\ pool' = pool \ {c}
            /\ ctx' = [ctx EXCEPT ![c] = [request |-> r, params |-> None, store |-> None]]
      BY <1>1 DEF Acquire
  <2>2. /\ pc[r] = "new" /\ pc' = [pc EXCEPT ![r] = "acquired"]
        /\ UNCHANGED <<seen, status, products, acked>>
      BY <1>1 DEF Acquire, Goto
  <2>3. /\ op'[r] = o /\ own'[r] = c /\ pc'[r] = "acquired" /\ ctx'[c].request = r
        /\ ctx'[c].params = None /\ ctx'[c].store = None /\ status[r] = {}
      BY <2>1, <2>2 DEF TypeOK, HandlerInv
  <2>4. \A s \in Requests \ {r} :
            /\ op'[s] = op[s] /\ own'[s] = own[s] /\ pc'[s] = pc[s]
            /\ Active(s) => own[s] # c /\ ctx'[own[s]] = ctx[own[s]]
      BY <2>1, <2>2 DEF TypeOK, HandlerInv
  <2> QED
      BY <2>1, <2>2, <2>3, <2>4 DEF HandlerInv, Active
<1>2. ASSUME NEW r \in Requests, Route(r) PROVE HandlerInv'
  <2>1. /\ pc[r] = "acquired" /\ pc' = [pc EXCEPT ![r] = "handler"]
        /\ UNCHANGED <<op, own, pool, seen, status, products, acked>>
      BY <1>2 DEF Route, Goto
  <2>2. \A s \in Requests \ {r} :
            /\ pc'[s] = pc[s]
            /\ Active(s) => ctx'[own[s]] = ctx[own[s]]
      BY <1>2, <1>d, <2>1, RouteEffect DEF TypeOK, HandlerInv, Active
  <2>3. pc'[r] = "handler" /\ Active(r)
      BY <2>1 DEF TypeOK, Active
  <2> QED
      BY <1>2, <2>1, <2>2, <2>3, RouteEffect DEF HandlerInv, Active
<1>3. ASSUME NEW r \in Requests, Release(r) PROVE HandlerInv'
  <2>1. /\ pc[r] = "answered" /\ pc' = [pc EXCEPT ![r] = "done"]
        /\ own' = [own EXCEPT ![r] = None]
        /\ pool' = pool \cup {own[r]}
        /\ ctx' = [ctx EXCEPT ![own[r]].request = None]
        /\ UNCHANGED <<op, seen, status, products, acked>>
      BY <1>3 DEF Release, Goto
  <2>2. \A s \in Requests \ {r} :
            /\ pc'[s] = pc[s] /\ own'[s] = own[s]
            /\ Active(s) => own[s] # own[r] /\ ctx'[own[s]] = ctx[own[s]]
      BY <1>d, <2>1 DEF TypeOK, HandlerInv, Active
  <2>3. pc'[r] = "done"
      BY <2>1 DEF TypeOK
  <2> QED
      BY <2>1, <2>2, <2>3 DEF HandlerInv, Active
<1>4. ASSUME NEW r \in Requests, Fail(r) PROVE HandlerInv'
    BY <1>4, <1>b, <1>c DEF Fail, Codes
<1>5. ASSUME NEW r \in Requests, Read(r) PROVE HandlerInv'
  <2>1. \E code \in Codes : Answer(r, code)
      BY <1>5 DEF Read, Codes
  <2> QED
      BY <1>5, <1>b, <1>c, <2>1 DEF Read, Handling
<1>6. ASSUME NEW r \in Requests, Store(r) PROVE HandlerInv'
    BY <1>6, <1>b, InsertEffect DEF Store, Handling, Codes
<1>7. ASSUME NEW r \in Requests, UpdateFind(r) PROVE HandlerInv'
  <2>1. CASE Row(r) = None
      BY <1>7, <1>b, <1>c, <2>1 DEF UpdateFind, Handling, Codes
  <2>2. CASE Row(r) # None
    <3>1. Row(r) \in Rows
        BY <1>7, <2>2, HandlerFields DEF UpdateFind, Handling, Row, TypeOK
    <3>2. /\ pc[r] = "handler" /\ op[r].kind = "update" /\ pc'[r] = "found"
          /\ seen'[r] = Row(r)
          /\ \A s \in Requests \ {r} : pc'[s] = pc[s] /\ seen'[s] = seen[s]
          /\ UNCHANGED <<op, ctxVars, status, products, acked>>
        BY <1>7, <2>2 DEF UpdateFind, Handling, Goto, TypeOK
    <3> QED
        BY <3>1, <3>2 DEF HandlerInv, Active
  <2> QED
      BY <2>1, <2>2
<1>8. ASSUME NEW r \in Requests, UpdateWrite(r) PROVE HandlerInv'
  <2>1. CASE Row(r) = None
      BY <1>8, <1>b, <1>c, <2>1 DEF UpdateWrite, Codes
  <2>2. CASE Row(r) # None
    <3>1. Param(r) \in Ids /\ acked[Param(r)] \in Rows
        BY <1>8, <2>2, HandlerFields DEF UpdateWrite, Row, HandlerInv
    <3>2. [k \in Columns |-> IF k \in op[r].sets THEN r ELSE acked[Param(r)][k]] \in Rows
        BY <3>1, UpdatedRow
    <3>3. \A i \in Ids : \/ products'[i] = products[i] /\ acked'[i] = acked[i]
                         \/ acked'[i] \in Rows
        BY <1>8, <2>2, <3>1, <3>2 DEF UpdateWrite, TypeOK
    <3> QED
        BY <1>8, <1>b, <3>3 DEF UpdateWrite, Codes
  <2> QED
      BY <2>1, <2>2
<1>9. ASSUME NEW r \in Requests, Destroy(r) PROVE HandlerInv'
  <2>1. /\ \E code \in Codes : Answer(r, code)
        /\ \A i \in Ids : products'[i] # None =>
                            products'[i] = products[i] /\ acked'[i] = acked[i]
      BY <1>9 DEF Destroy, Codes, TypeOK
  <2> QED
      BY <1>9, <1>b, <2>1 DEF Destroy, Handling
<1>10. ASSUME NEW r \in Requests, RegisterCheck(r) PROVE HandlerInv'
  <2>1. CASE users[op[r].email] # None
      BY <1>10, <1>b, <1>c, <2>1 DEF RegisterCheck, Handling, Codes
  <2>2. CASE users[op[r].email] = None
    <3>1. /\ pc[r] = "handler" /\ op[r].kind = "register" /\ pc'[r] = "free"
          /\ \A s \in Requests \ {r} : pc'[s] = pc[s]
          /\ UNCHANGED <<op, ctxVars, status, seen, products, acked>>
        BY <1>10, <2>2 DEF RegisterCheck, Handling, Goto, TypeOK
    <3> QED
        BY <3>1 DEF HandlerInv, Active
  <2> QED
      BY <2>1, <2>2
<1>11. ASSUME NEW r \in Requests, RegisterInsert(r) PROVE HandlerInv'
    BY <1>11, <1>b, <1>c DEF RegisterInsert, Codes
<1>12. ASSUME NEW r \in Requests, Login(r) PROVE HandlerInv'
  <2>1. \E code \in Codes : Answer(r, code)
      BY <1>12 DEF Login, Codes
  <2> QED
      BY <1>12, <1>b, <1>c, <2>1 DEF Login, Handling
<1>13. ASSUME UNCHANGED <<op, pc, ctxVars, seen, status>>,
              \A i \in Ids : products'[i] # None =>
                               \/ products'[i] = products[i] /\ acked'[i] = acked[i]
                               \/ acked'[i] \in Rows
       PROVE  HandlerInv'
    BY <1>13, <1>a DEF HandlerInv, Active
<1>14. CASE SeedUser \/ SeedInsert \/ SeedCount
    BY <1>13, <1>14, <1>c DEF SeedUser, SeedInsert, SeedCount
<1>15. CASE SeedProduct
    BY <1>13, <1>15, <1>c, InsertEffect DEF SeedProduct
<1>16. CASE UNCHANGED vars
    BY <1>13, <1>16, <1>c DEF vars
<1> QED
    BY <1>1, <1>2, <1>3, <1>4, <1>5, <1>6, <1>7, <1>8, <1>9, <1>10, <1>11, <1>12, <1>13,
       <1>14, <1>15, <1>16 DEF Next, Handler

\* Every variable keeps its type.
THEOREM RequestsType == Spec => []TypeOK
BY InitInv, TypeNext, HandlerNext, PTL DEF Spec

LEMMA HandlerInvariant == Spec => []HandlerInv
BY InitInv, TypeNext, HandlerNext, PTL DEF Spec

\* Requests served at the same time do not meet in a context of the pool, and each is
\* answered once.
THEOREM ContextsArePrivate == Spec => []ContextPrivate
<1> SUFFICES ASSUME TypeOK, HandlerInv PROVE ContextPrivate
    BY RequestsType, HandlerInvariant, PTL
<1> SUFFICES ASSUME NEW r \in Requests
             PROVE  /\ Active(r) =>
                          /\ own[r] \notin pool
                          /\ ctx[own[r]].request = r
                          /\ ctx[own[r]].store \in {None, r}
                          /\ \/ ctx[own[r]].params = None
                             \/ "id" \in DOMAIN op[r] /\ ctx[own[r]].params = op[r].id
                    /\ Cardinality(status[r]) = IF pc[r] \in {"answered", "done"} THEN 1 ELSE 0
    BY DEF ContextPrivate
<1>1. Active(r) => /\ own[r] \notin pool
                   /\ ctx[own[r]].request = r
                   /\ ctx[own[r]].store \in {None, r}
                   /\ \/ ctx[own[r]].params = None
                      \/ "id" \in DOMAIN op[r] /\ ctx[own[r]].params = op[r].id
    BY DEF TypeOK, HandlerInv, Active
<1>2. ASSUME pc[r] \in {"answered", "done"} PROVE Cardinality(status[r]) = 1
  <2>1. PICK code \in Codes : status[r] = {code}
      BY <1>2 DEF HandlerInv
  <2> QED
      BY <2>1, FS_Singleton
<1>3. ASSUME pc[r] \notin {"answered", "done"} PROVE Cardinality(status[r]) = 0
    BY <1>3, FS_EmptySet DEF HandlerInv
<1> QED
    BY <1>1, <1>2, <1>3

------------------------------------------------------------------------------
(* What every step leaves of the past *)

\* An operation is fixed when its request arrives, and an answer is final.
LEMMA AnswersStay ==
    ASSUME TypeOK, HandlerInv, [Next]_vars, NEW r \in Requests
    PROVE  /\ pc[r] # "new" => pc'[r] # "new" /\ op'[r] = op[r]
           /\ status[r] # {} => /\ pc[r] \in {"answered", "done"}
                                /\ status'[r] = status[r] /\ seen'[r] = seen[r]
<1> USE DEF handlerVars, ctxVars, tables, seedVars
<1>1. status[r] # {} => pc[r] \in {"answered", "done"}
    BY DEF HandlerInv
<1>2. ASSUME NEW s \in Requests, Acquire(s) \/ Route(s) \/ Release(s)
      PROVE  /\ pc[r] # "new" => pc'[r] # "new" /\ op'[r] = op[r]
             /\ UNCHANGED <<status, seen>>
    BY <1>2 DEF Acquire, Route, Release, Goto, TypeOK
<1>3. ASSUME NEW s \in Requests, pc[s] \in {"handler", "free", "found"},
             \/ \E code \in Codes : Answer(s, code) /\ UNCHANGED seen
             \/ Goto(s, "found") /\ UNCHANGED status /\ \E row : seen' = [seen EXCEPT ![s] = row]
             \/ Goto(s, "free") /\ UNCHANGED <<status, seen>>,
             UNCHANGED op
      PROVE  /\ pc[r] # "new" => pc'[r] # "new" /\ op'[r] = op[r]
             /\ status[r] # {} => status'[r] = status[r] /\ seen'[r] = seen[r]
    BY <1>1, <1>3, AnswerEffect DEF Goto, TypeOK
<1>4. ASSUME NEW s \in Requests, Handler(s) \/ Fail(s)
      PROVE  /\ pc[r] # "new" => pc'[r] # "new" /\ op'[r] = op[r]
             /\ status[r] # {} => status'[r] = status[r] /\ seen'[r] = seen[r]
  <2>1. UNCHANGED op /\ pc[s] \in {"handler", "free", "found"}
      BY <1>4 DEF Handler, Fail, Read, Store, UpdateFind, UpdateWrite, Destroy,
                  RegisterCheck, RegisterInsert, Login, Handling
  <2>2. CASE UpdateFind(s) \/ RegisterCheck(s)
      BY <1>3, <2>1, <2>2 DEF UpdateFind, RegisterCheck, Codes
  <2>3. CASE Fail(s) \/ Store(s) \/ UpdateWrite(s) \/ RegisterInsert(s)
      BY <1>3, <2>1, <2>3 DEF Fail, Store, UpdateWrite, RegisterInsert, Codes
  <2>4. CASE Read(s) \/ Destroy(s) \/ Login(s)
    <3>1. \E code \in Codes : Answer(s, code)
        BY <2>4 DEF Read, Destroy, Login, Codes
    <3>2. UNCHANGED seen
        BY <2>4 DEF Read, Destroy, Login
    <3> QED
        BY <1>3, <2>1, <3>1, <3>2
  <2> QED
      BY <1>4, <2>2, <2>3, <2>4 DEF Handler
<1>5. SeedUser \/ SeedInsert \/ SeedCount \/ SeedProduct \/ UNCHANGED vars
      => UNCHANGED <<pc, op, status, seen>>
    BY DEF SeedUser, SeedInsert, SeedCount, SeedProduct, vars
<1> QED
    BY <1>1, <1>2, <1>4, <1>5 DEF Next

------------------------------------------------------------------------------
(* Accounts *)

\* r registered the account of e and was told so.
Registered(r, e) == op[r] = [kind |-> "register", email |-> e] /\ 201 \in status[r]

\* Only RegisterInsert answers a registration 201.
LEMMA RegisterNext ==
    TypeOK /\ HandlerInv /\ RegisterTruthful /\ [Next]_vars => RegisterTruthful'
<1> SUFFICES ASSUME TypeOK, HandlerInv, RegisterTruthful, [Next]_vars
             PROVE  RegisterTruthful'
    OBVIOUS
<1> USE DEF handlerVars, ctxVars, tables, seedVars
<1>0. RegisterTruthful <=> \A r \in Requests, e \in Emails : users[e] = r <=> Registered(r, e)
    BY DEF RegisterTruthful, Registered
<1>00. RegisterTruthful' <=>
           \A r \in Requests, e \in Emails : users'[e] = r <=> Registered(r, e)'
    BY DEF RegisterTruthful, Registered
\* The step answers no registration 201.
<1>1. ASSUME NEW r \in Requests, UNCHANGED users,
             \A e \in Emails : ~Registered(r, e) /\ ~Registered(r, e)',
             \A s \in Requests \ {r} : op'[s] = op[s] /\ status'[s] = status[s]
      PROVE  RegisterTruthful'
  <2>1. \A e \in Emails : users[e] # r
      BY <1>0, <1>1
  <2>2. \A s \in Requests \ {r}, e \in Emails : Registered(s, e)' <=> Registered(s, e)
      BY <1>1 DEF Registered
  <2> QED
      BY <1>0, <1>00, <1>1, <2>1, <2>2
<1>2. ASSUME UNCHANGED <<users, op, status>> PROVE RegisterTruthful'
  <2>1. \A r \in Requests, e \in Emails : Registered(r, e)' <=> Registered(r, e)
      BY <1>2 DEF Registered
  <2> QED
      BY <1>0, <1>00, <1>2, <2>1
<1>3. ASSUME NEW r \in Requests, pc[r] \in {"handler", "free", "found"},
             NEW code \in Codes, Answer(r, code), UNCHANGED <<op, users>>,
             code = 201 => op[r].kind # "register"
      PROVE  RegisterTruthful'
  <2>1. /\ status[r] = {} /\ status'[r] = {code}
        /\ \A s \in Requests \ {r} : op'[s] = op[s] /\ status'[s] = status[s]
      BY <1>3, AnswerEffect DEF HandlerInv, TypeOK
  <2>2. \A e \in Emails : ~Registered(r, e) /\ ~Registered(r, e)'
      BY <1>3, <2>1, OpKinds DEF Registered
  <2> QED
      BY <1>1, <1>3, <2>1, <2>2
<1>4. ASSUME NEW r \in Requests, Acquire(r) PROVE RegisterTruthful'
  <2>1. /\ status[r] = {} /\ UNCHANGED <<users, status>>
        /\ \A s \in Requests \ {r} : op'[s] = op[s]
      BY <1>4 DEF Acquire, HandlerInv, TypeOK
  <2> QED
      BY <1>1, <2>1 DEF Registered
<1>5. ASSUME NEW r \in Requests, Route(r) \/ Release(r) PROVE RegisterTruthful'
    BY <1>2, <1>5 DEF Route, Release
<1>6. ASSUME NEW r \in Requests, Fail(r) PROVE RegisterTruthful'
    BY <1>3, <1>6 DEF Fail, Codes
<1>7. ASSUME NEW r \in Requests, Read(r) \/ Destroy(r) \/ Login(r) PROVE RegisterTruthful'
  <2>1. /\ \E code \in Codes \ {201} : Answer(r, code)
        /\ pc[r] = "handler" /\ UNCHANGED <<op, users>>
      BY <1>7 DEF Read, Destroy, Login, Codes, Handling
  <2> QED
      BY <1>3, <2>1
<1>8. ASSUME NEW r \in Requests, Store(r) PROVE RegisterTruthful'
    BY <1>3, <1>8 DEF Store, Handling, Codes
<1>9. ASSUME NEW r \in Requests, UpdateFind(r) PROVE RegisterTruthful'
    BY <1>2, <1>3, <1>9 DEF UpdateFind, Handling, Codes
<1>10. ASSUME NEW r \in Requests, UpdateWrite(r) PROVE RegisterTruthful'
    BY <1>3, <1>10 DEF UpdateWrite, Codes
<1>11. ASSUME NEW r \in Requests, RegisterCheck(r) PROVE RegisterTruthful'
    BY <1>2, <1>3, <1>11 DEF RegisterCheck, Handling, Codes
<1>12. ASSUME NEW r \in Requests, RegisterInsert(r) PROVE RegisterTruthful'
  <2>1. CASE users[op[r].email] # None
      BY <1>3, <1>12, <2>1 DEF RegisterInsert, Codes
  <2>2. CASE users[op[r].email] = None
    <3>0. op[r] \in Ops /\ op[r].kind = "register"
        BY <1>12 DEF RegisterInsert, HandlerInv
    <3>1. PICK f \in Emails : op[r] = [kind |-> "register", email |-> f] /\ op[r].email = f
        BY <3>0, OpFields
    <3>2. /\ status[r] = {} /\ status'[r] = {201} /\ UNCHANGED op
          /\ \A s \in Requests \ {r} : status'[s] = status[s]
          /\ users' = [users EXCEPT ![f] = r]
      <4>1. /\ pc[r] = "free" /\ users' = [users EXCEPT ![f] = r] /\ UNCHANGED op
            /\ 201 \in Codes /\ Answer(r, 201)
          BY <1>12, <2>2, <3>1 DEF RegisterInsert, Codes
      <4>2. status' = [status EXCEPT ![r] = {201}] /\ status[r] = {}
          BY <4>1, AnswerEffect DEF HandlerInv
      <4> QED
          BY <4>1, <4>2 DEF TypeOK
    <3>3. users[f] = None /\ \A e \in Emails : users'[e] = IF e = f THEN r ELSE users[e]
        BY <2>2, <3>1, <3>2 DEF TypeOK
    <3>4. \A e \in Emails : Registered(r, e)' <=> e = f
        BY <3>1, <3>2, OpKinds DEF Registered
    <3>5. \A s \in Requests \ {r}, e \in Emails : Registered(s, e)' <=> Registered(s, e)
        BY <3>2 DEF Registered
    <3>6. \A e \in Emails : ~Registered(r, e)
        BY <3>2 DEF Registered
    <3>7. \A s \in Requests : s # None
        BY RequestsAssumption
    <3> QED
        BY <1>0, <1>00, <3>3, <3>4, <3>5, <3>6, <3>7
  <2> QED
      BY <2>1, <2>2
<1>13. CASE SeedInsert
  <2>1. CASE users' = users
      BY <1>2, <1>13, <2>1 DEF SeedInsert
  <2>2. CASE users' # users
    <3>1. /\ users[Admin] = None /\ UNCHANGED <<op, status>>
          /\ \A e \in Emails : users'[e] = IF e = Admin THEN Seeder ELSE users[e]
        BY <1>13, <2>2, RequestsAssumption DEF SeedInsert, TypeOK
    <3>2. \A s \in Requests : s # None /\ s # Seeder
        BY RequestsAssumption
    <3>3. \A s \in Requests, e \in Emails :
              /\ users'[e] = s <=> users[e] = s
              /\ Registered(s, e)' <=> Registered(s, e)
        BY <3>1, <3>2 DEF Registered
    <3> QED
        BY <1>0, <1>00, <3>3
  <2> QED
      BY <2>1, <2>2
<1>14. CASE SeedUser \/ SeedCount \/ SeedProduct \/ UNCHANGED vars
    BY <1>2, <1>14 DEF SeedUser, SeedCount, SeedProduct, vars
<1> QED
    BY <1>4, <1>5, <1>6, <1>7, <1>8, <1>9, <1>10, <1>11, <1>12, <1>13, <1>14
       DEF Next, Handler

\* An address has one account for good, made by exactly the registration that was
\* answered 201 or by the seeder, however their look-ups and inserts interleave.
THEOREM RegistrationsAreTruthful == Spec => []RegisterTruthful
<1>1. Init => RegisterTruthful
    BY RequestsAssumption DEF Init, RegisterTruthful
<1> QED
    BY <1>1, RegisterNext, RequestsType, HandlerInvariant, PTL DEF Spec

------------------------------------------------------------------------------
(* Products *)

\* The product i was destroyed by a request that was told so.
Destroyed(i) == \E d \in Requests : op[d] = [kind |-> "destroy", id |-> i] /\ 200 \in status[d]

\* r has put back the value of column k that it had read.
PutBack(r, i, k) ==
    /\ op[r] # None /\ op[r].kind = "update" /\ op[r].id = i
    /\ 200 \in status[r] /\ r \notin missed
    /\ k \notin op[r].sets /\ seen[r][k] = products[i][k]

\* UpdatesExplained, and what an update knows between its two steps: the row it has
\* found is there, or a request has destroyed it and was told so.
UpdateInv ==
    /\ \A i \in Ids : products[i] # None => \A k \in Columns :
          products[i][k] = acked[i][k] \/ \E r \in Requests : PutBack(r, i, k)
    /\ \A r \in missed : Destroyed(op[r].id) /\ status[r] # {}
    /\ \A r \in Requests :
          pc[r] = "found" => products[op[r].id] # None \/ Destroyed(op[r].id)

LEMMA DestroyedStays ==
    ASSUME TypeOK, HandlerInv, [Next]_vars, NEW i, Destroyed(i)
    PROVE  Destroyed(i)'
<1>1. PICK d \in Requests : op[d] = [kind |-> "destroy", id |-> i] /\ 200 \in status[d]
    BY DEF Destroyed
<1>2. op'[d] = op[d] /\ status'[d] = status[d]
    BY <1>1, AnswersStay
<1> QED
    BY <1>1, <1>2 DEF Destroyed

\* A value that was put back stays explained until the row changes.
LEMMA PutBackStays ==
    ASSUME TypeOK, HandlerInv, [Next]_vars, NEW i \in Ids, NEW k \in Columns,
           \A r \in missed' \ missed : status[r] = {}, products'[i] = products[i],
           NEW r \in Requests, PutBack(r, i, k)
    PROVE  PutBack(r, i, k)'
<1>1. op'[r] = op[r] /\ status'[r] = status[r] /\ seen'[r] = seen[r] /\ status[r] # {}
    BY AnswersStay DEF PutBack
<1> QED
    BY <1>1 DEF PutBack

LEMMA UpdateNext == TypeOK /\ HandlerInv /\ UpdateInv /\ [Next]_vars => UpdateInv'
<1> SUFFICES ASSUME TypeOK, HandlerInv, UpdateInv, [Next]_vars PROVE UpdateInv'
    OBVIOUS
<1> USE DEF handlerVars, ctxVars, tables, seedVars
\* A step that shows acknowledged values or what was shown before, and removes only
\* what a request has destroyed.
<1>1. ASSUME \A r \in missed' : \/ r \in missed
                                \/ r \in Requests /\ status[r] = {} /\ status'[r] # {}
                                      /\ Destroyed(op[r].id)',
             \A i \in Ids : products'[i] # None =>
                               \/ products'[i] = products[i] /\ acked'[i] = acked[i]
                               \/ products'[i] = acked'[i],
             \A i \in Ids : products[i] # None => products'[i] # None \/ Destroyed(i)',
             \A r \in Requests : pc'[r] = "found" => \/ pc[r] = "found"
                                                     \/ products'[op'[r].id] # None
      PROVE  UpdateInv'
  <2>1. ASSUME NEW i \in Ids, products'[i] # None, NEW k \in Columns
        PROVE  products'[i][k] = acked'[i][k] \/ \E r \in Requests : PutBack(r, i, k)'
    <3>1. CASE products'[i] = products[i] /\ acked'[i] = acked[i]
        BY <1>1, <2>1, <3>1, PutBackStays DEF UpdateInv
    <3> QED
        BY <1>1, <2>1, <3>1
  <2>2. ASSUME NEW r \in missed' PROVE Destroyed(op[r].id)' /\ status'[r] # {}
    <3>1. CASE r \in missed
      <4>1. r \in Requests /\ Destroyed(op[r].id) /\ status[r] # {}
          BY <3>1 DEF UpdateInv, TypeOK
      <4>2. op'[r] = op[r] /\ status'[r] = status[r]
          BY <4>1, AnswersStay
      <4>3. PICK i : i = op[r].id /\ Destroyed(i)
          BY <4>1
      <4>4. Destroyed(i)'
          BY <4>3, DestroyedStays
      <4> QED
          BY <4>1, <4>2, <4>3, <4>4
    <3> QED
        BY <1>1, <2>2, <3>1
  <2>3. ASSUME NEW r \in Requests, pc'[r] = "found"
        PROVE  products'[op'[r].id] # None \/ Destroyed(op[r].id)'
    <3>1. CASE pc[r] = "found"
      <4>1. op'[r] = op[r]
          BY <3>1, AnswersStay
      <4>2. PICK i \in Ids : i = op[r].id
          BY <3>1, HandlerFields DEF HandlerInv
      <4>3. products[i] # None \/ Destroyed(i)
          BY <3>1, <4>2 DEF UpdateInv
      <4>4. products'[i] # None \/ Destroyed(i)'
          BY <1>1, <4>3, DestroyedStays
      <4> QED
          BY <4>1, <4>2, <4>4
    <3> QED
        BY <1>1, <2>3, <3>1
  <2> QED
      BY <2>1, <2>2, <2>3 DEF UpdateInv
<1>2. ASSUME UNCHANGED <<products, acked, missed>>,
             \A r \in Requests : pc'[r] = "found" => pc[r] = "found"
      PROVE  UpdateInv'
    BY <1>1, <1>2
\* A handler that answers is not between the two steps of an update any more.
<1>3. ASSUME NEW r \in Requests, pc[r] \in {"handler", "free", "found"},
             \E code \in Codes : Answer(r, code)
      PROVE  \A s \in Requests : pc'[s] = "found" => pc[s] = "found"
    BY <1>3, AnswerEffect DEF TypeOK
<1>4. ASSUME NEW r \in Requests, Acquire(r) \/ Route(r) \/ Release(r) PROVE UpdateInv'
    BY <1>2, <1>4 DEF Acquire, Route, Release, Goto, TypeOK
<1>5. ASSUME NEW r \in Requests, Fail(r) \/ RegisterInsert(r) PROVE UpdateInv'
    BY <1>2, <1>3, <1>5 DEF Fail, RegisterInsert, Codes
<1>6. ASSUME NEW r \in Requests, Read(r) \/ Login(r) PROVE UpdateInv'
  <2>1. /\ \E code \in Codes : Answer(r, code)
        /\ pc[r] = "handler" /\ UNCHANGED <<products, acked, missed>>
      BY <1>6 DEF Read, Login, Codes, Handling
  <2> QED
      BY <1>2, <1>3, <2>1
<1>7. ASSUME NEW r \in Requests, RegisterCheck(r) PROVE UpdateInv'
  <2>1. /\ pc[r] = "handler" /\ UNCHANGED <<products, acked, missed>>
        /\ (\E code \in Codes : Answer(r, code)) \/ Goto(r, "free")
      BY <1>7 DEF RegisterCheck, Codes, Handling
  <2>2. \A s \in Requests : pc'[s] = "found" => pc[s] = "found"
      BY <1>3, <2>1 DEF Goto, TypeOK
  <2> QED
      BY <1>2, <2>1, <2>2
<1>8. ASSUME NEW r \in Requests, Store(r) PROVE UpdateInv'
  <2>1. /\ pc[r] = "handler" /\ UNCHANGED missed
        /\ \E code \in Codes : Answer(r, code)
        /\ InsertProduct(r)
      BY <1>8 DEF Store, Handling, Codes
  <2>2. \A i \in Ids : \/ products'[i] = products[i] /\ acked'[i] = acked[i]
                       \/ products'[i] = acked'[i] /\ acked'[i] \in Rows
      BY <2>1, InsertEffect
  <2>3. \A i \in Ids : products[i] # None => products'[i] # None
      BY <2>2, NoneAssumption
  <2>4. \A s \in Requests : pc'[s] = "found" => pc[s] = "found"
      BY <1>3, <2>1
  <2> QED
      BY <1>1, <2>1, <2>2, <2>3, <2>4
<1>9. ASSUME NEW r \in Requests, UpdateFind(r) PROVE UpdateInv'
  <2>1. CASE Row(r) = None
    <3>1. /\ pc[r] = "handler" /\ UNCHANGED <<products, acked, missed>>
          /\ \E code \in Codes : Answer(r, code)
        BY <1>9, <2>1 DEF UpdateFind, Handling, Codes
    <3> QED
        BY <1>2, <1>3, <3>1
  <2>2. CASE Row(r) # None
    <3>1. /\ op[r].kind = "update" /\ pc[r] = "handler" /\ pc' = [pc EXCEPT ![r] = "found"]
          /\ UNCHANGED <<op, products, acked, missed>>
        BY <1>9, <2>2 DEF UpdateFind, Handling, Goto
    <3>2. products[op[r].id] # None
        BY <2>2, <3>1, HandlerFields DEF Row
    <3> QED
        BY <1>1, <3>1, <3>2 DEF TypeOK
  <2> QED
      BY <2>1, <2>2
<1>10. ASSUME NEW r \in Requests, Destroy(r) PROVE UpdateInv'
  <2>1. /\ op[r].kind = "destroy" /\ pc[r] = "handler" /\ UNCHANGED <<op, acked, missed>>
        /\ products' = [products EXCEPT ![Param(r)] = None]
        /\ Answer(r, IF Row(r) = None THEN 404 ELSE 200)
      BY <1>10 DEF Destroy, Handling
  <2>2. PICK i \in Ids : /\ Param(r) = i /\ op[r] = [kind |-> "destroy", id |-> i]
                        /\ Row(r) = products[i]
      BY <2>1, HandlerFields, OpFields DEF Row
  <2>3. products[i] # None => Destroyed(i)'
    <3>1. SUFFICES ASSUME products[i] # None PROVE Destroyed(i)'
        OBVIOUS
    <3>2. 200 \in Codes /\ Answer(r, 200)
        BY <2>1, <2>2, <3>1 DEF Codes
    <3>3. status'[r] = {200}
        BY <2>1, <3>2, AnswerEffect DEF TypeOK
    <3> QED
        BY <2>1, <2>2, <3>3 DEF Destroyed
  <2>4. \A l \in Ids \ {i} : products'[l] = products[l]
      BY <2>1, <2>2 DEF TypeOK
  <2>5. products'[i] = None
      BY <2>1, <2>2 DEF TypeOK
  <2>6. \E code \in Codes : Answer(r, code)
      BY <2>1 DEF Codes
  <2> QED
      BY <1>1, <1>3, <2>1, <2>3, <2>4, <2>5, <2>6
<1>11. ASSUME NEW r \in Requests, UpdateWrite(r) PROVE UpdateInv'
  <2>1. pc[r] = "found" /\ UNCHANGED <<op, seen>> /\ Answer(r, 200) /\ 200 \in Codes
      BY <1>11 DEF UpdateWrite, Codes
  <2>2. /\ status[r] = {} /\ op[r] \in Ops /\ op[r].kind = "update" /\ seen[r] \in Rows
      BY <2>1 DEF HandlerInv
  <2>3. PICK i \in Ids : i = op[r].id /\ Param(r) = i /\ Row(r) = products[i]
      BY <2>1, <2>2, HandlerFields DEF Row
  <2>4. /\ status'[r] = {200} /\ pc'[r] = "answered"
        /\ \A s \in Requests : pc'[s] = "found" => pc[s] = "found"
      BY <1>3, <2>1, AnswerEffect DEF TypeOK
  <2>5. CASE products[i] = None
    <3>1. missed' = missed \cup {r} /\ UNCHANGED <<products, acked>>
        BY <1>11, <2>3, <2>5 DEF UpdateWrite
    <3>2. Destroyed(i)
        BY <2>1, <2>3, <2>5 DEF UpdateInv
    <3>3. Destroyed(op[r].id)'
        BY <2>1, <2>3, <3>2, DestroyedStays
    <3> QED
        BY <1>1, <2>2, <2>4, <3>1, <3>3
  <2>6. CASE products[i] # None
    <3>1. /\ products' = [products EXCEPT ![i] =
                [k \in Columns |-> IF k \in op[r].sets THEN r ELSE seen[r][k]]]
          /\ acked' = [acked EXCEPT ![i] =
                [k \in Columns |-> IF k \in op[r].sets THEN r ELSE @[k]]]
          /\ UNCHANGED missed
        BY <1>11, <2>3, <2>6 DEF UpdateWrite
    <3>2. /\ \A k \in Columns :
                /\ k \in op[r].sets => products'[i][k] = acked'[i][k]
                /\ k \notin op[r].sets => products'[i][k] = seen[r][k]
          /\ \A l \in Ids \ {i} : products'[l] = products[l] /\ acked'[l] = acked[l]
          /\ products'[i] \in Rows
        BY <2>2, <3>1, UpdatedRow DEF TypeOK
    <3>3. r \notin missed /\ op[r] # None
        BY <2>2, NoneAssumption DEF UpdateInv
    <3>4. \A k \in Columns : k \notin op[r].sets => PutBack(r, i, k)'
        BY <2>1, <2>2, <2>3, <2>4, <3>1, <3>2, <3>3 DEF PutBack
    <3>5. ASSUME NEW l \in Ids, products'[l] # None, NEW k \in Columns
          PROVE  products'[l][k] = acked'[l][k] \/ \E s \in Requests : PutBack(s, l, k)'
      <4>1. CASE l = i
          BY <3>2, <3>4, <4>1
      <4>2. CASE l # i
          BY <3>1, <3>2, <3>5, <4>2, PutBackStays DEF UpdateInv
      <4> QED
          BY <4>1, <4>2
    <3>6. ASSUME NEW s \in missed' PROVE Destroyed(op[s].id)' /\ status'[s] # {}
      <4>1. PICK l : l = op[s].id /\ Destroyed(l) /\ s \in Requests /\ status[s] # {}
          BY <3>1, <3>6 DEF UpdateInv, TypeOK
      <4>2. Destroyed(l)'
          BY <4>1, DestroyedStays
      <4> QED
          BY <2>1, <4>1, <4>2, AnswersStay
    <3>7. ASSUME NEW s \in Requests, pc'[s] = "found"
          PROVE  products'[op'[s].id] # None \/ Destroyed(op[s].id)'
      <4>1. PICK l \in Ids : l = op[s].id
          BY <2>4, <3>7, HandlerFields DEF HandlerInv
      <4>2. products[l] # None \/ Destroyed(l)
          BY <2>4, <3>7, <4>1 DEF UpdateInv
      <4>3. products'[l] # None \/ Destroyed(l)'
          BY <3>2, <4>2, DestroyedStays, NoneAssumption
      <4> QED
          BY <2>1, <4>1, <4>3
    <3> QED
        BY <3>5, <3>6, <3>7 DEF UpdateInv
  <2> QED
      BY <2>5, <2>6
<1>12. CASE SeedUser \/ SeedInsert \/ SeedCount \/ UNCHANGED vars
    BY <1>2, <1>12 DEF SeedUser, SeedInsert, SeedCount, vars
<1>13. CASE SeedProduct
  <2>1. /\ \A i \in Ids : \/ products'[i] = products[i] /\ acked'[i] = acked[i]
                          \/ products'[i] = acked'[i] /\ acked'[i] \in Rows
        /\ UNCHANGED <<pc, missed>>
      BY <1>13, InsertEffect DEF SeedProduct
  <2>2. \A i \in Ids : products[i] # None => products'[i] # None
      BY <2>1, NoneAssumption
  <2> QED
      BY <1>1, <2>1, <2>2
<1> QED
    BY <1>4, <1>5, <1>6, <1>7, <1>8, <1>9, <1>10, <1>11, <1>12, <1>13
       DEF Next, Handler

\* A column shows what the last answered request that changed it wrote, or what an
\* update that did not change it put back; and an update that wrote nothing was told
\* of success only if the product was destroyed after it was found.
THEOREM UpdatesAreExplained == Spec => []UpdatesExplained
<1>1. Init => UpdateInv
    BY DEF Init, UpdateInv
<1>2. TypeOK /\ UpdateInv => UpdatesExplained
    BY DEF TypeOK, UpdateInv, UpdatesExplained, PutBack, Destroyed
<1> QED
    BY <1>1, <1>2, UpdateNext, RequestsType, HandlerInvariant, PTL DEF Spec
==============================================================================
