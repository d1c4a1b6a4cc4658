------------------------------- MODULE Routing -------------------------------
(***************************************************************************)
(* Which answer a request gets: the routes the application registers       *)
(* (config, app/middleware/kernel.go), the router that picks one of them   *)
(* (core/router.go) and the middleware around it (core/middleware.go).     *)
(*                                                                         *)
(* A path is the sequence of its segments after the first slash, so        *)
(* "/api/v1/" is <<"api", "v1", "">>.  Bodies and headers are left out.    *)
(***************************************************************************)
EXTENDS Integers, Sequences, FiniteSetsExt

CONSTANT PublicLike   \* the segments that begin with "public"

\* The segment between two slashes, a setting that is not there, and no handler.
Empty == ""

\* The segments of routes that begin with a colon.
Parameters == {":id"}

\* A DB_CONNECTION: its name without the blanks around it and in lower case, and
\* whether it is plain, which is to say that it differs from that name at most in
\* the case of its letters.
Drivers == [name : STRING, plain : BOOLEAN]
Unset   == [name |-> Empty, plain |-> TRUE]

\* What a server is configured with, and what can be asked of it.
Configurations == [driver : Drivers, host : BOOLEAN, file : BOOLEAN, up : BOOLEAN]

\* decodes: whether the second part is the JSON of an object.  Its claims: the
\* claim exp is not there, a number or something else, and a number of it lies exp
\* seconds ahead; sub is whether there is a claim of that name.
Tokens == [parts : Nat, signed : BOOLEAN, decodes : BOOLEAN,
           expires : {"never", "number", "other"}, exp : Int, sub : BOOLEAN]

Requests == [method : STRING, path : Seq(STRING) \ {<<>>}, json : BOOLEAN, admitted : BOOLEAN,
             bearer : Tokens, session : Tokens, outcome : {"answers", "panics", "panicsLate"}]

------------------------------------------------------------------------------
(* The database of NewApp *)

\* The dialect of a DB_CONNECTION, by the name it has trimmed and in lower case.
GetDialect(driver) ==
    CASE driver.name \in {"postgres", "postgresql", "pq", "pgx"} -> "postgres"
      [] driver.name \in {"sqlite", "sqlite3"} -> "sqlite"
      [] OTHER -> "mysql"

\* Whether NewApp has a database, and with it an AuthService: conf says which
\* settings are there and whether the database answers the ping.  Its comparison
\* of the driver with sqlite and sqlite3 does not trim it, as GetDialect does.
Connects(conf) ==
    /\ conf.driver # Unset \/ conf.host \/ conf.file
    /\ \/ /\ GetDialect(conf.driver) = "sqlite"
          /\ conf.file \/ (conf.driver.plain /\ conf.driver.name \in {"sqlite", "sqlite3"})
       \/ conf.host
    /\ conf.up

------------------------------------------------------------------------------
(* Registration *)

NewRouter == [prefix |-> <<>>, mw |-> <<>>, routes |-> <<>>]

\* strings.Trim and Split: the slashes at both ends go, an inner empty segment
\* stays.
splitPath(path) ==
    LET named == {i \in DOMAIN path : path[i] # Empty}
    IN  IF named = {} THEN <<>> ELSE SubSeq(path, Min(named), Max(named))

add(r, method, path, handler) ==
    [r EXCEPT !.routes = Append(@,
        [method |-> method, segments |-> splitPath(r.prefix \o path), isPrefix |-> FALSE,
         mw |-> r.mw, handler |-> handler])]

\* Static takes neither the prefix nor the middleware of its group.
Static(r, handler) ==
    [r EXCEPT !.routes = Append(@,
        [method |-> "GET", segments |-> <<>>, isPrefix |-> TRUE,
         mw |-> <<>>, handler |-> handler])]

Resource(r, path, ctrl) ==
    add(add(add(add(add(r,
        "GET", path, ctrl[1]),
        "GET", path \o <<":id">>, ctrl[2]),
        "POST", path, ctrl[3]),
        "PUT", path \o <<":id">>, ctrl[4]),
        "DELETE", path \o <<":id">>, ctrl[5])

\* Group, until it calls what registers its routes: they have its prefix and its
\* middleware, after those of the groups around it.
EnterGroup(r, prefix, mw) == [r EXCEPT !.prefix = @ \o prefix, !.mw = @ \o mw]

\* Faulty variant, which nothing uses: Group does not restore the middleware.
LeaveGroupKeeping(r, saved) == [r EXCEPT !.prefix = saved.prefix]

\* The end of Group: the router has again what was saved.
LeaveGroup(r, saved) == [r EXCEPT !.prefix = saved.prefix, !.mw = saved.mw]

Global == <<"Recover", "Logger", "SecurityHeaders">>
Groups == [api |-> <<"CORS", "RateLimiter", "RequestID">>]

registerWebRoutes(r, db) ==
    LET home == add(add(r, "GET", <<Empty>>, "Home.Index"), "GET", <<"health">>, "Home.Health")
        docs == add(add(Static(home, "files"), "GET", <<"docs">>, "Docs.ShowDocs"),
                    "GET", <<"openapi.json">>, "Docs.OpenAPISpec")
        auth == add(add(add(docs, "GET", <<"login">>, "Auth.ShowLogin"),
                    "POST", <<"login">>, "Auth.Login"), "POST", <<"logout">>, "Auth.Logout")
        private == add(EnterGroup(auth, <<>>, <<"Auth">>), "GET", <<"dashboard">>, "Auth.Dashboard")
    IN  IF ~db THEN docs ELSE LeaveGroup(private, auth)

Products == <<"Product.Index", "Product.Show", "Product.Store", "Product.Update",
              "Product.Destroy">>

registerApiRoutes(r, db) ==
    LET public == add(add(EnterGroup(r, <<"api", "v1">>, Groups.api), "POST", <<"login">>, "Api.Login"),
                      "POST", <<"register">>, "Api.Register")
        me == add(EnterGroup(public, <<>>, <<"AuthAPI">>), "GET", <<"me">>, "Api.Me")
        private == Resource(me, <<"products">>, Products)
    IN  IF ~db THEN r ELSE LeaveGroup(LeaveGroup(private, public), r)

RegisterRoutes(db) == registerApiRoutes(registerWebRoutes(NewRouter, db), db)

------------------------------------------------------------------------------
(* One request *)

Fits(route, path) ==
    IF route.isPrefix THEN path[1] \in PublicLike
    ELSE LET segs == splitPath(path)
         IN  /\ Len(route.segments) = Len(segs)
             /\ \A i \in DOMAIN segs : \/ route.segments[i] \in Parameters
                                       \/ route.segments[i] = segs[i]

\* The first route that fits and has the method; failing that, whether one fits.
match(r, method, path) ==
    LET fitting == {i \in DOMAIN r.routes : Fits(r.routes[i], path)}
        found   == {i \in fitting : r.routes[i].method = method}
    IN  [found |-> found # {}, pathExists |-> fitting # {},
         route |-> IF found = {} THEN NewRouter ELSE r.routes[Min(found)]]

\* Three parts, the signature, readable claims, and the expiry: a token without
\* one is good for ever.
ParseJWT(token) ==
    /\ token.parts = 3 /\ token.signed /\ token.decodes
    /\ token.expires # "other"
    /\ token.expires = "number" => token.exp >= 0

\* The session cookie is a token too, and names its user.
CurrentSessionUser(rq) == ParseJWT(rq.session) /\ rq.session.sub

\* What a middleware answers instead of calling the next, 0 when it calls it.
Refusal(m, rq) ==
    CASE m = "CORS" /\ rq.method = "OPTIONS" -> 204
      [] m = "RateLimiter" /\ ~rq.admitted -> 429
      [] m = "AuthAPI" /\ ~ParseJWT(rq.bearer) -> 401
      [] m = "Auth" /\ ~CurrentSessionUser(rq) -> IF rq.json THEN 401 ELSE 302
      [] OTHER -> 0

\* The status a handler ends with when all goes well.
Success(handler) ==
    CASE handler \in {"Product.Store", "Api.Register"} -> 201
      [] handler \in {"Auth.Login", "Auth.Logout"} -> 302
      [] OTHER -> 200

\* The first status written is the one sent; responseCapture keeps the last one.
WriteHeader(resp, code) ==
    [resp EXCEPT !.sent = IF @ = 0 THEN code ELSE @, !.captured = code]

Handle(resp, handler, outcome) ==
    LET written == WriteHeader([resp EXCEPT !.ran = handler], Success(handler))
    IN  CASE outcome = "answers" -> written
          [] outcome = "panics" -> [resp EXCEPT !.ran = handler, !.panics = TRUE]
          [] outcome = "panicsLate" -> [written EXCEPT !.panics = TRUE]

\* What a middleware does once the next has returned, or has panicked.
After(m, resp) ==
    CASE m = "Logger" /\ ~resp.panics -> [resp EXCEPT !.logged = Append(@, resp.captured)]
      [] m = "Recover" /\ resp.panics -> [WriteHeader(resp, 500) EXCEPT !.panics = FALSE]
      [] OTHER -> resp

\* What is left of resp when the first n middleware of chain have all returned, the
\* last of them first.
Unwind(chain, n, resp) ==
    LET returned[k \in Nat] ==
            IF k = 0 THEN resp ELSE After(chain[n + 1 - k], returned[k - 1])
    IN  returned[n]

\* The middleware of chain around a handler that makes inner of resp; none changes
\* the response before it calls the next.
Wrap(chain, rq, resp, inner) ==
    LET refusing == {i \in DOMAIN chain : Refusal(chain[i], rq) # 0}
        last == IF refusing = {} THEN Len(chain)
                ELSE Min(refusing) - 1
        core == IF refusing = {} THEN inner
                ELSE WriteHeader(resp, Refusal(chain[last + 1], rq))
    IN  Unwind(chain, last, core)

handleContext(r, rq, resp) ==
    LET m == match(r, rq.method, rq.path)
    IN  IF ~m.found THEN WriteHeader(resp, IF m.pathExists THEN 405 ELSE 404)
        ELSE Wrap(m.route.mw, rq, resp, Handle(resp, m.route.handler, rq.outcome))

\* The whole server: conf is its configuration.
Serve(conf, rq) ==
    LET resp == [sent |-> 0, captured |-> 200, ran |-> Empty, panics |-> FALSE, logged |-> <<>>]
    IN  Wrap(Global, rq, resp, handleContext(RegisterRoutes(Connects(conf)), rq, resp))

------------------------------------------------------------------------------
(* What is promised *)

\* The operations the OpenAPI document lists, the security it gives them and the
\* status it promises; the web routes, which it does not list, follow.
OpenAPISpec ==
    {<<"POST", <<"api", "v1", "register">>, "none", 200>>,
     <<"POST", <<"api", "v1", "login">>, "none", 200>>,
     <<"GET", <<"api", "v1", "me">>, "bearer", 200>>,
     <<"GET", <<"api", "v1", "products">>, "bearer", 200>>,
     <<"POST", <<"api", "v1", "products">>, "bearer", 201>>}
    \cup {<<m, <<"api", "v1", "products", ":id">>, "bearer", 200>> : m \in {"GET", "PUT", "DELETE"}}

WebPages ==
    {<<"GET", <<>>, "none", 200>>, <<"GET", <<"health">>, "none", 200>>,
     <<"GET", <<"docs">>, "none", 200>>, <<"GET", <<"openapi.json">>, "none", 200>>,
     <<"GET", <<"login">>, "none", 200>>, <<"POST", <<"login">>, "none", 302>>,
     <<"POST", <<"logout">>, "none", 302>>, <<"GET", <<"dashboard">>, "session", 200>>}

\* What the documents promise of a path: all operations at it.
Promises(path, db) ==
    {p \in OpenAPISpec \cup WebPages :
        /\ db \/ p[2] \in {<<>>, <<"health">>, <<"docs">>, <<"openapi.json">>}
        /\ Len(p[2]) = Len(splitPath(path))
        /\ \A i \in DOMAIN p[2] : p[2][i] \in {":id", splitPath(path)[i]}}

\* The settings that give a server a database: a host, or a driver of SQLite in any
\* case of its letters, which needs a file along with it when there are blanks
\* around it.  A file alone gives none, nor another driver without a host.
HasDatabase(conf) ==
    /\ \/ conf.host
       \/ conf.driver.name \in {"sqlite", "sqlite3"} /\ (conf.driver.plain \/ conf.file)
    /\ conf.up

\* The credentials of an operation, by the security it has: a token that is signed,
\* whose claims can be read and that is not past its expiry, if it has one; that of
\* a session must name its user too, that of the API need not.
Credentials(needs, rq) ==
    LET holds(token) == /\ token.signed /\ token.parts = 3 /\ token.decodes
                        /\ \/ token.expires = "never"
                           \/ token.expires = "number" /\ token.exp >= 0
    IN  /\ needs = "bearer" => holds(rq.bearer)
        /\ needs = "session" => holds(rq.session) /\ rq.session.sub

\* Every request is answered once.  Its handler runs exactly when the OpenAPI
\* document or the web pages list its method and path, the limiter of the API
\* admits it and its credentials are what they ask for; no route hides another,
\* and no group leaves its middleware to the routes after it.  The status is the
\* promised one, but a registration is answered 201, not the 200 of the document;
\* OPTIONS is never answered by CORS, since no route has that method; all that
\* begins with "/public" is a file.  All but four pages are there only with a
\* database.  A request is logged once, with the status it was sent, unless its
\* handler panicked: then not at all.
RoutedAsDocumented(conf, rq, resp) ==
    LET here  == Promises(rq.path, HasDatabase(conf))
        mine  == {p \in here : p[1] = rq.method}
        file  == rq.path[1] \in PublicLike
        api   == \E p \in mine : p[2] # <<>> /\ p[2][1] = "api"
        needs == IF mine = {} THEN "none" ELSE (CHOOSE p \in mine : TRUE)[3]
        pass  == (api => rq.admitted) /\ Credentials(needs, rq)
        runs  == (file /\ rq.method = "GET") \/ (mine # {} /\ pass)
    IN  /\ (resp.ran # Empty) <=> runs
        /\ ~resp.panics
        /\ resp.logged = IF runs /\ rq.outcome # "answers" THEN <<>> ELSE <<resp.sent>>
        /\ resp.sent =
              IF runs THEN IF rq.outcome = "panics" THEN 500
                           ELSE IF file THEN 200
                           ELSE IF resp.ran = "Api.Register" THEN 201
                           ELSE (CHOOSE p \in mine : TRUE)[4]
              ELSE IF file THEN 405
              ELSE IF here = {} THEN 404
              ELSE IF mine = {} THEN 405
              ELSE IF api /\ ~rq.admitted THEN 429
              ELSE IF needs = "session" /\ ~rq.json THEN 302 ELSE 401
==============================================================================
