---------------------------- MODULE CallsProofs ------------------------------
(***************************************************************************)
(* Theorems about Calls: every request is answered as documented, a        *)
(* product is read as it was sent, the words of an amount say it, and a    *)
(* query does what its chain asks for.                                     *)
(*                                                                         *)
(* For the first the routes of the application are listed once (Catalogue) *)
(* and shown to be what registration makes and what the documents say;     *)
(* what is left is one route, its middleware and the response they make.   *)
(* For the words what is heard of two texts is put together from what is   *)
(* heard of each, down to a group of three digits and a round of the       *)
(* Bengali conversion.                                                     *)
(* For the queries the chain is followed call by call, and buildWhere      *)
(* condition by condition: the arguments of each are placed behind those   *)
(* of the conditions before it, where its placeholders point.  Join is     *)
(* true of the conditions in which the chain's alternatives are.           *)
(***************************************************************************)
EXTENDS Calls, Integers, Sequences, FiniteSetsExt, SequenceTheorems, NaturalsInduction,
        WellFoundedInduction, TLAPS

(* Numbers *)

\* Induction over the numbers, for a set of them.
LEMMA NatSet ==
    ASSUME NEW T, 0 \in T, \A n \in Nat : n \in T => n + 1 \in T
    PROVE  \A n \in Nat : n \in T
<1>1. SUFFICES ASSUME Nat \ T # {} PROVE FALSE
    OBVIOUS
<1>2. PICK Less : Less = OpToRel(<, Nat)
    OBVIOUS
<1>3. PICK m \in Nat \ T : \A n \in Nat \ T : <<n, m>> \notin Less
    BY <1>1, <1>2, NatLessThanWellFounded, WFMin
<1>4. m # 0 /\ m - 1 \in Nat
    BY <1>3
<1>5. <<m - 1, m>> \in Less
    BY <1>2, <1>4 DEF OpToRel
<1>6. m - 1 \in T
    BY <1>3, <1>4, <1>5
<1>7. (m - 1) + 1 \in T
    BY <1>4, <1>6
<1> QED
    BY <1>3, <1>7

Follows(f, b, g) == f[0] = b /\ \A n \in Nat : f[n + 1] = g[n][f[n]]

\* A definition that goes from b on with g has a value for every number: the library
\* has this for operators only.
LEMMA Recursion ==
    ASSUME NEW S, NEW b \in S, NEW g \in [Nat -> [S -> S]]
    PROVE  \E f \in [Nat -> S] : Follows(f, b, g)
<1> DEFINE Upto(n) == {f \in [0..n -> S] : f[0] = b /\ \A i \in 0..n - 1 : f[i + 1] = g[i][f[i]]}
           T == {n \in Nat : \E f : Upto(n) = {f}}
<1>upto. \A n \in Nat : \A f : f \in Upto(n) <=> /\ f \in [0..n -> S] /\ f[0] = b
                                         /\ \A i \in 0..n - 1 : f[i + 1] = g[i][f[i]]
    OBVIOUS
<1>single. \A n \in Nat : n \in T <=> \E f : Upto(n) = {f}
    OBVIOUS
<1> HIDE DEF Upto, T
<1>1. 0 \in T
  <2>1. [i \in 0..0 |-> b] \in Upto(0)
      BY DEF Upto
  <2>2. \A f \in Upto(0) : f = [i \in 0..0 |-> b]
    <3> SUFFICES ASSUME NEW f \in Upto(0) PROVE f = [i \in 0..0 |-> b]
        OBVIOUS
    <3>1. f \in [0..0 -> S] /\ f[0] = b
        BY <1>upto
    <3> QED
        BY <3>1
  <2>3. Upto(0) = {[i \in 0..0 |-> b]}
      BY <2>1, <2>2
  <2> QED
      BY <1>single, <2>3
<1>2. ASSUME NEW n \in Nat, n \in T PROVE n + 1 \in T
  <2>1. PICK f : Upto(n) = {f}
      BY <1>2, <1>single
  <2>2. f \in [0..n -> S] /\ f[0] = b /\ \A i \in 0..n - 1 : f[i + 1] = g[i][f[i]]
      BY <1>upto, <2>1
  <2> PICK h : h = [i \in 0..n + 1 |-> IF i <= n THEN f[i] ELSE g[n][f[n]]]
      OBVIOUS
  <2>3. g[n][f[n]] \in S
      BY <2>2
  <2>4. h \in [0..n + 1 -> S]
      BY <2>2, <2>3
  <2>5. h \in Upto(n + 1)
    <3>1. h[0] = b
        BY <2>2
    <3>2. ASSUME NEW i \in 0..n PROVE h[i + 1] = g[i][h[i]]
      <4>1. CASE i = n
          BY <4>1
      <4>2. CASE i # n
          BY <2>2, <4>2
      <4> QED
          BY <4>1, <4>2
    <3> QED
      <4>2. n + 1 \in Nat
          OBVIOUS
      <4>1. \A i \in 0..(n + 1) - 1 : h[i + 1] = g[i][h[i]]
        <5>1. 0..((n + 1) - 1) = 0..n
            OBVIOUS
        <5> QED
            BY <3>2, <5>1, Zenon
      <4> QED
          BY <1>upto, <2>4, <3>1, <4>1, <4>2, Zenon
  <2>6. ASSUME NEW k \in Upto(n + 1) PROVE k = h
    <3> DEFINE r == [i \in 0..n |-> k[i]]
    <3>0. k \in [0..n + 1 -> S] /\ k[0] = b /\ \A i \in 0..n : k[i + 1] = g[i][k[i]]
        BY <1>upto
    <3>1. r \in Upto(n)
      <4>1. r \in [0..n -> S]
          BY <3>0
      <4>2. r[0] = b
          BY <3>0
      <4>3. ASSUME NEW i \in 0..n - 1 PROVE r[i + 1] = g[i][r[i]]
          BY <3>0
      <4> QED
          BY <1>upto, <4>1, <4>2, <4>3
    <3>2. r = f
        BY <2>1, <3>1
    <3>3. \A i \in 0..n : k[i] = f[i]
        BY <3>2
    <3>4. k[n + 1] = g[n][k[n]]
        BY <3>0
    <3>5. \A i \in 0..n + 1 : k[i] = h[i]
        BY <3>3, <3>4
    <3> QED
        BY <2>4, <3>0, <3>5
  <2>7. Upto(n + 1) = {h}
      BY <2>5, <2>6
  <2> QED
    <3>1. n + 1 \in Nat
        OBVIOUS
    <3>2. \E k : Upto(n + 1) = {k}
        BY <2>7, Zenon
    <3> QED
        BY <1>single, <3>1, <3>2, Zenon
<1>3. \A n \in Nat : n \in T
    BY <1>1, <1>2, NatSet
<1> DEFINE F(n) == CHOOSE f : f \in Upto(n)
           w == [n \in Nat |-> F(n)[n]]
<1>4. \A n \in Nat : Upto(n) = {F(n)}
    BY <1>3, <1>single
<1> HIDE DEF F
<1>5. \A n \in Nat : /\ F(n) \in [0..n -> S] /\ F(n)[0] = b
                     /\ \A i \in 0..n - 1 : F(n)[i + 1] = g[i][F(n)[i]]
    BY <1>4, <1>upto
<1>6. ASSUME NEW n \in Nat PROVE F(n + 1)[n] = F(n)[n]
  <2> DEFINE r == [i \in 0..n |-> F(n + 1)[i]]
  <2>1. /\ F(n + 1) \in [0..n + 1 -> S] /\ F(n + 1)[0] = b
        /\ \A i \in 0..n : F(n + 1)[i + 1] = g[i][F(n + 1)[i]]
      BY <1>5
  <2>2. r \in Upto(n)
    <3>1. r \in [0..n -> S]
        BY <2>1
    <3>2. r[0] = b
        BY <2>1
    <3>3. ASSUME NEW i \in 0..n - 1 PROVE r[i + 1] = g[i][r[i]]
        BY <2>1
    <3> QED
        BY <1>upto, <3>1, <3>2, <3>3
  <2>3. r = F(n)
      BY <1>4, <2>2
  <2> QED
      BY <2>3
<1>7. w \in [Nat -> S]
    BY <1>5
<1>8. w[0] = b
    BY <1>5
<1>9. ASSUME NEW n \in Nat PROVE w[n + 1] = g[n][w[n]]
  <2>1. F(n + 1)[n + 1] = g[n][F(n + 1)[n]]
      BY <1>5
  <2> QED
      BY <1>6, <2>1
<1>10. Follows(w, b, g)
    BY <1>8, <1>9 DEF Follows
<1> HIDE DEF w
<1> QED
    BY <1>7, <1>10

\* A set of numbers that is not empty has a least element.
LEMMA LeastNumber ==
    ASSUME NEW T \in SUBSET Nat, T # {}
    PROVE  \E m \in T : \A n \in T : m <= n
<1>1. PICK Less : Less = OpToRel(<, Nat)
    OBVIOUS
<1>2. PICK m \in T : \A n \in T : <<n, m>> \notin Less
    BY <1>1, NatLessThanWellFounded, WFMin
<1>3. \A n \in Nat : n < m => <<n, m>> \in Less
    BY <1>1 DEF OpToRel
<1>4. \A n \in T : ~(n < m)
    BY <1>2, <1>3
<1> QED
    BY <1>4

\* A set of numbers between 1 and n has a least and a greatest element.
LEMMA Extremes ==
    ASSUME NEW n \in Nat, NEW T \in SUBSET (1..n), T # {}
    PROVE  /\ R!Min(T) \in T /\ \A i \in T : R!Min(T) <= i
           /\ R!Max(T) \in T /\ \A i \in T : i <= R!Max(T)
<1>1. PICK m \in T : \A i \in T : m <= i
    BY LeastNumber
<1>2. PICK k \in {n - i : i \in T} : \A j \in {n - i : i \in T} : k <= j
  <2>1. {n - i : i \in T} \in SUBSET Nat /\ {n - i : i \in T} # {}
      OBVIOUS
  <2> QED
      BY <2>1, LeastNumber
<1>3. PICK x \in T : \A i \in T : i <= x
  <2>1. PICK x \in T : k = n - x
      BY <1>2
  <2>2. ASSUME NEW i \in T PROVE i <= x
    <3>1. n - i \in {n - j : j \in T} /\ i \in Nat /\ x \in Nat
        BY <2>2
    <3>2. n - x <= n - i
        BY ONLY <1>2, <2>1, <3>1
    <3> QED
        BY ONLY <3>1, <3>2, n \in Nat
  <2> QED
      BY <2>2
<1>4. R!Min(T) \in T /\ \A i \in T : R!Min(T) <= i
    BY <1>1 DEF R!Min
<1>5. R!Max(T) \in T /\ \A i \in T : i <= R!Max(T)
    BY <1>3 DEF R!Max
<1> QED
    BY <1>4, <1>5


------------------------------------------------------------------------------
(* Paths *)

\* What is left of a path: nothing is lost of one without empty segments, and one that
\* begins with a name keeps it.
LEMMA SplitPath ==
    ASSUME NEW S, NEW path \in Seq(S)
    PROVE  /\ R!splitPath(path) \in Seq(S)
           /\ (\A i \in DOMAIN path : path[i] # R!Empty) => R!splitPath(path) = path
           /\ (\A i \in DOMAIN path : path[i] = R!Empty) => R!splitPath(path) = <<>>
           /\ path # <<>> /\ path[1] # R!Empty =>
                 R!splitPath(path) # <<>> /\ R!splitPath(path)[1] = path[1]
<1>0. DOMAIN path = 1..Len(path) /\ Len(path) \in Nat /\ (path # <<>> => 1 \in DOMAIN path)
    OBVIOUS
<1> DEFINE named == {i \in DOMAIN path : path[i] # R!Empty}
<1>1. CASE named = {}
  <2>1. R!splitPath(path) = <<>>
      BY <1>1 DEF R!splitPath
  <2>2. (\A i \in DOMAIN path : path[i] # R!Empty) => path = <<>>
      BY <1>0, <1>1
  <2>4. path # <<>> => path[1] = R!Empty
      BY <1>0, <1>1
  <2>5. <<>> \in Seq(S)
      OBVIOUS
  <2> QED
      BY <2>1, <2>2, <2>4, <2>5, Zenon
<1>2. CASE named # {}
  <2>1. named \in SUBSET (1..Len(path))
      BY <1>0
  <2>2. /\ R!Min(named) \in 1..Len(path) /\ \A i \in named : R!Min(named) <= i
        /\ R!Max(named) \in 1..Len(path) /\ \A i \in named : i <= R!Max(named)
        /\ R!Min(named) <= R!Max(named)
      BY <1>0, <1>2, <2>1, Extremes
  <2>3. R!splitPath(path) = SubSeq(path, R!Min(named), R!Max(named))
      BY <1>2 DEF R!splitPath
  <2> HIDE DEF named
  <2>4. R!splitPath(path) \in Seq(S)
      BY <2>2, <2>3
  <2>5. ASSUME \A i \in DOMAIN path : path[i] # R!Empty PROVE R!splitPath(path) = path
    <3>1. R!Min(named) = 1 /\ R!Max(named) = Len(path)
      <4>1. named = 1..Len(path)
          BY <1>0, <2>5 DEF named
      <4> QED
          BY <1>0, <1>2, <2>2, <4>1
    <3> QED
        BY <2>3, <3>1
  <2>6. ASSUME path # <<>>, path[1] # R!Empty
        PROVE  R!splitPath(path) # <<>> /\ R!splitPath(path)[1] = path[1]
    <3>1. R!Min(named) = 1
      <4>1. 1 \in named
          BY <1>0, <2>6 DEF named
      <4> QED
          BY <2>2, <4>1
    <3> QED
        BY <2>2, <2>3, <3>1
  <2> QED
      BY <1>2, <2>4, <2>5, <2>6 DEF named
<1> QED
    BY <1>1, <1>2

\* A path of one segment, alone and below the root.
LEMMA Single ==
    ASSUME NEW S, NEW s \in S
    PROVE  <<s>> \in Seq(S) /\ <<>> \o <<s>> = <<s>> /\ DOMAIN <<s>> = {1}
<1>1. <<s>> \in Seq(S)
    OBVIOUS
<1> QED
    BY <1>1, ConcatEmptySeq

\* Paths of three and of four segments are sequences.
LEMMA Tuples ==
    ASSUME NEW S, NEW s \in S, NEW t \in S, NEW u \in S, NEW v \in S
    PROVE  <<s, t, u>> \in Seq(S) /\ <<s, t, u, v>> \in Seq(S)
OBVIOUS

\* The concatenations that registration makes, for two to four segments.
LEMMA Join1 ==
    ASSUME NEW s, NEW t
    PROVE  <<s>> \o <<t>> = <<s, t>>
<1> PICK S : S = {s, t}
    OBVIOUS
<1>1. <<s>> \in Seq(S) /\ <<t>> \in Seq(S) /\ <<s>> \o <<t>> \in Seq(S)
    OBVIOUS
<1> PICK f : f = <<s>> \o <<t>>
    OBVIOUS
<1>2. f \in Seq(S) /\ Len(f) = 2 /\ f[1] = s /\ f[2] = t
    BY <1>1
<1>3. f = <<s, t>>
    BY ONLY <1>2
<1> QED
    BY <1>3, Zenon

\* Two and one are three.
LEMMA Join21 ==
    ASSUME NEW s, NEW t, NEW u
    PROVE  <<s, t>> \o <<u>> = <<s, t, u>>
<1> PICK S : S = {s, t, u}
    OBVIOUS
<1>1. <<s, t>> \in Seq(S) /\ <<u>> \in Seq(S) /\ <<s, t>> \o <<u>> \in Seq(S)
    OBVIOUS
<1> PICK f : f = <<s, t>> \o <<u>>
    OBVIOUS
<1>2. f \in Seq(S) /\ Len(f) = 3 /\ f[1] = s /\ f[2] = t /\ f[3] = u
    BY <1>1
<1>3. f = <<s, t, u>>
    BY ONLY <1>2
<1> QED
    BY <1>3, Zenon

LEMMA Join22 ==
    ASSUME NEW s, NEW t, NEW u, NEW v
    PROVE  <<s, t>> \o <<u, v>> = <<s, t, u, v>>
<1> PICK S : S = {s, t, u, v}
    OBVIOUS
<1>1. <<s, t>> \in Seq(S) /\ <<u, v>> \in Seq(S) /\ <<s, t>> \o <<u, v>> \in Seq(S)
    OBVIOUS
<1> PICK f : f = <<s, t>> \o <<u, v>>
    OBVIOUS
<1>2. f \in Seq(S) /\ Len(f) = 4 /\ f[1] = s /\ f[2] = t /\ f[3] = u /\ f[4] = v
    BY <1>1
<1>3. f = <<s, t, u, v>>
    BY ONLY <1>2
<1> QED
    BY <1>3, Zenon

LEMMA Join31 ==
    ASSUME NEW s, NEW t, NEW u, NEW v
    PROVE  <<s, t, u>> \o <<v>> = <<s, t, u, v>>
<1> PICK S : S = {s, t, u, v}
    OBVIOUS
<1>1. <<s, t, u>> \in Seq(S) /\ <<v>> \in Seq(S) /\ <<s, t, u>> \o <<v>> \in Seq(S)
    OBVIOUS
<1> PICK f : f = <<s, t, u>> \o <<v>>
    OBVIOUS
<1>2. f \in Seq(S) /\ Len(f) = 4 /\ f[1] = s /\ f[2] = t /\ f[3] = u /\ f[4] = v
    BY <1>1
<1>3. f = <<s, t, u, v>>
    BY ONLY <1>2
<1> QED
    BY <1>3, Zenon

\* The path of a name is that name.
LEMMA NamePath ==
    ASSUME NEW s, s # R!Empty
    PROVE  R!splitPath(<<>> \o <<s>>) = <<s>>
<1> PICK S : S = {s}
    OBVIOUS
<1>1. <<s>> \in Seq(S) /\ <<>> \o <<s>> = <<s>>
    BY Single
<1>2. \A i \in DOMAIN <<s>> : <<s>>[i] # R!Empty
    OBVIOUS
<1>3. R!splitPath(<<s>>) = <<s>>
    BY <1>1, <1>2, SplitPath, Zenon
<1> QED
    BY <1>1, <1>3, Zenon

\* The paths below /api/v1.
LEMMA ApiPath ==
    ASSUME NEW s, s # R!Empty, NEW t, t # R!Empty, NEW u, u # R!Empty
    PROVE  R!splitPath(<<s, t>> \o <<u>>) = <<s, t, u>>
<1> PICK S : S = {s, t, u}
    OBVIOUS
<1>1. <<s, t, u>> \in Seq(S)
    BY Tuples, s \in S /\ t \in S /\ u \in S
<1>2. \A i \in DOMAIN <<s, t, u>> : <<s, t, u>>[i] # R!Empty
    OBVIOUS
<1>3. R!splitPath(<<s, t, u>>) = <<s, t, u>>
    BY <1>1, <1>2, SplitPath, Zenon
<1> QED
    BY <1>3, Join21, Zenon

\* The paths of Resource with a parameter.
LEMMA IdPath ==
    ASSUME NEW s, s # R!Empty, NEW t, t # R!Empty, NEW u, u # R!Empty, NEW v, v # R!Empty
    PROVE  R!splitPath(<<s, t>> \o (<<u>> \o <<v>>)) = <<s, t, u, v>>
<1> PICK S : S = {s, t, u, v}
    OBVIOUS
<1>1. <<s, t, u, v>> \in Seq(S)
    BY Tuples, s \in S /\ t \in S /\ u \in S /\ v \in S
<1>2. \A i \in DOMAIN <<s, t, u, v>> : <<s, t, u, v>>[i] # R!Empty
    OBVIOUS
<1>3. R!splitPath(<<s, t, u, v>>) = <<s, t, u, v>>
    BY <1>1, <1>2, SplitPath, Zenon
<1>4. <<u>> \o <<v>> = <<u, v>>
    BY Join1, Zenon
<1>5. <<s, t>> \o <<u, v>> = <<s, t, u, v>>
    BY Join22, Zenon
<1> QED
    BY <1>3, <1>4, <1>5, Zenon

\* Nothing in front of two or of three segments, and nothing after two.
LEMMA JoinNone ==
    ASSUME NEW s, NEW t, NEW u
    PROVE  <<>> \o <<s, t>> = <<s, t>> /\ <<>> \o <<s, t, u>> = <<s, t, u>>
OBVIOUS

\* Nothing is appended.
LEMMA JoinedNone ==
    ASSUME NEW s, NEW t
    PROVE  <<s, t>> \o <<>> = <<s, t>>
OBVIOUS

\* The path of the home page has no segments.
LEMMA RootPath == R!splitPath(<<>> \o <<R!Empty>>) = <<>>
<1> PICK S : S = {R!Empty}
    OBVIOUS
<1>1. <<R!Empty>> \in Seq(S) /\ <<>> \o <<R!Empty>> = <<R!Empty>>
    BY Single
<1>2. \A i \in DOMAIN <<R!Empty>> : <<R!Empty>>[i] = R!Empty
    OBVIOUS
<1>3. R!splitPath(<<R!Empty>>) = <<>>
    BY <1>1, <1>2, SplitPath, Zenon
<1> QED
    BY <1>1, <1>3, Zenon

------------------------------------------------------------------------------
(* The routes of the application *)

\* A route with a path.
Entry(method, segments, mw, handler) ==
    [method |-> method, segments |-> segments, isPrefix |-> FALSE, mw |-> mw, handler |-> handler]

\* The route of Static.
Files == [method |-> "GET", segments |-> <<>>, isPrefix |-> TRUE, mw |-> <<>>, handler |-> "files"]

\* The routes of every server, those that need a database, and those of the API.
Pages ==
    {Entry("GET", <<>>, <<>>, "Home.Index"), Entry("GET", <<"health">>, <<>>, "Home.Health"),
     Entry("GET", <<"docs">>, <<>>, "Docs.ShowDocs"),
     Entry("GET", <<"openapi.json">>, <<>>, "Docs.OpenAPISpec")}

Login ==
    {Entry("GET", <<"login">>, <<>>, "Auth.ShowLogin"),
     Entry("POST", <<"login">>, <<>>, "Auth.Login"),
     Entry("POST", <<"logout">>, <<>>, "Auth.Logout"),
     Entry("GET", <<"dashboard">>, <<"Auth">>, "Auth.Dashboard")}

\* The middleware of the API, without and with the check of the token.
Limited == <<"CORS", "RateLimiter", "RequestID">>
Private == <<"CORS", "RateLimiter", "RequestID", "AuthAPI">>

Operations ==
    {Entry("POST", <<"api", "v1", "login">>, Limited, "Api.Login"),
     Entry("POST", <<"api", "v1", "register">>, Limited, "Api.Register"),
     Entry("GET", <<"api", "v1", "me">>, Private, "Api.Me"),
     Entry("GET", <<"api", "v1", "products">>, Private, "Product.Index"),
     Entry("GET", <<"api", "v1", "products", ":id">>, Private, "Product.Show"),
     Entry("POST", <<"api", "v1", "products">>, Private, "Product.Store"),
     Entry("PUT", <<"api", "v1", "products", ":id">>, Private, "Product.Update"),
     Entry("DELETE", <<"api", "v1", "products", ":id">>, Private, "Product.Destroy")}

\* All routes.
Catalogue == {Files} \cup Pages \cup Login \cup Operations

\* The routes of a router, without their order.
Has(r) == {r.routes[i] : i \in DOMAIN r.routes}

\* A router between two calls: what it gives to the route added next, and its routes.
Built(r, prefix, mw, routes) ==
    /\ r = [prefix |-> prefix, mw |-> mw, routes |-> r.routes]
    /\ r.routes \in Seq(Catalogue)
    /\ Has(r) = routes

\* The fields of a router, before and after a change of some of them.
LEMMA RouterFields ==
    ASSUME NEW p, NEW m, NEW q, NEW r, r = [prefix |-> p, mw |-> m, routes |-> q]
    PROVE  r.prefix = p /\ r.mw = m /\ r.routes = q
OBVIOUS

\* A field, or two, of a router replaced.
LEMMA SetRoutes ==
    ASSUME NEW p, NEW m, NEW q, NEW r, r = [prefix |-> p, mw |-> m, routes |-> q],
           NEW x, NEW s, s = [r EXCEPT !.routes = x]
    PROVE  s = [prefix |-> p, mw |-> m, routes |-> x]
OBVIOUS

LEMMA SetGroup ==
    ASSUME NEW p, NEW m, NEW q, NEW r, r = [prefix |-> p, mw |-> m, routes |-> q],
           NEW x, NEW y, NEW s, s = [r EXCEPT !.prefix = x, !.mw = y]
    PROVE  s = [prefix |-> x, mw |-> y, routes |-> q]
OBVIOUS

\* A route appended is one more of the router.
LEMMA Appends ==
    ASSUME NEW r, NEW prefix, NEW mw, NEW routes, Built(r, prefix, mw, routes),
           NEW e \in Catalogue, NEW s, s = [r EXCEPT !.routes = Append(@, e)]
    PROVE  Built(s, prefix, mw, routes \cup {e})
<1>1. /\ r = [prefix |-> prefix, mw |-> mw, routes |-> r.routes]
      /\ r.routes \in Seq(Catalogue) /\ Has(r) = routes
    BY DEF Built
<1> PICK q : q = r.routes
    OBVIOUS
<1>2. r = [prefix |-> prefix, mw |-> mw, routes |-> q] /\ q \in Seq(Catalogue)
    BY <1>1, Zenon
<1>3. s = [prefix |-> prefix, mw |-> mw, routes |-> Append(q, e)] /\ s.routes = Append(q, e)
  <2> PICK x : x = Append(q, e)
      OBVIOUS
  <2>1. s = [r EXCEPT !.routes = x]
      BY Zenon
  <2>2. s = [prefix |-> prefix, mw |-> mw, routes |-> x]
      BY ONLY <1>2, <2>1, SetRoutes
  <2> QED
      BY <2>2, RouterFields, Zenon
<1>4. Append(q, e) \in Seq(Catalogue)
    BY <1>2
<1>5. Has(s) = Has(r) \cup {e}
  <2>1. DOMAIN s.routes = 1..Len(q) + 1 /\ DOMAIN r.routes = 1..Len(q)
      BY <1>2, <1>3
  <2>2. \A i \in 1..Len(q) : s.routes[i] = q[i]
      BY <1>2, <1>3
  <2>3. s.routes[Len(q) + 1] = e
      BY <1>2, <1>3
  <2> QED
      BY <1>2, <2>1, <2>2, <2>3, SMTT(30) DEF Has
<1> QED
    BY <1>1, <1>3, <1>4, <1>5, Zenon DEF Built

\* add makes one route, with the prefix and the middleware of the group.
LEMMA Adds ==
    ASSUME NEW r, NEW prefix, NEW mw, NEW routes, Built(r, prefix, mw, routes),
           NEW method, NEW path, NEW handler, NEW full, R!splitPath(prefix \o path) = full,
           NEW e \in Catalogue, e = Entry(method, full, mw, handler),
           NEW s, s = R!add(r, method, path, handler)
    PROVE  Built(s, prefix, mw, routes \cup {e})
<1>1. r.prefix = prefix /\ r.mw = mw
    BY SMTT(30) DEF Built
<1>2. s = [r EXCEPT !.routes = Append(@, e)]
    BY <1>1, Zenon DEF R!add, Entry
<1> QED
    BY <1>2, Appends

\* Static makes the route of the files, whatever the group.
LEMMA AddsFiles ==
    ASSUME NEW r, NEW prefix, NEW mw, NEW routes, Built(r, prefix, mw, routes),
           NEW s, s = R!Static(r, "files")
    PROVE  Built(s, prefix, mw, routes \cup {Files})
<1>1. s = [r EXCEPT !.routes = Append(@, Files)]
    BY Zenon DEF R!Static, Files
<1>2. Files \in Catalogue
    BY Zenon DEF Catalogue
<1> QED
    BY <1>1, <1>2, Appends

\* In a group the prefix and the middleware are longer, and no route is made.
LEMMA EntersGroup ==
    ASSUME NEW r, NEW prefix, NEW mw, NEW routes, Built(r, prefix, mw, routes),
           NEW p, NEW m, NEW full, prefix \o p = full, NEW all, mw \o m = all,
           NEW s, s = R!EnterGroup(r, p, m)
    PROVE  Built(s, full, all, routes)
<1> PICK q : q = r.routes
    OBVIOUS
<1>1. r = [prefix |-> prefix, mw |-> mw, routes |-> q] /\ q \in Seq(Catalogue) /\ Has(r) = routes
    BY DEF Built
<1>2. s = [prefix |-> full, mw |-> all, routes |-> q]
  <2>1. r.prefix = prefix /\ r.mw = mw
      BY ONLY <1>1
  <2>2. s = [r EXCEPT !.prefix = full, !.mw = all]
      BY <2>1 DEF R!EnterGroup
  <2> QED
      BY <1>1, <2>2, SetGroup, Zenon
<1>3. s.routes = q
    BY ONLY <1>2
<1>4. Has(s) = routes
    BY <1>1, <1>3, Zenon DEF Has
<1> QED
    BY <1>1, <1>2, <1>3, <1>4, Zenon DEF Built

\* After a group its routes stay, its prefix and its middleware go.
LEMMA EndsGroup ==
    ASSUME NEW r, NEW prefix, NEW mw, NEW routes, Built(r, prefix, mw, routes),
           NEW saved, NEW p, NEW m, NEW others, Built(saved, p, m, others),
           NEW s, s = R!LeaveGroup(r, saved)
    PROVE  Built(s, p, m, routes)
<1> PICK q : q = r.routes
    OBVIOUS
<1>1. r = [prefix |-> prefix, mw |-> mw, routes |-> q] /\ q \in Seq(Catalogue) /\ Has(r) = routes
    BY DEF Built
<1>2. saved.prefix = p /\ saved.mw = m
    BY DEF Built
<1>3. s = [prefix |-> p, mw |-> m, routes |-> q]
    BY <1>1, <1>2, SetGroup, Zenon DEF R!LeaveGroup
<1>4. s.routes = q
    BY ONLY <1>3
<1>5. Has(s) = routes
    BY <1>1, <1>4, Zenon DEF Has
<1> QED
    BY <1>1, <1>3, <1>4, <1>5, Zenon DEF Built

\* The pages every server has.
LEMMA PageRoutes ==
    ASSUME NEW s,
           s = LET home == R!add(R!add(R!NewRouter, "GET", <<R!Empty>>, "Home.Index"),
                                 "GET", <<"health">>, "Home.Health")
               IN  R!add(R!add(R!Static(home, "files"), "GET", <<"docs">>, "Docs.ShowDocs"),
                         "GET", <<"openapi.json">>, "Docs.OpenAPISpec")
    PROVE  Built(s, <<>>, <<>>, {Files} \cup Pages)
<1>named. "health" # R!Empty /\ "docs" # R!Empty /\ "openapi.json" # R!Empty
    BY Zenon DEF R!Empty
<1>r0. PICK r0, h0 : r0 = R!NewRouter /\ h0 = {}
    OBVIOUS
<1>0. Built(r0, <<>>, <<>>, h0)
    BY <1>r0 DEF R!NewRouter, Built, Has
<1>e1. PICK e1 : e1 = Entry("GET", <<>>, <<>>, "Home.Index")
    OBVIOUS
<1>r1. PICK r1, h1 : r1 = R!add(r0, "GET", <<R!Empty>>, "Home.Index") /\ h1 = h0 \cup {e1}
    OBVIOUS
<1>1. Built(r1, <<>>, <<>>, h1)
  <2>1. e1 \in Catalogue
      BY <1>e1, Zenon DEF Catalogue, Pages
  <2>2. R!splitPath(<<>> \o <<R!Empty>>) = <<>>
      BY RootPath, Zenon
  <2> QED
      BY <1>e1, <1>r1, <1>0, <2>1, <2>2, Adds, Zenon
<1>e2. PICK e2 : e2 = Entry("GET", <<"health">>, <<>>, "Home.Health")
    OBVIOUS
<1>r2. PICK r2, h2 : r2 = R!add(r1, "GET", <<"health">>, "Home.Health") /\ h2 = h1 \cup {e2}
    OBVIOUS
<1>2. Built(r2, <<>>, <<>>, h2)
  <2>1. e2 \in Catalogue
      BY <1>e2, Zenon DEF Catalogue, Pages
  <2>2. R!splitPath(<<>> \o <<"health">>) = <<"health">>
      BY <1>named, NamePath, Zenon
  <2> QED
      BY <1>e2, <1>r2, <1>1, <2>1, <2>2, Adds, Zenon
<1>r3. PICK r3, h3 : r3 = R!Static(r2, "files") /\ h3 = h2 \cup {Files}
    OBVIOUS
<1>3. Built(r3, <<>>, <<>>, h3)
    BY <1>r3, <1>2, AddsFiles, Zenon
<1>e4. PICK e4 : e4 = Entry("GET", <<"docs">>, <<>>, "Docs.ShowDocs")
    OBVIOUS
<1>r4. PICK r4, h4 : r4 = R!add(r3, "GET", <<"docs">>, "Docs.ShowDocs") /\ h4 = h3 \cup {e4}
    OBVIOUS
<1>4. Built(r4, <<>>, <<>>, h4)
  <2>1. e4 \in Catalogue
      BY <1>e4, Zenon DEF Catalogue, Pages
  <2>2. R!splitPath(<<>> \o <<"docs">>) = <<"docs">>
      BY <1>named, NamePath, Zenon
  <2> QED
      BY <1>e4, <1>r4, <1>3, <2>1, <2>2, Adds, Zenon
<1>e5. PICK e5 : e5 = Entry("GET", <<"openapi.json">>, <<>>, "Docs.OpenAPISpec")
    OBVIOUS
<1>r5. PICK r5, h5 : r5 = R!add(r4, "GET", <<"openapi.json">>, "Docs.OpenAPISpec") /\ h5 = h4 \cup {e5}
    OBVIOUS
<1>5. Built(r5, <<>>, <<>>, h5)
  <2>1. e5 \in Catalogue
      BY <1>e5, Zenon DEF Catalogue, Pages
  <2>2. R!splitPath(<<>> \o <<"openapi.json">>) = <<"openapi.json">>
      BY <1>named, NamePath, Zenon
  <2> QED
      BY <1>e5, <1>r5, <1>4, <2>1, <2>2, Adds, Zenon
<1>6. h5 = {Files} \cup Pages
  <2>1. Pages = {e1, e2, e4, e5}
      BY <1>e1, <1>e2, <1>e4, <1>e5, Zenon DEF Pages
  <2> QED
      BY ONLY <2>1, <1>r0, <1>r1, <1>r2, <1>r3, <1>r4, <1>r5
<1> QED
    BY <1>r0, <1>r1, <1>r2, <1>r3, <1>r4, <1>r5, <1>5, <1>6, Zenon

\* The pages of a server with a database.
LEMMA LoginRoutes ==
    ASSUME NEW r0, NEW h0, Built(r0, <<>>, <<>>, h0), NEW s,
           s = LET auth == R!add(R!add(R!add(r0, "GET", <<"login">>, "Auth.ShowLogin"),
                                 "POST", <<"login">>, "Auth.Login"),
                                 "POST", <<"logout">>, "Auth.Logout")
                   private == R!add(R!EnterGroup(auth, <<>>, <<"Auth">>), "GET", <<"dashboard">>,
                                    "Auth.Dashboard")
               IN  R!LeaveGroup(private, auth)
    PROVE  Built(s, <<>>, <<>>, h0 \cup Login)
<1>named. "login" # R!Empty /\ "logout" # R!Empty /\ "dashboard" # R!Empty
    BY Zenon DEF R!Empty
<1>0. Built(r0, <<>>, <<>>, h0)
    OBVIOUS
<1>e1. PICK e1 : e1 = Entry("GET", <<"login">>, <<>>, "Auth.ShowLogin")
    OBVIOUS
<1>r1. PICK r1, h1 : r1 = R!add(r0, "GET", <<"login">>, "Auth.ShowLogin") /\ h1 = h0 \cup {e1}
    OBVIOUS
<1>1. Built(r1, <<>>, <<>>, h1)
  <2>1. e1 \in Catalogue
      BY <1>e1, Zenon DEF Catalogue, Login
  <2>2. R!splitPath(<<>> \o <<"login">>) = <<"login">>
      BY <1>named, NamePath, Zenon
  <2> QED
      BY <1>e1, <1>r1, <1>0, <2>1, <2>2, Adds, Zenon
<1>e2. PICK e2 : e2 = Entry("POST", <<"login">>, <<>>, "Auth.Login")
    OBVIOUS
<1>r2. PICK r2, h2 : r2 = R!add(r1, "POST", <<"login">>, "Auth.Login") /\ h2 = h1 \cup {e2}
    OBVIOUS
<1>2. Built(r2, <<>>, <<>>, h2)
  <2>1. e2 \in Catalogue
      BY <1>e2, Zenon DEF Catalogue, Login
  <2>2. R!splitPath(<<>> \o <<"login">>) = <<"login">>
      BY <1>named, NamePath, Zenon
  <2> QED
      BY <1>e2, <1>r2, <1>1, <2>1, <2>2, Adds, Zenon
<1>e3. PICK e3 : e3 = Entry("POST", <<"logout">>, <<>>, "Auth.Logout")
    OBVIOUS
<1>r3. PICK r3, h3 : r3 = R!add(r2, "POST", <<"logout">>, "Auth.Logout") /\ h3 = h2 \cup {e3}
    OBVIOUS
<1>3. Built(r3, <<>>, <<>>, h3)
  <2>1. e3 \in Catalogue
      BY <1>e3, Zenon DEF Catalogue, Login
  <2>2. R!splitPath(<<>> \o <<"logout">>) = <<"logout">>
      BY <1>named, NamePath, Zenon
  <2> QED
      BY <1>e3, <1>r3, <1>2, <2>1, <2>2, Adds, Zenon
<1>g. PICK g : g = R!EnterGroup(r3, <<>>, <<"Auth">>)
    OBVIOUS
<1>group. Built(g, <<>>, <<"Auth">>, h3)
  <2>1. <<>> \o <<>> = <<>>
      OBVIOUS
  <2>2. <<>> \o <<"Auth">> = <<"Auth">>
      BY Single
  <2> QED
      BY ONLY <1>3, <2>1, <2>2, <1>g, EntersGroup, Zenon
<1>e4. PICK e4 : e4 = Entry("GET", <<"dashboard">>, <<"Auth">>, "Auth.Dashboard")
    OBVIOUS
<1>r4. PICK r4, h4 : r4 = R!add(g, "GET", <<"dashboard">>, "Auth.Dashboard") /\ h4 = h3 \cup {e4}
    OBVIOUS
<1>4. Built(r4, <<>>, <<"Auth">>, h4)
  <2>1. e4 \in Catalogue
      BY <1>e4, Zenon DEF Catalogue, Login
  <2>2. R!splitPath(<<>> \o <<"dashboard">>) = <<"dashboard">>
      BY <1>named, NamePath, Zenon
  <2> QED
      BY <1>e4, <1>r4, <1>group, <2>1, <2>2, Adds, Zenon
<1>5. Built(s, <<>>, <<>>, h4)
  <2>1. s = R!LeaveGroup(r4, r3)
      BY <1>r1, <1>r2, <1>r3, <1>g, <1>r4, Zenon
  <2> QED
      BY <1>3, <1>4, <2>1, EndsGroup, Zenon
<1>6. h4 = h0 \cup Login
  <2>1. Login = {e1, e2, e3, e4}
      BY <1>e1, <1>e2, <1>e3, <1>e4, Zenon DEF Login
  <2> QED
      BY ONLY <2>1, <1>r1, <1>r2, <1>r3, <1>r4
<1> QED
    BY <1>5, <1>6, Zenon

\* registerWebRoutes, with and without a database.
LEMMA WebRoutes ==
    ASSUME NEW db \in BOOLEAN, NEW w, w = R!registerWebRoutes(R!NewRouter, db)
    PROVE  Built(w, <<>>, <<>>, {Files} \cup Pages \cup (IF db THEN Login ELSE {}))
<1>1. CASE db
  <2> PICK h : h = {Files} \cup Pages
      OBVIOUS
  <2> PICK home : home = R!add(R!add(R!NewRouter, "GET", <<R!Empty>>, "Home.Index"),
                               "GET", <<"health">>, "Home.Health")
      OBVIOUS
  <2> PICK docs : docs = R!add(R!add(R!Static(home, "files"), "GET", <<"docs">>, "Docs.ShowDocs"),
                               "GET", <<"openapi.json">>, "Docs.OpenAPISpec")
      OBVIOUS
  <2>1. Built(docs, <<>>, <<>>, h)
      BY PageRoutes, Zenon
  <2>2. Built(w, <<>>, <<>>, h \cup Login)
      BY <1>1, <2>1, LoginRoutes, Zenon DEF R!registerWebRoutes
  <2> QED
      BY <1>1, <2>2, Zenon
<1>2. CASE ~db
  <2>1. Built(w, <<>>, <<>>, {Files} \cup Pages)
      BY <1>2, PageRoutes, Zenon DEF R!registerWebRoutes
  <2> QED
      BY <1>2, <2>1
<1> QED
    BY <1>1, <1>2, Zenon

\* The routes of the API that ask for no token.
LEMMA OpenRoutes ==
    ASSUME NEW r, NEW h, Built(r, <<>>, <<>>, h), NEW s,
           s = R!add(R!add(R!EnterGroup(r, <<"api", "v1">>, R!Groups.api),
                           "POST", <<"login">>, "Api.Login"),
                     "POST", <<"register">>, "Api.Register")
    PROVE  Built(s, <<"api", "v1">>, Limited,
                 h \cup {Entry("POST", <<"api", "v1", "login">>, Limited, "Api.Login"),
                         Entry("POST", <<"api", "v1", "register">>, Limited, "Api.Register")})
<1>named. "login" # R!Empty /\ "register" # R!Empty /\ "api" # R!Empty /\ "v1" # R!Empty
    BY Zenon DEF R!Empty
<1>g. PICK g : g = R!EnterGroup(r, <<"api", "v1">>, R!Groups.api)
    OBVIOUS
<1>group. Built(g, <<"api", "v1">>, Limited, h)
  <2>1. <<>> \o <<"api", "v1">> = <<"api", "v1">>
      BY JoinNone
  <2>2. R!Groups.api = Limited /\ <<>> \o Limited = Limited
      BY JoinNone DEF R!Groups, Limited
  <2> QED
      BY ONLY Built(r, <<>>, <<>>, h), <2>1, <2>2, <1>g, EntersGroup
<1>e1. PICK e1 : e1 = Entry("POST", <<"api", "v1", "login">>, Limited, "Api.Login")
    OBVIOUS
<1>r1. PICK r1, h1 : r1 = R!add(g, "POST", <<"login">>, "Api.Login") /\ h1 = h \cup {e1}
    OBVIOUS
<1>1. Built(r1, <<"api", "v1">>, Limited, h1)
  <2>1. e1 \in Catalogue
      BY <1>e1, Zenon DEF Catalogue, Operations
  <2>2. R!splitPath(<<"api", "v1">> \o <<"login">>) = <<"api", "v1", "login">>
      BY <1>named, ApiPath, Zenon
  <2> QED
      BY <1>e1, <1>r1, <1>group, <2>1, <2>2, Adds, Zenon
<1>e2. PICK e2 : e2 = Entry("POST", <<"api", "v1", "register">>, Limited, "Api.Register")
    OBVIOUS
<1>r2. PICK r2, h2 : r2 = R!add(r1, "POST", <<"register">>, "Api.Register") /\ h2 = h1 \cup {e2}
    OBVIOUS
<1>2. Built(r2, <<"api", "v1">>, Limited, h2)
  <2>1. e2 \in Catalogue
      BY <1>e2, Zenon DEF Catalogue, Operations
  <2>2. R!splitPath(<<"api", "v1">> \o <<"register">>) = <<"api", "v1", "register">>
      BY <1>named, ApiPath, Zenon
  <2> QED
      BY <1>e2, <1>r2, <1>1, <2>1, <2>2, Adds, Zenon
<1>3. s = r2
    BY <1>g, <1>r1, <1>r2, Zenon
<1>4. h2 = h \cup {e1, e2}
    BY ONLY <1>r1, <1>r2
<1> QED
    BY <1>e1, <1>e2, <1>2, <1>3, <1>4, Zenon

\* The group that asks for one, and its first route.
LEMMA ProtectedRoute ==
    ASSUME NEW r, NEW h, Built(r, <<"api", "v1">>, Limited, h), NEW s,
           s = R!add(R!EnterGroup(r, <<>>, <<"AuthAPI">>), "GET", <<"me">>, "Api.Me")
    PROVE  Built(s, <<"api", "v1">>, Private,
                 h \cup {Entry("GET", <<"api", "v1", "me">>, Private, "Api.Me")})
<1>named. "me" # R!Empty /\ "api" # R!Empty /\ "v1" # R!Empty
    BY Zenon DEF R!Empty
<1>g. PICK g : g = R!EnterGroup(r, <<>>, <<"AuthAPI">>)
    OBVIOUS
<1>group. Built(g, <<"api", "v1">>, Private, h)
  <2>1. <<"api", "v1">> \o <<>> = <<"api", "v1">>
      BY JoinedNone
  <2>2. Limited \o <<"AuthAPI">> = Private
      BY Join31, Zenon DEF Limited, Private
  <2> QED
      BY ONLY Built(r, <<"api", "v1">>, Limited, h), <2>1, <2>2, <1>g, EntersGroup
<1>e1. PICK e1 : e1 = Entry("GET", <<"api", "v1", "me">>, Private, "Api.Me")
    OBVIOUS
<1>r1. PICK r1, h1 : r1 = R!add(g, "GET", <<"me">>, "Api.Me") /\ h1 = h \cup {e1}
    OBVIOUS
<1>1. Built(r1, <<"api", "v1">>, Private, h1)
  <2>1. e1 \in Catalogue
      BY <1>e1, Zenon DEF Catalogue, Operations
  <2>2. R!splitPath(<<"api", "v1">> \o <<"me">>) = <<"api", "v1", "me">>
      BY <1>named, ApiPath, Zenon
  <2> QED
      BY <1>e1, <1>r1, <1>group, <2>1, <2>2, Adds, Zenon
<1> QED
    BY <1>g, <1>e1, <1>r1, <1>1, Zenon

\* The five routes of the products, in that group.
LEMMA ResourceRoutes ==
    ASSUME NEW r0, NEW h0, Built(r0, <<"api", "v1">>, Private, h0), NEW s,
           s = R!Resource(r0, <<"products">>, R!Products)
    PROVE  Built(s, <<"api", "v1">>, Private,
                 h0 \cup
                 {Entry("GET", <<"api", "v1", "products">>, Private, "Product.Index"),
                  Entry("GET", <<"api", "v1", "products", ":id">>, Private, "Product.Show"),
                  Entry("POST", <<"api", "v1", "products">>, Private, "Product.Store"),
                  Entry("PUT", <<"api", "v1", "products", ":id">>, Private, "Product.Update"),
                  Entry("DELETE", <<"api", "v1", "products", ":id">>, Private, "Product.Destroy")})
<1>named. "products" # R!Empty /\ "api" # R!Empty /\ "v1" # R!Empty /\ ":id" # R!Empty
    BY Zenon DEF R!Empty
<1>handlers. /\ R!Products[1] = "Product.Index" /\ R!Products[2] = "Product.Show"
      /\ R!Products[3] = "Product.Store" /\ R!Products[4] = "Product.Update"
      /\ R!Products[5] = "Product.Destroy"
    BY DEF R!Products
<1>0. Built(r0, <<"api", "v1">>, Private, h0)
    OBVIOUS
<1>e1. PICK e1 : e1 = Entry("GET", <<"api", "v1", "products">>, Private, R!Products[1])
    OBVIOUS
<1>r1. PICK r1, h1 : r1 = R!add(r0, "GET", <<"products">>, R!Products[1]) /\ h1 = h0 \cup {e1}
    OBVIOUS
<1>1. Built(r1, <<"api", "v1">>, Private, h1)
  <2>1. e1 \in Catalogue
      BY <1>e1, <1>handlers, Zenon DEF Catalogue, Operations
  <2>2. R!splitPath(<<"api", "v1">> \o <<"products">>) = <<"api", "v1", "products">>
      BY <1>named, ApiPath, Zenon
  <2> QED
      BY <1>e1, <1>r1, <1>0, <2>1, <2>2, Adds, Zenon
<1>e2. PICK e2 : e2 = Entry("GET", <<"api", "v1", "products", ":id">>, Private, R!Products[2])
    OBVIOUS
<1>r2. PICK r2, h2 : /\ r2 = R!add(r1, "GET", <<"products">> \o <<":id">>, R!Products[2])
                     /\ h2 = h1 \cup {e2}
    OBVIOUS
<1>2. Built(r2, <<"api", "v1">>, Private, h2)
  <2>1. e2 \in Catalogue
      BY <1>e2, <1>handlers, Zenon DEF Catalogue, Operations
  <2>2. R!splitPath(<<"api", "v1">> \o (<<"products">> \o <<":id">>))
            = <<"api", "v1", "products", ":id">>
      BY <1>named, IdPath, Zenon
  <2> QED
      BY <1>e2, <1>r2, <1>1, <2>1, <2>2, Adds, Zenon
<1>e3. PICK e3 : e3 = Entry("POST", <<"api", "v1", "products">>, Private, R!Products[3])
    OBVIOUS
<1>r3. PICK r3, h3 : r3 = R!add(r2, "POST", <<"products">>, R!Products[3]) /\ h3 = h2 \cup {e3}
    OBVIOUS
<1>3. Built(r3, <<"api", "v1">>, Private, h3)
  <2>1. e3 \in Catalogue
      BY <1>e3, <1>handlers, Zenon DEF Catalogue, Operations
  <2>2. R!splitPath(<<"api", "v1">> \o <<"products">>) = <<"api", "v1", "products">>
      BY <1>named, ApiPath, Zenon
  <2> QED
      BY <1>e3, <1>r3, <1>2, <2>1, <2>2, Adds, Zenon
<1>e4. PICK e4 : e4 = Entry("PUT", <<"api", "v1", "products", ":id">>, Private, R!Products[4])
    OBVIOUS
<1>r4. PICK r4, h4 : /\ r4 = R!add(r3, "PUT", <<"products">> \o <<":id">>, R!Products[4])
                     /\ h4 = h3 \cup {e4}
    OBVIOUS
<1>4. Built(r4, <<"api", "v1">>, Private, h4)
  <2>1. e4 \in Catalogue
      BY <1>e4, <1>handlers, Zenon DEF Catalogue, Operations
  <2>2. R!splitPath(<<"api", "v1">> \o (<<"products">> \o <<":id">>))
            = <<"api", "v1", "products", ":id">>
      BY <1>named, IdPath, Zenon
  <2> QED
      BY <1>e4, <1>r4, <1>3, <2>1, <2>2, Adds, Zenon
<1>e5. PICK e5 : e5 = Entry("DELETE", <<"api", "v1", "products", ":id">>, Private, R!Products[5])
    OBVIOUS
<1>r5. PICK r5, h5 : /\ r5 = R!add(r4, "DELETE", <<"products">> \o <<":id">>, R!Products[5])
                     /\ h5 = h4 \cup {e5}
    OBVIOUS
<1>5. Built(r5, <<"api", "v1">>, Private, h5)
  <2>1. e5 \in Catalogue
      BY <1>e5, <1>handlers, Zenon DEF Catalogue, Operations
  <2>2. R!splitPath(<<"api", "v1">> \o (<<"products">> \o <<":id">>))
            = <<"api", "v1", "products", ":id">>
      BY <1>named, IdPath, Zenon
  <2> QED
      BY <1>e5, <1>r5, <1>4, <2>1, <2>2, Adds, Zenon
<1>6. s = r5
    BY <1>r1, <1>r2, <1>r3, <1>r4, <1>r5, Zenon DEF R!Resource
<1>7. h5 = h0 \cup {e1, e2, e3, e4, e5}
    BY ONLY <1>r1, <1>r2, <1>r3, <1>r4, <1>r5
<1> QED
    BY <1>e1, <1>e2, <1>e3, <1>e4, <1>e5, <1>handlers, <1>5, <1>6, <1>7, Zenon

\* registerApiRoutes, with and without a database.
LEMMA ApiRoutes ==
    ASSUME NEW db \in BOOLEAN, NEW r, NEW h, Built(r, <<>>, <<>>, h),
           NEW w, w = R!registerApiRoutes(r, db)
    PROVE  Built(w, <<>>, <<>>, h \cup (IF db THEN Operations ELSE {}))
<1>1. CASE db
  <2> PICK public : public = R!add(R!add(R!EnterGroup(r, <<"api", "v1">>, R!Groups.api),
                                         "POST", <<"login">>, "Api.Login"),
                                   "POST", <<"register">>, "Api.Register")
      OBVIOUS
  <2> PICK me : me = R!add(R!EnterGroup(public, <<>>, <<"AuthAPI">>), "GET", <<"me">>, "Api.Me")
      OBVIOUS
  <2> PICK private : private = R!Resource(me, <<"products">>, R!Products)
      OBVIOUS
  <2> PICK e1, e2, e3 : /\ e1 = Entry("POST", <<"api", "v1", "login">>, Limited, "Api.Login")
                        /\ e2 = Entry("POST", <<"api", "v1", "register">>, Limited, "Api.Register")
                        /\ e3 = Entry("GET", <<"api", "v1", "me">>, Private, "Api.Me")
      OBVIOUS
  <2> PICK e4, e5, e6, e7, e8 :
        /\ e4 = Entry("GET", <<"api", "v1", "products">>, Private, "Product.Index")
        /\ e5 = Entry("GET", <<"api", "v1", "products", ":id">>, Private, "Product.Show")
        /\ e6 = Entry("POST", <<"api", "v1", "products">>, Private, "Product.Store")
        /\ e7 = Entry("PUT", <<"api", "v1", "products", ":id">>, Private, "Product.Update")
        /\ e8 = Entry("DELETE", <<"api", "v1", "products", ":id">>, Private, "Product.Destroy")
      OBVIOUS
  <2>1. Built(public, <<"api", "v1">>, Limited, h \cup {e1, e2})
      BY OpenRoutes, Zenon
  <2> PICK h1 : h1 = h \cup {e1, e2}
      OBVIOUS
  <2>2. Built(me, <<"api", "v1">>, Private, h1 \cup {e3})
      BY <2>1, ProtectedRoute, Zenon
  <2> PICK h2 : h2 = h1 \cup {e3}
      OBVIOUS
  <2>3. Built(private, <<"api", "v1">>, Private, h2 \cup {e4, e5, e6, e7, e8})
      BY <2>2, ResourceRoutes, Zenon
  <2> PICK h3 : h3 = h2 \cup {e4, e5, e6, e7, e8}
      OBVIOUS
  <2> PICK left : left = R!LeaveGroup(private, public)
      OBVIOUS
  <2>4. Built(left, <<"api", "v1">>, Limited, h3)
      BY ONLY <2>1, <2>3, EndsGroup, h3 = h2 \cup {e4, e5, e6, e7, e8},
              left = R!LeaveGroup(private, public), Zenon
  <2>5. w = R!LeaveGroup(left, r)
      BY <1>1, Zenon DEF R!registerApiRoutes
  <2>6. Built(w, <<>>, <<>>, h3)
      BY ONLY <2>4, <2>5, EndsGroup, Built(r, <<>>, <<>>, h), Zenon
  <2>7. Operations = {e1, e2, e3, e4, e5, e6, e7, e8}
      BY Zenon DEF Operations
  <2>8. h3 = h \cup Operations
      BY ONLY <2>7, h1 = h \cup {e1, e2}, h2 = h1 \cup {e3}, h3 = h2 \cup {e4, e5, e6, e7, e8}
  <2> QED
      BY <1>1, <2>6, <2>8, Zenon
<1>2. CASE ~db
  <2>1. w = r /\ h \cup {} = h
      BY <1>2 DEF R!registerApiRoutes
  <2> QED
      BY <1>2, <2>1, Zenon
<1> QED
    BY <1>1, <1>2, Zenon

\* The routes of the application are the catalogue, or without a database part of it.
LEMMA AllRoutes ==
    ASSUME NEW db \in BOOLEAN
    PROVE  /\ R!RegisterRoutes(db).routes \in Seq(Catalogue)
           /\ Has(R!RegisterRoutes(db)) =
                 {Files} \cup Pages \cup (IF db THEN Login \cup Operations ELSE {})
<1> PICK w : w = R!registerWebRoutes(R!NewRouter, db)
    OBVIOUS
<1> PICK r : r = R!RegisterRoutes(db)
    OBVIOUS
<1> PICK h : h = {Files} \cup Pages \cup (IF db THEN Login ELSE {})
    OBVIOUS
<1>1. Built(w, <<>>, <<>>, h)
    BY WebRoutes, Zenon
<1>2. r = R!registerApiRoutes(w, db)
    BY Zenon DEF R!RegisterRoutes
<1>3. Built(r, <<>>, <<>>, h \cup (IF db THEN Operations ELSE {}))
    BY ONLY db \in BOOLEAN, <1>1, <1>2, ApiRoutes, Zenon
<1>4. h \cup (IF db THEN Operations ELSE {}) =
        {Files} \cup Pages \cup (IF db THEN Login \cup Operations ELSE {})
    BY ONLY h = {Files} \cup Pages \cup (IF db THEN Login ELSE {})
<1> QED
    BY <1>3, <1>4, Zenon DEF Built

------------------------------------------------------------------------------
(* The routes and the documents *)

\* The routes with a path.
Named == Pages \cup Login \cup Operations

\* match finds a route that fits and has the method, if there is one.
LEMMA MatchType ==
    ASSUME NEW r, NEW S, r.routes \in Seq(S), NEW method, NEW path,
           NEW m, m = R!match(r, method, path)
    PROVE  /\ m.pathExists <=> (\E e \in Has(r) : R!Fits(e, path))
           /\ m.found <=> (\E e \in Has(r) : R!Fits(e, path) /\ e.method = method)
           /\ m.found => m.route \in Has(r) /\ R!Fits(m.route, path) /\ m.route.method = method
<1> PICK q : q = r.routes
    OBVIOUS
<1> PICK fitting : fitting = {i \in DOMAIN q : R!Fits(q[i], path)}
    OBVIOUS
<1> PICK found : found = {i \in fitting : q[i].method = method}
    OBVIOUS
<1>1. q \in Seq(S) /\ DOMAIN q = 1..Len(q) /\ Len(q) \in Nat
    OBVIOUS
<1>2. /\ (m.found <=> found # {}) /\ (m.pathExists <=> fitting # {})
      /\ found # {} => m.route = q[R!Min(found)]
    BY DEF R!match
<1>3. found # {} => R!Min(found) \in found
  <2>1. found \in SUBSET (1..Len(q))
      BY <1>1
  <2> QED
      BY <1>1, <2>1, Extremes
<1>4. Has(r) = {q[i] : i \in DOMAIN q}
    BY Zenon DEF Has
<1>5. fitting # {} <=> (\E e \in Has(r) : R!Fits(e, path))
    BY ONLY <1>4, fitting = {i \in DOMAIN q : R!Fits(q[i], path)}
<1>6. found # {} <=> (\E e \in Has(r) : R!Fits(e, path) /\ e.method = method)
    BY ONLY <1>4, fitting = {i \in DOMAIN q : R!Fits(q[i], path)},
            found = {i \in fitting : q[i].method = method}
<1>7. found # {} => m.route \in Has(r) /\ R!Fits(m.route, path) /\ m.route.method = method
    BY ONLY <1>2, <1>3, <1>4, fitting = {i \in DOMAIN q : R!Fits(q[i], path)},
            found = {i \in fitting : q[i].method = method}
<1> QED
    BY <1>2, <1>5, <1>6, <1>7, Zenon

\* The declared path segments fits the path segs.
Meets(segments, segs) ==
    /\ Len(segments) = Len(segs)
    /\ \A i \in 1..Len(segs) : segments[i] \in {":id", segs[i]}

\* The security a chain of middleware gives, and the status the documents have for a
\* handler.
Needs(mw) == IF mw = Private THEN "bearer" ELSE IF mw = <<"Auth">> THEN "session" ELSE "none"

Answers(handler) == IF handler = "Api.Register" THEN 200 ELSE R!Success(handler)

\* What the documents say of a route.
Listed(e) == <<e.method, e.segments, Needs(e.mw), Answers(e.handler)>>

\* The security of each chain of middleware.
LEMMA AllNeeds ==
    /\ Needs(<<>>) = "none" /\ Needs(<<"Auth">>) = "session"
    /\ Needs(Limited) = "none" /\ Needs(Private) = "bearer"
BY DEF Needs, Limited, Private

\* The status of each handler in the documents.
LEMMA AllAnswers ==
    /\ Answers("Home.Index") = 200
    /\ Answers("Home.Health") = 200
    /\ Answers("Docs.ShowDocs") = 200
    /\ Answers("Docs.OpenAPISpec") = 200
    /\ Answers("Auth.ShowLogin") = 200
    /\ Answers("Auth.Login") = 302
    /\ Answers("Auth.Logout") = 302
    /\ Answers("Auth.Dashboard") = 200
    /\ Answers("Api.Login") = 200
    /\ Answers("Api.Register") = 200
    /\ Answers("Api.Me") = 200
    /\ Answers("Product.Index") = 200
    /\ Answers("Product.Show") = 200
    /\ Answers("Product.Store") = 201
    /\ Answers("Product.Update") = 200
    /\ Answers("Product.Destroy") = 200
BY DEF Answers, R!Success

\* The web pages are those routes, one entry each.
LEMMA ListedPages == R!WebPages = {Listed(e) : e \in Pages \cup Login}
<1>e1. PICK e1 : e1 = Entry("GET", <<>>, <<>>, "Home.Index")
    OBVIOUS
<1>1. Listed(e1) = <<"GET", <<>>, "none", 200>>
  <2>1. Needs(<<>>) = "none"
      BY ONLY AllNeeds
  <2>2. Answers("Home.Index") = 200
      BY ONLY AllAnswers
  <2> QED
      BY <1>e1, <2>1, <2>2 DEF Listed, Entry
<1>e2. PICK e2 : e2 = Entry("GET", <<"health">>, <<>>, "Home.Health")
    OBVIOUS
<1>2. Listed(e2) = <<"GET", <<"health">>, "none", 200>>
  <2>1. Needs(<<>>) = "none"
      BY ONLY AllNeeds
  <2>2. Answers("Home.Health") = 200
      BY ONLY AllAnswers
  <2> QED
      BY <1>e2, <2>1, <2>2 DEF Listed, Entry
<1>e3. PICK e3 : e3 = Entry("GET", <<"docs">>, <<>>, "Docs.ShowDocs")
    OBVIOUS
<1>3. Listed(e3) = <<"GET", <<"docs">>, "none", 200>>
  <2>1. Needs(<<>>) = "none"
      BY ONLY AllNeeds
  <2>2. Answers("Docs.ShowDocs") = 200
      BY ONLY AllAnswers
  <2> QED
      BY <1>e3, <2>1, <2>2 DEF Listed, Entry
<1>e4. PICK e4 : e4 = Entry("GET", <<"openapi.json">>, <<>>, "Docs.OpenAPISpec")
    OBVIOUS
<1>4. Listed(e4) = <<"GET", <<"openapi.json">>, "none", 200>>
  <2>1. Needs(<<>>) = "none"
      BY ONLY AllNeeds
  <2>2. Answers("Docs.OpenAPISpec") = 200
      BY ONLY AllAnswers
  <2> QED
      BY <1>e4, <2>1, <2>2 DEF Listed, Entry
<1>e5. PICK e5 : e5 = Entry("GET", <<"login">>, <<>>, "Auth.ShowLogin")
    OBVIOUS
<1>5. Listed(e5) = <<"GET", <<"login">>, "none", 200>>
  <2>1. Needs(<<>>) = "none"
      BY ONLY AllNeeds
  <2>2. Answers("Auth.ShowLogin") = 200
      BY ONLY AllAnswers
  <2> QED
      BY <1>e5, <2>1, <2>2 DEF Listed, Entry
<1>e6. PICK e6 : e6 = Entry("POST", <<"login">>, <<>>, "Auth.Login")
    OBVIOUS
<1>6. Listed(e6) = <<"POST", <<"login">>, "none", 302>>
  <2>1. Needs(<<>>) = "none"
      BY ONLY AllNeeds
  <2>2. Answers("Auth.Login") = 302
      BY ONLY AllAnswers
  <2> QED
      BY <1>e6, <2>1, <2>2 DEF Listed, Entry
<1>e7. PICK e7 : e7 = Entry("POST", <<"logout">>, <<>>, "Auth.Logout")
    OBVIOUS
<1>7. Listed(e7) = <<"POST", <<"logout">>, "none", 302>>
  <2>1. Needs(<<>>) = "none"
      BY ONLY AllNeeds
  <2>2. Answers("Auth.Logout") = 302
      BY ONLY AllAnswers
  <2> QED
      BY <1>e7, <2>1, <2>2 DEF Listed, Entry
<1>e8. PICK e8 : e8 = Entry("GET", <<"dashboard">>, <<"Auth">>, "Auth.Dashboard")
    OBVIOUS
<1>8. Listed(e8) = <<"GET", <<"dashboard">>, "session", 200>>
  <2>1. Needs(<<"Auth">>) = "session"
      BY ONLY AllNeeds
  <2>2. Answers("Auth.Dashboard") = 200
      BY ONLY AllAnswers
  <2> QED
      BY <1>e8, <2>1, <2>2 DEF Listed, Entry
<1>20. Pages \cup Login = {e1, e2, e3, e4, e5, e6, e7, e8}
    BY <1>e1, <1>e2, <1>e3, <1>e4, <1>e5, <1>e6, <1>e7, <1>e8,
       Zenon DEF Login, Pages
<1>21. {Listed(e) : e \in Pages \cup Login}
            = {Listed(e1), Listed(e2), Listed(e3), Listed(e4),
               Listed(e5), Listed(e6), Listed(e7), Listed(e8)}
    BY ONLY <1>20
<1>22. R!WebPages = {Listed(e1), Listed(e2), Listed(e3), Listed(e4),
                     Listed(e5), Listed(e6), Listed(e7), Listed(e8)}
    BY <1>1, <1>2, <1>3, <1>4, <1>5, <1>6, <1>7, <1>8 DEF R!WebPages
<1> QED
    BY <1>21, <1>22, Zenon

\* The OpenAPI document lists the routes of the API, one entry each.
LEMMA ListedOperations == R!OpenAPISpec = {Listed(e) : e \in Operations}
<1>e9. PICK e9 : e9 = Entry("POST", <<"api", "v1", "login">>, Limited, "Api.Login")
    OBVIOUS
<1>9. Listed(e9) = <<"POST", <<"api", "v1", "login">>, "none", 200>>
  <2>1. Needs(Limited) = "none"
      BY ONLY AllNeeds
  <2>2. Answers("Api.Login") = 200
      BY ONLY AllAnswers
  <2> QED
      BY <1>e9, <2>1, <2>2 DEF Listed, Entry
<1>e10. PICK e10 : e10 = Entry("POST", <<"api", "v1", "register">>, Limited, "Api.Register")
    OBVIOUS
<1>10. Listed(e10) = <<"POST", <<"api", "v1", "register">>, "none", 200>>
  <2>1. Needs(Limited) = "none"
      BY ONLY AllNeeds
  <2>2. Answers("Api.Register") = 200
      BY ONLY AllAnswers
  <2> QED
      BY <1>e10, <2>1, <2>2 DEF Listed, Entry
<1>e11. PICK e11 : e11 = Entry("GET", <<"api", "v1", "me">>, Private, "Api.Me")
    OBVIOUS
<1>11. Listed(e11) = <<"GET", <<"api", "v1", "me">>, "bearer", 200>>
  <2>1. Needs(Private) = "bearer"
      BY ONLY AllNeeds
  <2>2. Answers("Api.Me") = 200
      BY ONLY AllAnswers
  <2> QED
      BY <1>e11, <2>1, <2>2 DEF Listed, Entry
<1>e12. PICK e12 : e12 = Entry("GET", <<"api", "v1", "products">>, Private, "Product.Index")
    OBVIOUS
<1>12. Listed(e12) = <<"GET", <<"api", "v1", "products">>, "bearer", 200>>
  <2>1. Needs(Private) = "bearer"
      BY ONLY AllNeeds
  <2>2. Answers("Product.Index") = 200
      BY ONLY AllAnswers
  <2> QED
      BY <1>e12, <2>1, <2>2 DEF Listed, Entry
<1>e13. PICK e13 : e13 = Entry("GET", <<"api", "v1", "products", ":id">>, Private, "Product.Show")
    OBVIOUS
<1>13. Listed(e13) = <<"GET", <<"api", "v1", "products", ":id">>, "bearer", 200>>
  <2>1. Needs(Private) = "bearer"
      BY ONLY AllNeeds
  <2>2. Answers("Product.Show") = 200
      BY ONLY AllAnswers
  <2> QED
      BY <1>e13, <2>1, <2>2 DEF Listed, Entry
<1>e14. PICK e14 : e14 = Entry("POST", <<"api", "v1", "products">>, Private, "Product.Store")
    OBVIOUS
<1>14. Listed(e14) = <<"POST", <<"api", "v1", "products">>, "bearer", 201>>
  <2>1. Needs(Private) = "bearer"
      BY ONLY AllNeeds
  <2>2. Answers("Product.Store") = 201
      BY ONLY AllAnswers
  <2> QED
      BY <1>e14, <2>1, <2>2 DEF Listed, Entry
<1>e15. PICK e15 : e15 = Entry("PUT", <<"api", "v1", "products", ":id">>, Private, "Product.Update")
    OBVIOUS
<1>15. Listed(e15) = <<"PUT", <<"api", "v1", "products", ":id">>, "bearer", 200>>
  <2>1. Needs(Private) = "bearer"
      BY ONLY AllNeeds
  <2>2. Answers("Product.Update") = 200
      BY ONLY AllAnswers
  <2> QED
      BY <1>e15, <2>1, <2>2 DEF Listed, Entry
<1>e16. PICK e16 : e16 = Entry("DELETE", <<"api", "v1", "products", ":id">>, Private, "Product.Destroy")
    OBVIOUS
<1>16. Listed(e16) = <<"DELETE", <<"api", "v1", "products", ":id">>, "bearer", 200>>
  <2>1. Needs(Private) = "bearer"
      BY ONLY AllNeeds
  <2>2. Answers("Product.Destroy") = 200
      BY ONLY AllAnswers
  <2> QED
      BY <1>e16, <2>1, <2>2 DEF Listed, Entry
<1>20. Operations = {e9, e10, e11, e12, e13, e14, e15, e16}
    BY <1>e9, <1>e10, <1>e11, <1>e12, <1>e13, <1>e14, <1>e15, <1>e16,
       Zenon DEF Operations
<1>21. {Listed(e) : e \in Operations}
            = {Listed(e9), Listed(e10), Listed(e11), Listed(e12),
               Listed(e13), Listed(e14), Listed(e15), Listed(e16)}
    BY ONLY <1>20
<1>22. R!OpenAPISpec = {Listed(e9), Listed(e10), Listed(e11), Listed(e12),
                        Listed(e13), Listed(e14), Listed(e15), Listed(e16)}
    BY <1>9, <1>10, <1>11, <1>12, <1>13, <1>14, <1>15, <1>16 DEF R!OpenAPISpec
<1> QED
    BY <1>21, <1>22, Zenon

\* Of what a path of three, or four, segments meets the third is known.
LEMMA MeetsThree ==
    ASSUME NEW s, NEW t, NEW u, u # ":id", NEW segments, segments = <<s, t, u>>,
           NEW segs, Meets(segments, segs)
    PROVE  Len(segs) = 3 /\ segs[3] = u
BY DEF Meets

LEMMA MeetsFour ==
    ASSUME NEW s, NEW t, NEW u, u # ":id", NEW v, NEW segments, segments = <<s, t, u, v>>,
           NEW segs, Meets(segments, segs)
    PROVE  Len(segs) = 4 /\ segs[3] = u
BY DEF Meets

\* No request fits two routes of one method.
LEMMA Apart ==
    ASSUME NEW e \in Named, NEW f \in Named, e.method = f.method, NEW segs,
           Meets(e.segments, segs), Meets(f.segments, segs)
    PROVE  e = f
<1>e1. PICK e1 : e1 = Entry("GET", <<>>, <<>>, "Home.Index")
    OBVIOUS
<1>e2. PICK e2 : e2 = Entry("GET", <<"health">>, <<>>, "Home.Health")
    OBVIOUS
<1>e3. PICK e3 : e3 = Entry("GET", <<"docs">>, <<>>, "Docs.ShowDocs")
    OBVIOUS
<1>e4. PICK e4 : e4 = Entry("GET", <<"openapi.json">>, <<>>, "Docs.OpenAPISpec")
    OBVIOUS
<1>e5. PICK e5 : e5 = Entry("GET", <<"login">>, <<>>, "Auth.ShowLogin")
    OBVIOUS
<1>e6. PICK e6 : e6 = Entry("POST", <<"login">>, <<>>, "Auth.Login")
    OBVIOUS
<1>e7. PICK e7 : e7 = Entry("POST", <<"logout">>, <<>>, "Auth.Logout")
    OBVIOUS
<1>e8. PICK e8 : e8 = Entry("GET", <<"dashboard">>, <<"Auth">>, "Auth.Dashboard")
    OBVIOUS
<1>e9. PICK e9 : e9 = Entry("POST", <<"api", "v1", "login">>, Limited, "Api.Login")
    OBVIOUS
<1>e10. PICK e10 : e10 = Entry("POST", <<"api", "v1", "register">>, Limited, "Api.Register")
    OBVIOUS
<1>e11. PICK e11 : e11 = Entry("GET", <<"api", "v1", "me">>, Private, "Api.Me")
    OBVIOUS
<1>e12. PICK e12 : e12 = Entry("GET", <<"api", "v1", "products">>, Private, "Product.Index")
    OBVIOUS
<1>e13. PICK e13 : e13 = Entry("GET", <<"api", "v1", "products", ":id">>, Private, "Product.Show")
    OBVIOUS
<1>e14. PICK e14 : e14 = Entry("POST", <<"api", "v1", "products">>, Private, "Product.Store")
    OBVIOUS
<1>e15. PICK e15 : e15 = Entry("PUT", <<"api", "v1", "products", ":id">>, Private, "Product.Update")
    OBVIOUS
<1>e16. PICK e16 : e16 = Entry("DELETE", <<"api", "v1", "products", ":id">>, Private, "Product.Destroy")
    OBVIOUS
<1>1. e1.method = "GET" /\ (Meets(e1.segments, segs) => Len(segs) = 0)
    BY <1>e1 DEF Entry, Meets
<1>2. e2.method = "GET" /\ (Meets(e2.segments, segs) => Len(segs) = 1 /\ segs[1] = "health")
    BY <1>e2 DEF Entry, Meets
<1>3. e3.method = "GET" /\ (Meets(e3.segments, segs) => Len(segs) = 1 /\ segs[1] = "docs")
    BY <1>e3 DEF Entry, Meets
<1>4. e4.method = "GET" /\ (Meets(e4.segments, segs) => Len(segs) = 1 /\ segs[1] = "openapi.json")
    BY <1>e4 DEF Entry, Meets
<1>5. e5.method = "GET" /\ (Meets(e5.segments, segs) => Len(segs) = 1 /\ segs[1] = "login")
    BY <1>e5 DEF Entry, Meets
<1>6. e6.method = "POST" /\ (Meets(e6.segments, segs) => Len(segs) = 1 /\ segs[1] = "login")
    BY <1>e6 DEF Entry, Meets
<1>7. e7.method = "POST" /\ (Meets(e7.segments, segs) => Len(segs) = 1 /\ segs[1] = "logout")
    BY <1>e7 DEF Entry, Meets
<1>8. e8.method = "GET" /\ (Meets(e8.segments, segs) => Len(segs) = 1 /\ segs[1] = "dashboard")
    BY <1>e8 DEF Entry, Meets
<1>9. e9.method = "POST" /\ (Meets(e9.segments, segs) => Len(segs) = 3 /\ segs[3] = "login")
  <2>1. e9.method = "POST" /\ e9.segments = <<"api", "v1", "login">>
      BY <1>e9 DEF Entry
  <2>2. "login" # ":id"
      OBVIOUS
  <2> QED
      BY ONLY <2>1, <2>2, MeetsThree
<1>10. e10.method = "POST" /\ (Meets(e10.segments, segs) => Len(segs) = 3 /\ segs[3] = "register")
  <2>1. e10.method = "POST" /\ e10.segments = <<"api", "v1", "register">>
      BY <1>e10 DEF Entry
  <2>2. "register" # ":id"
      OBVIOUS
  <2> QED
      BY ONLY <2>1, <2>2, MeetsThree
<1>11. e11.method = "GET" /\ (Meets(e11.segments, segs) => Len(segs) = 3 /\ segs[3] = "me")
  <2>1. e11.method = "GET" /\ e11.segments = <<"api", "v1", "me">>
      BY <1>e11 DEF Entry
  <2>2. "me" # ":id"
      OBVIOUS
  <2> QED
      BY ONLY <2>1, <2>2, MeetsThree
<1>12. e12.method = "GET" /\ (Meets(e12.segments, segs) => Len(segs) = 3 /\ segs[3] = "products")
  <2>1. e12.method = "GET" /\ e12.segments = <<"api", "v1", "products">>
      BY <1>e12 DEF Entry
  <2>2. "products" # ":id"
      OBVIOUS
  <2> QED
      BY ONLY <2>1, <2>2, MeetsThree
<1>13. e13.method = "GET" /\ (Meets(e13.segments, segs) => Len(segs) = 4 /\ segs[3] = "products")
  <2>1. e13.method = "GET" /\ e13.segments = <<"api", "v1", "products", ":id">>
      BY <1>e13 DEF Entry
  <2>2. "products" # ":id"
      OBVIOUS
  <2> QED
      BY ONLY <2>1, <2>2, MeetsFour
<1>14. e14.method = "POST" /\ (Meets(e14.segments, segs) => Len(segs) = 3 /\ segs[3] = "products")
  <2>1. e14.method = "POST" /\ e14.segments = <<"api", "v1", "products">>
      BY <1>e14 DEF Entry
  <2>2. "products" # ":id"
      OBVIOUS
  <2> QED
      BY ONLY <2>1, <2>2, MeetsThree
<1>15. e15.method = "PUT" /\ (Meets(e15.segments, segs) => Len(segs) = 4 /\ segs[3] = "products")
  <2>1. e15.method = "PUT" /\ e15.segments = <<"api", "v1", "products", ":id">>
      BY <1>e15 DEF Entry
  <2>2. "products" # ":id"
      OBVIOUS
  <2> QED
      BY ONLY <2>1, <2>2, MeetsFour
<1>16. e16.method = "DELETE" /\ (Meets(e16.segments, segs) => Len(segs) = 4 /\ segs[3] = "products")
  <2>1. e16.method = "DELETE" /\ e16.segments = <<"api", "v1", "products", ":id">>
      BY <1>e16 DEF Entry
  <2>2. "products" # ":id"
      OBVIOUS
  <2> QED
      BY ONLY <2>1, <2>2, MeetsFour
<1>17. \A x \in Named : \/ x \in {e1, e2, e3, e4} \/ x \in {e5, e6, e7, e8}
                        \/ x \in {e9, e10, e11, e12, e13, e14, e15, e16}
  <2>1. Pages = {e1, e2, e3, e4}
      BY <1>e1, <1>e2, <1>e3, <1>e4, Zenon DEF Pages
  <2>2. Login = {e5, e6, e7, e8}
      BY <1>e5, <1>e6, <1>e7, <1>e8, Zenon DEF Login
  <2>3. Operations = {e9, e10, e11, e12, e13, e14, e15, e16}
      BY <1>e9, <1>e10, <1>e11, <1>e12, <1>e13, <1>e14, <1>e15, <1>e16,
       Zenon DEF Operations
  <2> QED
      BY <2>1, <2>2, <2>3, Zenon DEF Named
<1> QED
    BY ONLY <1>1, <1>2, <1>3, <1>4, <1>5, <1>6, <1>7, <1>8, <1>9, <1>10, <1>11,
            <1>12, <1>13, <1>14, <1>15, <1>16, <1>17, e \in Named, f \in Named,
            e.method = f.method, Meets(e.segments, segs), Meets(f.segments, segs)

\* The routes with the middleware of the API are those below "api".
LEMMA RouteKinds ==
    ASSUME NEW e \in Named
    PROVE  /\ e.method # "OPTIONS" /\ e.isPrefix = FALSE
           /\ e.handler # R!Empty /\ e.handler # "files"
           /\ DOMAIN e.segments = 1..Len(e.segments) /\ Len(e.segments) \in Nat
           /\ e.segments # <<>> => e.segments[1] # ":id"
           /\ \/ e.mw \in {<<>>, <<"Auth">>} /\ (e.segments # <<>> => e.segments[1] # "api")
              \/ e.mw \in {Limited, Private} /\ e.segments # <<>> /\ e.segments[1] = "api"
<1>1. CASE e = Entry("GET", <<>>, <<>>, "Home.Index")
  <2>1. "Home.Index" # R!Empty
      BY Zenon DEF R!Empty
  <2> QED
      BY <1>1, <2>1 DEF Entry
<1>2. CASE e = Entry("GET", <<"health">>, <<>>, "Home.Health")
  <2>1. "Home.Health" # R!Empty
      BY Zenon DEF R!Empty
  <2> QED
      BY <1>2, <2>1 DEF Entry
<1>3. CASE e = Entry("GET", <<"docs">>, <<>>, "Docs.ShowDocs")
  <2>1. "Docs.ShowDocs" # R!Empty
      BY Zenon DEF R!Empty
  <2> QED
      BY <1>3, <2>1 DEF Entry
<1>4. CASE e = Entry("GET", <<"openapi.json">>, <<>>, "Docs.OpenAPISpec")
  <2>1. "Docs.OpenAPISpec" # R!Empty
      BY Zenon DEF R!Empty
  <2> QED
      BY <1>4, <2>1 DEF Entry
<1>5. CASE e = Entry("GET", <<"login">>, <<>>, "Auth.ShowLogin")
  <2>1. "Auth.ShowLogin" # R!Empty
      BY Zenon DEF R!Empty
  <2> QED
      BY <1>5, <2>1 DEF Entry
<1>6. CASE e = Entry("POST", <<"login">>, <<>>, "Auth.Login")
  <2>1. "Auth.Login" # R!Empty
      BY Zenon DEF R!Empty
  <2> QED
      BY <1>6, <2>1 DEF Entry
<1>7. CASE e = Entry("POST", <<"logout">>, <<>>, "Auth.Logout")
  <2>1. "Auth.Logout" # R!Empty
      BY Zenon DEF R!Empty
  <2> QED
      BY <1>7, <2>1 DEF Entry
<1>8. CASE e = Entry("GET", <<"dashboard">>, <<"Auth">>, "Auth.Dashboard")
  <2>1. "Auth.Dashboard" # R!Empty
      BY Zenon DEF R!Empty
  <2> QED
      BY <1>8, <2>1 DEF Entry
<1>9. CASE e = Entry("POST", <<"api", "v1", "login">>, Limited, "Api.Login")
  <2>1. "Api.Login" # R!Empty
      BY Zenon DEF R!Empty
  <2> QED
      BY <1>9, <2>1 DEF Entry
<1>10. CASE e = Entry("POST", <<"api", "v1", "register">>, Limited, "Api.Register")
  <2>1. "Api.Register" # R!Empty
      BY Zenon DEF R!Empty
  <2> QED
      BY <1>10, <2>1 DEF Entry
<1>11. CASE e = Entry("GET", <<"api", "v1", "me">>, Private, "Api.Me")
  <2>1. "Api.Me" # R!Empty
      BY Zenon DEF R!Empty
  <2> QED
      BY <1>11, <2>1 DEF Entry
<1>12. CASE e = Entry("GET", <<"api", "v1", "products">>, Private, "Product.Index")
  <2>1. "Product.Index" # R!Empty
      BY Zenon DEF R!Empty
  <2> QED
      BY <1>12, <2>1 DEF Entry
<1>13. CASE e = Entry("GET", <<"api", "v1", "products", ":id">>, Private, "Product.Show")
  <2>1. "Product.Show" # R!Empty
      BY Zenon DEF R!Empty
  <2> QED
      BY <1>13, <2>1 DEF Entry
<1>14. CASE e = Entry("POST", <<"api", "v1", "products">>, Private, "Product.Store")
  <2>1. "Product.Store" # R!Empty
      BY Zenon DEF R!Empty
  <2> QED
      BY <1>14, <2>1 DEF Entry
<1>15. CASE e = Entry("PUT", <<"api", "v1", "products", ":id">>, Private, "Product.Update")
  <2>1. "Product.Update" # R!Empty
      BY Zenon DEF R!Empty
  <2> QED
      BY <1>15, <2>1 DEF Entry
<1>16. CASE e = Entry("DELETE", <<"api", "v1", "products", ":id">>, Private, "Product.Destroy")
  <2>1. "Product.Destroy" # R!Empty
      BY Zenon DEF R!Empty
  <2> QED
      BY <1>16, <2>1 DEF Entry
<1> QED
    BY <1>1, <1>2, <1>3, <1>4, <1>5, <1>6, <1>7, <1>8, <1>9, <1>10, <1>11, <1>12,
       <1>13, <1>14, <1>15, <1>16, Zenon DEF Named, Pages, Login, Operations

\* Only the pages are where a server without a database has something.
LEMMA FewPages ==
    /\ \A e \in Pages : e.segments \in {<<>>, <<"health">>, <<"docs">>, <<"openapi.json">>}
    /\ \A e \in Login \cup Operations :
          e.segments \notin {<<>>, <<"health">>, <<"docs">>, <<"openapi.json">>}
<1>1. ASSUME NEW e \in Pages
      PROVE  e.segments \in {<<>>, <<"health">>, <<"docs">>, <<"openapi.json">>}
    BY DEF Pages, Entry
<1>2. ASSUME NEW e \in Login \cup Operations
      PROVE  e.segments \notin {<<>>, <<"health">>, <<"docs">>, <<"openapi.json">>}
  <2>1. CASE e = Entry("GET", <<"login">>, <<>>, "Auth.ShowLogin")
      BY <2>1 DEF Entry
  <2>2. CASE e = Entry("POST", <<"login">>, <<>>, "Auth.Login")
      BY <2>2 DEF Entry
  <2>3. CASE e = Entry("POST", <<"logout">>, <<>>, "Auth.Logout")
      BY <2>3 DEF Entry
  <2>4. CASE e = Entry("GET", <<"dashboard">>, <<"Auth">>, "Auth.Dashboard")
      BY <2>4 DEF Entry
  <2>5. CASE e = Entry("POST", <<"api", "v1", "login">>, Limited, "Api.Login")
      BY <2>5 DEF Entry
  <2>6. CASE e = Entry("POST", <<"api", "v1", "register">>, Limited, "Api.Register")
      BY <2>6 DEF Entry
  <2>7. CASE e = Entry("GET", <<"api", "v1", "me">>, Private, "Api.Me")
      BY <2>7 DEF Entry
  <2>8. CASE e = Entry("GET", <<"api", "v1", "products">>, Private, "Product.Index")
      BY <2>8 DEF Entry
  <2>9. CASE e = Entry("GET", <<"api", "v1", "products", ":id">>, Private, "Product.Show")
      BY <2>9 DEF Entry
  <2>10. CASE e = Entry("POST", <<"api", "v1", "products">>, Private, "Product.Store")
      BY <2>10 DEF Entry
  <2>11. CASE e = Entry("PUT", <<"api", "v1", "products", ":id">>, Private, "Product.Update")
      BY <2>11 DEF Entry
  <2>12. CASE e = Entry("DELETE", <<"api", "v1", "products", ":id">>, Private, "Product.Destroy")
      BY <2>12 DEF Entry
  <2> QED
      BY <2>1, <2>2, <2>3, <2>4, <2>5, <2>6, <2>7, <2>8, <2>9, <2>10, <2>11, <2>12,
              Zenon DEF Login, Operations
<1> QED
    BY <1>1, <1>2

\* The routes with a path that a server has.
Offered(db) == IF db THEN Named ELSE Pages

\* A route other than the files fits a path when its segments meet those of the path.
LEMMA FitsNamed ==
    ASSUME NEW S, NEW path \in Seq(S), NEW e \in Named
    PROVE  R!Fits(e, path) <=> Meets(e.segments, R!splitPath(path))
<1> PICK segs : segs = R!splitPath(path)
    OBVIOUS
<1>1. segs \in Seq(S)
    BY SplitPath, Zenon
<1>2. DOMAIN segs = 1..Len(segs)
    BY <1>1
<1>3. e.isPrefix = FALSE
    BY RouteKinds, Zenon
<1>4. R!Fits(e, path) <=> (/\ Len(e.segments) = Len(segs)
                         /\ \A i \in DOMAIN segs : \/ e.segments[i] \in {":id"}
                                                   \/ e.segments[i] = segs[i])
    BY <1>3, Zenon DEF R!Fits, R!Parameters
<1> QED
    BY <1>2, <1>4 DEF Meets

\* What the documents promise of a path are the routes it meets.
LEMMA Promised ==
    ASSUME NEW path, NEW db \in BOOLEAN, NEW segs, segs = R!splitPath(path),
           NEW offered, offered = Offered(db), NEW here, here = R!Promises(path, db)
    PROVE  here = {Listed(e) : e \in {f \in offered : Meets(f.segments, segs)}}
<1> PICK few : few = {<<>>, <<"health">>, <<"docs">>, <<"openapi.json">>}
    OBVIOUS
<1> DEFINE Fitting(p) == /\ Len(p[2]) = Len(segs)
                         /\ \A i \in DOMAIN p[2] : p[2][i] \in {":id", segs[i]}
<1>1. R!OpenAPISpec \cup R!WebPages = {Listed(e) : e \in Named}
    BY ListedPages, ListedOperations DEF Named
<1>2. ASSUME NEW e \in Named
      PROVE  Listed(e)[2] = e.segments /\ (Fitting(Listed(e)) <=> Meets(e.segments, segs))
  <2>1. Listed(e)[2] = e.segments
      BY DEF Listed
  <2>2. DOMAIN e.segments = 1..Len(e.segments)
      BY RouteKinds, Zenon
  <2>3. Len(e.segments) = Len(segs) => DOMAIN e.segments = 1..Len(segs)
      BY <2>2
  <2> QED
      BY <2>1, <2>3, Zenon DEF Meets
<1>3. ASSUME NEW e \in Named PROVE (e.segments \in few) <=> (e \in Pages)
    BY FewPages, Zenon DEF Named
<1>4. here = {p \in {Listed(e) : e \in Named} : (db \/ p[2] \in few) /\ Fitting(p)}
    BY <1>1, Zenon DEF R!Promises
<1> HIDE DEF Fitting
<1>5. \A e \in Named : (db \/ Listed(e)[2] \in few) <=> (e \in offered)
    BY <1>2, <1>3 DEF Offered
<1>6. offered \subseteq Named
    BY DEF Offered, Named
<1> QED
    BY <1>2, <1>4, <1>5, <1>6

\* A path below "public" fits no other route than the one of the files.
LEMMA NotPublic ==
    ASSUME NEW S, NEW path \in Seq(S), path # <<>>, path[1] \in PublicLike,
           NEW e \in Named
    PROVE  ~Meets(e.segments, R!splitPath(path))
<1> PICK segs : segs = R!splitPath(path)
    OBVIOUS
<1> SUFFICES ASSUME Meets(e.segments, segs) PROVE FALSE
    BY Zenon
<1>1. path[1] # R!Empty
    BY CallsAssumption, Zenon DEF CallsAssumption
<1>2. segs \in Seq(S) /\ segs # <<>> /\ segs[1] = path[1]
    BY <1>1, SplitPath
<1>3. Len(e.segments) = Len(segs) /\ e.segments[1] \in {":id", segs[1]}
    BY <1>2 DEF Meets
<1>4. DOMAIN e.segments = 1..Len(e.segments)
    BY RouteKinds, Zenon
<1>5. 1 \in DOMAIN e.segments /\ e.segments # <<>>
    BY <1>2, <1>3, <1>4
<1>6. e.segments[1] = path[1]
    BY <1>2, <1>3, <1>5, RouteKinds, Zenon
<1>7. Listed(e) \in R!OpenAPISpec \cup R!WebPages
    BY ListedPages, ListedOperations DEF Named
<1>8. Listed(e)[2] = e.segments
    BY DEF Listed
<1>9. e.segments[1] \notin PublicLike
    BY CallsAssumption, <1>5, <1>7, <1>8, Zenon DEF CallsAssumption
<1> QED
    BY <1>6, <1>9, Zenon

\* What match finds, in terms of what the documents promise.
Finds(m, method, path, here, mine) ==
    /\ path[1] \in PublicLike =>
          /\ here = {} /\ mine = {} /\ m.pathExists
          /\ (m.found <=> method = "GET") /\ (m.found => m.route = Files)
    /\ path[1] \notin PublicLike =>
          /\ (m.pathExists <=> here # {}) /\ (m.found <=> mine # {})
          /\ m.found => m.route \in Named /\ mine = {Listed(m.route)}

\* The route match finds is the one promised, if it is not the files.
LEMMA MatchFinds ==
    ASSUME NEW path \in Seq(STRING), path # <<>>, NEW method, NEW db \in BOOLEAN,
           NEW m, m = R!match(R!RegisterRoutes(db), method, path),
           NEW here, here = R!Promises(path, db), NEW mine, mine = {p \in here : p[1] = method}
    PROVE  Finds(m, method, path, here, mine)
<1> PICK r : r = R!RegisterRoutes(db)
    OBVIOUS
<1> PICK segs : segs = R!splitPath(path)
    OBVIOUS
<1> PICK offered : offered = Offered(db)
    OBVIOUS
<1>1. r.routes \in Seq(Catalogue) /\ Has(r) = {Files} \cup offered /\ offered \subseteq Named
  <2>1. {Files} \cup Pages \cup (IF db THEN Login \cup Operations ELSE {}) = {Files} \cup offered
      BY DEF Offered, Named
  <2>2. offered \subseteq Named
      BY DEF Offered, Named
  <2> QED
      BY <2>1, <2>2, AllRoutes, Zenon
<1>2. here = {Listed(e) : e \in {f \in offered : Meets(f.segments, segs)}}
    BY ONLY db \in BOOLEAN, segs = R!splitPath(path), offered = Offered(db),
            here = R!Promises(path, db), Promised
<1>3. \A e \in offered : R!Fits(e, path) <=> Meets(e.segments, segs)
    BY <1>1, FitsNamed, Zenon
<1>4. (R!Fits(Files, path) <=> path[1] \in PublicLike) /\ Files.method = "GET"
    BY DEF R!Fits, Files
<1>5. /\ m.pathExists <=> (\E e \in Has(r) : R!Fits(e, path))
      /\ m.found <=> (\E e \in Has(r) : R!Fits(e, path) /\ e.method = method)
      /\ m.found => m.route \in Has(r) /\ R!Fits(m.route, path) /\ m.route.method = method
    BY <1>1, MatchType
<1>6. \A e \in offered : Listed(e)[1] = e.method
    BY DEF Listed
<1>7. ASSUME path[1] \in PublicLike
      PROVE  /\ here = {} /\ mine = {} /\ m.pathExists
             /\ (m.found <=> method = "GET") /\ (m.found => m.route = Files)
  <2>1. \A e \in offered : ~Meets(e.segments, segs)
      BY <1>1, <1>7, NotPublic, Zenon
  <2>2. here = {}
      BY <1>2, <2>1
  <2>3. \A e \in Has(r) : R!Fits(e, path) <=> e = Files
      BY <1>1, <1>3, <1>4, <1>7, <2>1
  <2>4. Files \in Has(r)
      BY <1>1
  <2> QED
      BY <1>4, <1>5, <2>2, <2>3, <2>4
<1>8. ASSUME path[1] \notin PublicLike
      PROVE  /\ (m.pathExists <=> here # {}) /\ (m.found <=> mine # {})
             /\ m.found => m.route \in Named /\ mine = {Listed(m.route)}
  <2>1. \A e \in Has(r) : R!Fits(e, path) <=> (e \in offered /\ Meets(e.segments, segs))
      BY <1>1, <1>3, <1>4, <1>8
  <2>2. m.pathExists <=> here # {}
      BY <1>1, <1>2, <1>5, <2>1
  <2>3. mine = {Listed(e) : e \in {f \in offered : Meets(f.segments, segs) /\ f.method = method}}
      BY <1>2, <1>6
  <2>4. m.found <=> mine # {}
      BY <1>1, <1>5, <2>1, <2>3
  <2>5. ASSUME m.found PROVE m.route \in Named /\ mine = {Listed(m.route)}
    <3> PICK e : e = m.route
        OBVIOUS
    <3>1. e \in offered /\ Meets(e.segments, segs) /\ e.method = method
        BY <1>5, <2>1, <2>5
    <3>2. \A f \in offered : Meets(f.segments, segs) /\ f.method = method => f = e
        BY <1>1, <3>1, Apart, Zenon
    <3>3. {f \in offered : Meets(f.segments, segs) /\ f.method = method} = {e}
        BY <3>1, <3>2
    <3> QED
        BY <1>1, <2>3, <3>1, <3>3
  <2> QED
      BY <2>2, <2>4, <2>5
<1> QED
    BY <1>7, <1>8, Zenon DEF Finds

------------------------------------------------------------------------------
(* Middleware *)

\* A response that at most a handler of H has written.
Responses(H) == [sent : Nat, captured : Nat, ran : H, panics : BOOLEAN, logged : Seq(Nat)]

\* WriteHeader and the middleware keep the type of a response.
LEMMA HeaderType ==
    ASSUME NEW H, NEW x \in Responses(H), NEW code \in Nat
    PROVE  R!WriteHeader(x, code) \in Responses(H)
BY DEF Responses, R!WriteHeader

\* A middleware returns to a response.
LEMMA AfterType ==
    ASSUME NEW H, NEW x \in Responses(H), NEW m
    PROVE  R!After(m, x) \in Responses(H)
<1>1. [x EXCEPT !.logged = Append(@, x.captured)] \in Responses(H)
  <2>1. x.logged \in Seq(Nat) /\ x.captured \in Nat
      BY DEF Responses
  <2>2. Append(x.logged, x.captured) \in Seq(Nat)
      BY <2>1
  <2> QED
      BY <2>2 DEF Responses
<1>2. [R!WriteHeader(x, 500) EXCEPT !.panics = FALSE] \in Responses(H)
  <2> PICK y : y = R!WriteHeader(x, 500)
      OBVIOUS
  <2>1. y \in Responses(H)
      BY HeaderType
  <2>2. [y EXCEPT !.panics = FALSE] \in Responses(H)
      BY ONLY <2>1 DEF Responses
  <2> QED
      BY <2>2
<1> QED
    BY <1>1, <1>2 DEF R!After

\* Unwind goes through the chain from its end; the function it is defined by exists by
\* Recursion.
LEMMA Unwinds ==
    ASSUME NEW H, NEW b \in Responses(H), NEW chain, NEW n \in Nat
    PROVE  \E h : /\ h[0] = b /\ \A k \in Nat : h[k + 1] = R!After(chain[n - k], h[k])
                  /\ R!Unwind(chain, n, b) = h[n]
<1> DEFINE Is(h) == h = [k \in Nat |-> IF k = 0 THEN b ELSE R!After(chain[n + 1 - k], h[k - 1])]
<1>1. \E h : Is(h)
  <2> PICK S : S = Responses(H)
      OBVIOUS
  <2> PICK g : g = [k \in Nat |-> [x \in S |-> R!After(chain[n - k], x)]]
      OBVIOUS
  <2>1. g \in [Nat -> [S -> S]] /\ b \in S
      BY AfterType
  <2>f. PICK f \in [Nat -> S] : Follows(f, b, g)
      BY <2>1, Recursion, Zenon
  <2>2. f[0] = b /\ \A k \in Nat : f[k + 1] = g[k][f[k]]
      BY <2>f DEF Follows
  <2>3. \A k \in Nat : f[k + 1] = R!After(chain[n - k], f[k])
      BY <2>f, <2>2
  <2>4. ASSUME NEW k \in Nat PROVE f[k] = IF k = 0 THEN b ELSE R!After(chain[n + 1 - k], f[k - 1])
    <3>1. CASE k = 0
        BY <2>2, <3>1
    <3>2. CASE k # 0
      <4>1. k - 1 \in Nat /\ (k - 1) + 1 = k /\ n - (k - 1) = n + 1 - k
          BY <3>2
      <4> QED
          BY <2>3, <3>2, <4>1
    <3> QED
        BY <3>1, <3>2
  <2>5. Is(f)
      BY <2>2, <2>4
  <2> QED
      BY <2>5
<1> PICK h : h = CHOOSE f : Is(f)
    OBVIOUS
<1>2. Is(h)
    BY <1>1
<1>3. R!Unwind(chain, n, b) = h[n]
    BY DEF R!Unwind
<1>4. h[0] = b
    BY <1>2
<1>5. ASSUME NEW k \in Nat PROVE h[k + 1] = R!After(chain[n - k], h[k])
  <2>1. k + 1 \in Nat /\ k + 1 # 0 /\ (k + 1) - 1 = k /\ n + 1 - (k + 1) = n - k
      OBVIOUS
  <2> QED
      BY <1>2, <2>1
<1> QED
    BY <1>3, <1>4, <1>5

\* Middleware other than the logger and Recover leave a response as it is.
LEMMA Unchanged ==
    ASSUME NEW H, NEW b \in Responses(H), NEW chain, NEW n \in Nat,
           \A i \in 1..n : chain[i] \notin {"Logger", "Recover"}
    PROVE  R!Unwind(chain, n, b) = b
<1>1. PICK h : /\ h[0] = b /\ \A k \in Nat : h[k + 1] = R!After(chain[n - k], h[k])
               /\ R!Unwind(chain, n, b) = h[n]
    BY Unwinds, SMTT(30)
<1> PICK T : T = {k \in Nat : k <= n => h[k] = b}
    OBVIOUS
<1>2. 0 \in T
    BY <1>1
<1>3. ASSUME NEW k \in Nat, k \in T PROVE k + 1 \in T
  <2>1. ASSUME k + 1 <= n PROVE h[k + 1] = b
    <3>1. n - k \in 1..n /\ h[k] = b
        BY <1>3, <2>1
    <3>2. R!After(chain[n - k], b) = b
        BY <3>1 DEF R!After
    <3> QED
        BY <1>1, <3>1, <3>2
  <2> QED
      BY <2>1
<1>4. \A k \in Nat : k \in T
    BY <1>2, <1>3, NatSet
<1> QED
    BY <1>1, <1>4

\* Of the middleware around the router the logger and Recover have a say.
LEMMA Outermost ==
    ASSUME NEW H, NEW b \in Responses(H)
    PROVE  R!Unwind(R!Global, 3, b) = R!After("Recover", R!After("Logger", b))
<1>1. PICK h : /\ h[0] = b /\ \A k \in Nat : h[k + 1] = R!After(R!Global[3 - k], h[k])
               /\ R!Unwind(R!Global, 3, b) = h[3]
    BY Unwinds
<1>2. R!Global[3] = "SecurityHeaders" /\ R!Global[2] = "Logger" /\ R!Global[1] = "Recover"
    BY DEF R!Global
<1>3. /\ h[1] = R!After(R!Global[3], h[0]) /\ h[2] = R!After(R!Global[2], h[1])
      /\ h[3] = R!After(R!Global[1], h[2])
  <2>1. h[0 + 1] = R!After(R!Global[3 - 0], h[0]) /\ h[1 + 1] = R!After(R!Global[3 - 1], h[1])
        /\ h[2 + 1] = R!After(R!Global[3 - 2], h[2])
      BY ONLY <1>1
  <2> QED
      BY ONLY <2>1
<1>4. R!After("SecurityHeaders", b) = b
    BY DEF R!After
<1> QED
    BY <1>1, <1>2, <1>3, <1>4, Zenon

\* A refusal is a status.
LEMMA RefusalType ==
    ASSUME NEW m, NEW rq
    PROVE  R!Refusal(m, rq) \in Nat
BY DEF R!Refusal

\* The first middleware of a group that refuses answers; without one the handler does.
LEMMA Wrapped ==
    ASSUME NEW H, NEW resp \in Responses(H), NEW inner \in Responses(H), NEW rq,
           NEW chain, Len(chain) \in Nat, DOMAIN chain = 1..Len(chain),
           \A i \in DOMAIN chain : chain[i] \notin {"Logger", "Recover"}
    PROVE  /\ (\A i \in DOMAIN chain : R!Refusal(chain[i], rq) = 0) =>
                 R!Wrap(chain, rq, resp, inner) = inner
           /\ \A i \in DOMAIN chain :
                 R!Refusal(chain[i], rq) # 0 /\ (\A j \in 1..i - 1 : R!Refusal(chain[j], rq) = 0) =>
                    R!Wrap(chain, rq, resp, inner) = R!WriteHeader(resp, R!Refusal(chain[i], rq))
<1> PICK refusing : refusing = {i \in DOMAIN chain : R!Refusal(chain[i], rq) # 0}
    OBVIOUS
<1> PICK wrap : wrap = R!Wrap(chain, rq, resp, inner)
    OBVIOUS
<1>1. ASSUME \A i \in DOMAIN chain : R!Refusal(chain[i], rq) = 0 PROVE wrap = inner
  <2>1. refusing = {}
      BY <1>1
  <2>2. wrap = R!Unwind(chain, Len(chain), inner)
      BY <2>1 DEF R!Wrap
  <2> QED
      BY <2>2, Unchanged
<1>2. ASSUME NEW i \in DOMAIN chain, R!Refusal(chain[i], rq) # 0,
             \A j \in 1..i - 1 : R!Refusal(chain[j], rq) = 0
      PROVE  wrap = R!WriteHeader(resp, R!Refusal(chain[i], rq))
  <2>1. refusing \in SUBSET (1..Len(chain)) /\ refusing # {}
      BY <1>2
  <2>2. R!Min(refusing) \in refusing /\ \A j \in refusing : R!Min(refusing) <= j
      BY <2>1, Extremes
  <2>3. R!Min(refusing) = i
    <3> PICK m : m = R!Min(refusing)
        OBVIOUS
    <3>1. m \in DOMAIN chain /\ R!Refusal(chain[m], rq) # 0 /\ m <= i
        BY <1>2, <2>2
    <3>2. ~(m < i)
        BY <1>2, <3>1
    <3> QED
        BY <3>1, <3>2
  <2> PICK core : core = R!WriteHeader(resp, R!Refusal(chain[i], rq))
      OBVIOUS
  <2>4. core \in Responses(H)
      BY HeaderType, RefusalType
  <2>5. i \in Nat /\ i - 1 \in Nat /\ (i - 1) + 1 = i /\ 1..i - 1 \subseteq DOMAIN chain
      BY <1>2
  <2>6. wrap = R!Unwind(chain, i - 1, core)
      BY <2>1, <2>3, <2>5 DEF R!Wrap
  <2>7. R!Unwind(chain, i - 1, core) = core
      BY <2>4, <2>5, Unchanged
  <2> QED
      BY <2>6, <2>7
<1> QED
    BY <1>1, <1>2

\* Who refuses what. OPTIONS is the only method CORS answers.
LEMMA Refusals ==
    ASSUME NEW rq, rq.method # "OPTIONS"
    PROVE  /\ R!Refusal("CORS", rq) = 0 /\ R!Refusal("RequestID", rq) = 0
           /\ R!Refusal("RateLimiter", rq) = IF rq.admitted THEN 0 ELSE 429
           /\ R!Refusal("AuthAPI", rq) = IF R!ParseJWT(rq.bearer) THEN 0 ELSE 401
           /\ R!Refusal("Auth", rq) = IF R!CurrentSessionUser(rq) THEN 0
                                      ELSE IF rq.json THEN 401 ELSE 302
BY DEF R!Refusal

\* A group calls its handler when the request may pass, and otherwise answers what is
\* documented.
LEMMA Guarded ==
    ASSUME NEW H, NEW resp \in Responses(H), NEW inner \in Responses(H),
           NEW rq, rq.method # "OPTIONS",
           NEW chain \in {<<>>, <<"Auth">>, Limited, Private},
           NEW api \in BOOLEAN, api <=> chain \in {Limited, Private},
           NEW needs, needs = Needs(chain),
           NEW pass \in BOOLEAN,
           pass <=> /\ api => rq.admitted
                    /\ needs = "bearer" => R!ParseJWT(rq.bearer)
                    /\ needs = "session" => R!CurrentSessionUser(rq)
    PROVE  /\ pass => R!Wrap(chain, rq, resp, inner) = inner
           /\ ~pass => R!Wrap(chain, rq, resp, inner) =
                 R!WriteHeader(resp, IF api /\ ~rq.admitted THEN 429
                                     ELSE IF needs = "session" /\ ~rq.json THEN 302 ELSE 401)
<1> PICK wrap : wrap = R!Wrap(chain, rq, resp, inner)
    OBVIOUS
<1>1. CASE chain = <<>>
  <2>1. Len(chain) = 0 /\ DOMAIN chain = 1..Len(chain)
      BY <1>1
  <2>2. wrap = inner
      BY <2>1, Wrapped
  <2>3. ~api /\ needs = "none"
      BY <1>1, AllNeeds DEF Limited, Private
  <2> QED
      BY <2>2, <2>3
<1>2. CASE chain = <<"Auth">>
  <2>1. Len(chain) = 1 /\ DOMAIN chain = 1..Len(chain) /\ chain[1] = "Auth"
      BY <1>2
  <2>2. /\ R!Refusal("Auth", rq) = 0 => wrap = inner
        /\ R!Refusal("Auth", rq) # 0 => wrap = R!WriteHeader(resp, R!Refusal("Auth", rq))
    <3>1. DOMAIN chain = {1} /\ \A i \in DOMAIN chain : chain[i] \notin {"Logger", "Recover"}
        BY <2>1
    <3> QED
        BY <2>1, <3>1, Wrapped
  <2>3. ~api /\ needs = "session"
      BY <1>2, AllNeeds DEF Limited, Private
  <2> QED
      BY <2>2, <2>3, Refusals
<1>3. CASE chain = Limited
  <2>1. /\ Len(chain) = 3 /\ DOMAIN chain = 1..Len(chain)
        /\ chain[1] = "CORS" /\ chain[2] = "RateLimiter" /\ chain[3] = "RequestID"
      BY <1>3 DEF Limited
  <2>2. DOMAIN chain = {1, 2, 3} /\ \A i \in DOMAIN chain : chain[i] \notin {"Logger", "Recover"}
      BY <2>1
  <2>3. /\ R!Refusal("RateLimiter", rq) = 0 => wrap = inner
        /\ R!Refusal("RateLimiter", rq) # 0 =>
              wrap = R!WriteHeader(resp, R!Refusal("RateLimiter", rq))
    <3>1. R!Refusal(chain[1], rq) = 0 /\ R!Refusal(chain[3], rq) = 0
        BY <2>1, Refusals
    <3> QED
        BY <2>1, <2>2, <3>1, Wrapped
  <2>4. api /\ needs = "none"
      BY <1>3, AllNeeds
  <2> QED
      BY <2>3, <2>4, Refusals
<1>4. CASE chain = Private
  <2>1. /\ Len(chain) = 4 /\ DOMAIN chain = 1..Len(chain)
        /\ chain[1] = "CORS" /\ chain[2] = "RateLimiter"
        /\ chain[3] = "RequestID" /\ chain[4] = "AuthAPI"
      BY <1>4 DEF Private
  <2>2. DOMAIN chain = {1, 2, 3, 4} /\ \A i \in DOMAIN chain : chain[i] \notin {"Logger", "Recover"}
      BY <2>1
  <2>3. R!Refusal(chain[1], rq) = 0 /\ R!Refusal(chain[3], rq) = 0
      BY <2>1, Refusals
  <2>4. R!Refusal("RateLimiter", rq) = 0 /\ R!Refusal("AuthAPI", rq) = 0 => wrap = inner
      BY <2>1, <2>2, <2>3, Wrapped
  <2>5. R!Refusal("RateLimiter", rq) # 0 => wrap = R!WriteHeader(resp, R!Refusal("RateLimiter", rq))
      BY <2>1, <2>2, <2>3, Wrapped
  <2>6. R!Refusal("RateLimiter", rq) = 0 /\ R!Refusal("AuthAPI", rq) # 0 =>
           wrap = R!WriteHeader(resp, R!Refusal("AuthAPI", rq))
    <3>1. ASSUME R!Refusal("RateLimiter", rq) = 0
          PROVE  \A j \in 1..4 - 1 : R!Refusal(chain[j], rq) = 0
        BY <2>1, <2>3, <3>1
    <3> QED
        BY <2>1, <2>2, <3>1, Wrapped
  <2>7. api /\ needs = "bearer"
      BY <1>4, AllNeeds
  <2> QED
      BY <2>4, <2>5, <2>6, <2>7, Refusals
<1> QED
    BY <1>1, <1>2, <1>3, <1>4

\* What the logger and the outermost middleware make of a response.
LEMMA Reply ==
    ASSUME NEW H, NEW x \in Responses(H), NEW y, y = R!After("Recover", R!After("Logger", x))
    PROVE  /\ y.ran = x.ran /\ ~y.panics
           /\ ~x.panics => y.sent = x.sent /\ y.logged = Append(x.logged, x.captured)
           /\ x.panics => y.sent = (IF x.sent = 0 THEN 500 ELSE x.sent) /\ y.logged = x.logged
<1>1. CASE ~x.panics
  <2>1. R!After("Logger", x) = [x EXCEPT !.logged = Append(@, x.captured)]
      BY <1>1 DEF R!After
  <2> PICK z : z = [x EXCEPT !.logged = Append(@, x.captured)]
      OBVIOUS
  <2>2. /\ z.ran = x.ran /\ z.panics = x.panics /\ z.sent = x.sent
        /\ z.logged = Append(x.logged, x.captured)
      BY DEF Responses
  <2>3. y = z
      BY <1>1, <2>1, <2>2 DEF R!After
  <2> QED
      BY <1>1, <2>2, <2>3
<1>2. CASE x.panics
  <2>1. R!After("Logger", x) = x
      BY <1>2 DEF R!After
  <2> PICK z : z = R!WriteHeader(x, 500)
      OBVIOUS
  <2>2. y = [z EXCEPT !.panics = FALSE]
      BY <1>2, <2>1 DEF R!After
  <2>3. z \in Responses(H)
      BY HeaderType
  <2>4. y.ran = z.ran /\ ~y.panics /\ y.sent = z.sent /\ y.logged = z.logged
      BY <2>2, <2>3 DEF Responses
  <2>5. z.ran = x.ran /\ z.sent = (IF x.sent = 0 THEN 500 ELSE x.sent) /\ z.logged = x.logged
      BY DEF R!WriteHeader, Responses
  <2> QED
      BY <1>2, <2>4, <2>5
<1> QED
    BY <1>1, <1>2

------------------------------------------------------------------------------
(* One request *)

\* The response a request starts with.
Fresh == [sent |-> 0, captured |-> 200, ran |-> R!Empty, panics |-> FALSE, logged |-> <<>>]

\* The fresh response is one.
LEMMA FreshType ==
    ASSUME NEW H, R!Empty \in H
    PROVE  Fresh \in Responses(H)
BY DEF Fresh, Responses

\* A request that is refused is answered and logged with that status.
LEMMA Refused ==
    ASSUME NEW code \in Nat \ {0}, NEW y,
           y = R!After("Recover", R!After("Logger", R!WriteHeader(Fresh, code)))
    PROVE  y.ran = R!Empty /\ ~y.panics /\ y.sent = code /\ y.logged = <<code>>
<1> PICK x : x = R!WriteHeader(Fresh, code)
    OBVIOUS
<1>1. x \in Responses({R!Empty})
    BY FreshType, HeaderType
<1>2. x.ran = R!Empty /\ ~x.panics /\ x.sent = code /\ x.captured = code /\ x.logged = <<>>
    BY DEF R!WriteHeader, Fresh
<1>3. y.ran = x.ran /\ ~y.panics /\ y.sent = x.sent /\ y.logged = Append(x.logged, x.captured)
    BY <1>1, <1>2, Reply
<1> QED
    BY <1>2, <1>3

\* The statuses of the handlers.
LEMMA Statuses ==
    ASSUME NEW handler
    PROVE  R!Success(handler) \in {200, 201, 302}
<1>1. CASE handler \in {"Product.Store", "Api.Register"}
  <2>1. handler \notin {"Auth.Login", "Auth.Logout"}
      BY <1>1
  <2> QED
      BY <1>1, <2>1 DEF R!Success
<1>2. CASE handler \in {"Auth.Login", "Auth.Logout"}
  <2>1. handler \notin {"Product.Store", "Api.Register"}
      BY <1>2
  <2> QED
      BY <1>2, <2>1 DEF R!Success
<1>3. CASE /\ handler \notin {"Product.Store", "Api.Register"}
           /\ handler \notin {"Auth.Login", "Auth.Logout"}
    BY <1>3 DEF R!Success
<1> QED
    BY <1>1, <1>2, <1>3

\* Handle keeps the type of a response.
LEMMA HandleType ==
    ASSUME NEW H, R!Empty \in H, NEW handler \in H,
           NEW outcome \in {"answers", "panics", "panicsLate"}
    PROVE  R!Handle(Fresh, handler, outcome) \in Responses(H)
<1> PICK code : code = R!Success(handler)
    OBVIOUS
<1>0. code \in {200, 201, 302}
    BY Statuses, Zenon
<1>1. code \in Nat
    BY ONLY <1>0
<1> PICK x : x = R!Handle(Fresh, handler, outcome)
    OBVIOUS
<1> PICK w : w = [Fresh EXCEPT !.ran = handler]
    OBVIOUS
<1>2. w \in Responses(H)
    BY FreshType DEF Responses
<1> PICK s : s = R!WriteHeader(w, code)
    OBVIOUS
<1>3. s \in Responses(H)
    BY <1>1, <1>2, HeaderType
<1>4. [s EXCEPT !.panics = TRUE] \in Responses(H)
    BY ONLY <1>3 DEF Responses
<1>5. [Fresh EXCEPT !.ran = handler, !.panics = TRUE] \in Responses(H)
  <2>1. Fresh \in Responses(H)
      BY FreshType
  <2> QED
      BY ONLY <2>1, handler \in H DEF Responses
<1>6. x \in {s, [s EXCEPT !.panics = TRUE], [Fresh EXCEPT !.ran = handler, !.panics = TRUE]}
    BY DEF R!Handle
<1> QED
    BY <1>3, <1>4, <1>5, <1>6

\* A request whose handler runs is answered by it, or by Recover if it panics before it
\* writes; it is logged unless it panics.
LEMMA Handled ==
    ASSUME NEW handler, NEW outcome \in {"answers", "panics", "panicsLate"}, NEW y,
           y = R!After("Recover", R!After("Logger", R!Handle(Fresh, handler, outcome)))
    PROVE  /\ y.ran = handler /\ ~y.panics
           /\ y.sent = IF outcome = "panics" THEN 500 ELSE R!Success(handler)
           /\ y.logged = IF outcome # "answers" THEN <<>> ELSE <<y.sent>>
<1> PICK x : x = R!Handle(Fresh, handler, outcome)
    OBVIOUS
<1> PICK code : code = R!Success(handler)
    OBVIOUS
<1>status. code \in {200, 201, 302}
    BY Statuses, Zenon
<1>0. code \in Nat \ {0}
    BY ONLY <1>status
<1>1. x \in Responses({R!Empty, handler})
    BY HandleType
<1>2. /\ x.ran = handler /\ x.logged = <<>> /\ (x.panics <=> outcome # "answers")
      /\ x.sent = IF outcome = "panics" THEN 0 ELSE code
      /\ outcome = "answers" => x.captured = code
  <2> PICK w : w = R!WriteHeader([Fresh EXCEPT !.ran = handler], code)
      OBVIOUS
  <2>1. w = [sent |-> code, captured |-> code, ran |-> handler,
             panics |-> FALSE, logged |-> <<>>]
      BY DEF R!WriteHeader, Fresh
  <2>2. CASE outcome = "answers"
    <3>1. x = w
        BY <2>2 DEF R!Handle
    <3> QED
        BY <2>1, <2>2, <3>1
  <2>3. CASE outcome = "panics"
    <3>1. x = [Fresh EXCEPT !.ran = handler, !.panics = TRUE]
        BY <2>3 DEF R!Handle
    <3> QED
        BY <2>3, <3>1 DEF Fresh
  <2>4. CASE outcome = "panicsLate"
    <3>1. x = [w EXCEPT !.panics = TRUE]
        BY <2>4 DEF R!Handle
    <3>2. x.ran = w.ran /\ x.logged = w.logged /\ x.panics = TRUE /\ x.sent = w.sent
        BY ONLY <2>1, <3>1
    <3>3. w.ran = handler /\ w.logged = <<>> /\ w.sent = code
        BY ONLY <2>1
    <3> QED
        BY <2>4, <3>2, <3>3
  <2> QED
      BY <2>2, <2>3, <2>4
<1>3. /\ y.ran = x.ran /\ ~y.panics
      /\ ~x.panics => y.sent = x.sent /\ y.logged = Append(x.logged, x.captured)
      /\ x.panics => y.sent = (IF x.sent = 0 THEN 500 ELSE x.sent) /\ y.logged = x.logged
  <2>1. y = R!After("Recover", R!After("Logger", x))
      OBVIOUS
  <2> QED
      BY ONLY <1>1, <2>1, Reply
<1>4. /\ y.ran = handler /\ ~y.panics
      /\ y.sent = IF outcome = "panics" THEN 500 ELSE code
      /\ y.logged = IF outcome # "answers" THEN <<>> ELSE <<y.sent>>
  <2>1. CASE outcome = "answers"
      BY ONLY <1>0, <1>2, <1>3, <2>1
  <2>2. CASE outcome # "answers"
      BY ONLY <1>0, <1>2, <1>3, <2>2
  <2> QED
      BY <2>1, <2>2
<1> QED
    BY <1>4, Zenon

\* A request passes the global middleware, which refuse nothing.
LEMMA Served ==
    ASSUME NEW conf, NEW rq, NEW H, NEW inner \in Responses(H),
           inner = R!handleContext(R!RegisterRoutes(R!Connects(conf)), rq, Fresh)
    PROVE  R!Serve(conf, rq) = R!After("Recover", R!After("Logger", inner))
<1>1. R!Serve(conf, rq) = R!Wrap(R!Global, rq, Fresh, inner)
    BY Zenon DEF R!Serve, Fresh
<1>2. /\ Len(R!Global) = 3 /\ DOMAIN R!Global = {1, 2, 3}
      /\ R!Global[1] = "Recover" /\ R!Global[2] = "Logger" /\ R!Global[3] = "SecurityHeaders"
    BY DEF R!Global
<1>3. /\ R!Refusal("Recover", rq) = 0 /\ R!Refusal("Logger", rq) = 0
      /\ R!Refusal("SecurityHeaders", rq) = 0
    BY DEF R!Refusal
<1>4. {i \in DOMAIN R!Global : R!Refusal(R!Global[i], rq) # 0} = {}
    BY <1>2, <1>3
<1>5. R!Wrap(R!Global, rq, Fresh, inner) = R!Unwind(R!Global, 3, inner)
    BY <1>2, <1>4 DEF R!Wrap
<1> QED
    BY <1>1, <1>5, Outermost

\* A server has a database when it has a host, or SQLite by a plain driver or with a
\* file, and the ping is answered.
LEMMA Connected ==
    ASSUME NEW conf \in R!Configurations
    PROVE  R!Connects(conf) = R!HasDatabase(conf)
<1>1. conf.driver.name \in {"sqlite", "sqlite3"} => conf.driver # R!Unset
  <2>1. R!Empty \notin {"sqlite", "sqlite3"}
      BY Zenon DEF R!Empty
  <2>2. R!Unset.name = R!Empty
      BY DEF R!Unset
  <2> QED
      BY <2>1, <2>2
<1>2. R!GetDialect(conf.driver) = "sqlite" <=> conf.driver.name \in {"sqlite", "sqlite3"}
    BY DEF R!GetDialect
<1>3. /\ conf.host \in BOOLEAN /\ conf.file \in BOOLEAN /\ conf.up \in BOOLEAN
      /\ conf.driver.plain \in BOOLEAN
    BY DEF R!Configurations, R!Drivers
<1> QED
    BY <1>1, <1>2, <1>3 DEF R!Connects, R!HasDatabase

\* The credentials an operation asks for are those its middleware accepts.
LEMMA Accepted ==
    ASSUME NEW rq \in R!Requests, NEW needs
    PROVE  R!Credentials(needs, rq) <=> /\ needs = "bearer" => R!ParseJWT(rq.bearer)
                                        /\ needs = "session" => R!CurrentSessionUser(rq)
<1>1. rq.bearer \in R!Tokens /\ rq.session \in R!Tokens
    BY DEF R!Requests
<1> QED
    BY <1>1, SMTT(30) DEF R!Credentials, R!ParseJWT, R!CurrentSessionUser, R!Tokens

\* Every request is answered as documented: no route fits, or the one of the files, or one
\* of the catalogue, whose group lets the request pass or refuses it.
LEMMA Answered ==
    ASSUME NEW conf \in R!Configurations, NEW rq \in R!Requests
    PROVE  R!RoutedAsDocumented(conf, rq, R!Serve(conf, rq))
<1>db. PICK db : db = R!HasDatabase(conf)
    OBVIOUS
<1>here. PICK here : here = R!Promises(rq.path, db)
    OBVIOUS
<1>mine. PICK mine : mine = {p \in here : p[1] = rq.method}
    OBVIOUS
<1>file. PICK file : file = (rq.path[1] \in PublicLike)
    OBVIOUS
<1>api. PICK api : api = (\E p \in mine : p[2] # <<>> /\ p[2][1] = "api")
    OBVIOUS
<1>needs. PICK needs : needs = IF mine = {} THEN "none" ELSE (CHOOSE p \in mine : TRUE)[3]
    OBVIOUS
<1>promised. PICK promised : promised = (CHOOSE p \in mine : TRUE)[4]
    OBVIOUS
<1>pass. PICK pass : pass = (/\ api => rq.admitted
                             /\ needs = "bearer" => R!ParseJWT(rq.bearer)
                             /\ needs = "session" => R!CurrentSessionUser(rq))
    OBVIOUS
<1>runs. PICK runs : runs = ((file /\ rq.method = "GET") \/ (mine # {} /\ pass))
    OBVIOUS
<1>1. /\ db \in BOOLEAN /\ file \in BOOLEAN /\ api \in BOOLEAN
      /\ pass \in BOOLEAN /\ runs \in BOOLEAN
    BY <1>db, <1>file, <1>api, <1>pass, <1>runs DEF R!HasDatabase
<1>2. /\ rq.path \in Seq(STRING) /\ rq.path # <<>>
      /\ rq.outcome \in {"answers", "panics", "panicsLate"}
    BY DEF R!Requests
<1>m. PICK m : m = R!match(R!RegisterRoutes(db), rq.method, rq.path)
    OBVIOUS
<1>inner. PICK inner : inner = R!handleContext(R!RegisterRoutes(db), rq, Fresh)
    OBVIOUS
<1>y. PICK y : y = R!After("Recover", R!After("Logger", inner))
    OBVIOUS
<1>handled. PICK handled : handled = R!Handle(Fresh, m.route.handler, rq.outcome)
    OBVIOUS
<1>3. /\ file => /\ here = {} /\ mine = {} /\ m.pathExists
                 /\ (m.found <=> rq.method = "GET") /\ (m.found => m.route = Files)
      /\ ~file => /\ (m.pathExists <=> here # {}) /\ (m.found <=> mine # {})
                  /\ m.found => m.route \in Named /\ mine = {Listed(m.route)}
  <2>1. /\ rq.path[1] \in PublicLike =>
             /\ here = {} /\ mine = {} /\ m.pathExists
             /\ (m.found <=> rq.method = "GET") /\ (m.found => m.route = Files)
        /\ rq.path[1] \notin PublicLike =>
             /\ (m.pathExists <=> here # {}) /\ (m.found <=> mine # {})
             /\ m.found => m.route \in Named /\ mine = {Listed(m.route)}
    <3>path. PICK path : path = rq.path
        OBVIOUS
    <3>method. PICK method : method = rq.method
        OBVIOUS
    <3>1. /\ path \in Seq(STRING) /\ path # <<>> /\ db \in BOOLEAN
          /\ here = R!Promises(path, db) /\ mine = {p \in here : p[1] = method}
          /\ m = R!match(R!RegisterRoutes(db), method, path)
        BY <1>1, <1>2, <1>here, <1>mine, <1>m, <3>path, <3>method
    <3>2. Finds(m, method, path, here, mine)
        BY <3>1, MatchFinds, Zenon
    <3> QED
        BY <3>2, <3>path, <3>method, Zenon DEF Finds
  <2> QED
      BY <1>file, <2>1, Zenon
<1>4. /\ ~m.found => inner = R!WriteHeader(Fresh, IF m.pathExists THEN 405 ELSE 404)
      /\ m.found => inner = R!Wrap(m.route.mw, rq, Fresh, handled)
    BY <1>m, <1>inner, <1>handled, ZenonT(30) DEF R!handleContext
<1> DEFINE Right == /\ (y.ran # R!Empty) <=> runs
                    /\ ~y.panics
                    /\ y.logged = IF runs /\ rq.outcome # "answers" THEN <<>> ELSE <<y.sent>>
                    /\ y.sent =
                          IF runs THEN IF rq.outcome = "panics" THEN 500
                                       ELSE IF file THEN 200
                                       ELSE IF y.ran = "Api.Register" THEN 201
                                       ELSE promised
                          ELSE IF file THEN 405
                          ELSE IF here = {} THEN 404
                          ELSE IF mine = {} THEN 405
                          ELSE IF api /\ ~rq.admitted THEN 429
                          ELSE IF needs = "session" /\ ~rq.json THEN 302 ELSE 401
           H == {R!Empty, m.route.handler}
<1>5. /\ ~m.found => inner \in Responses(H)
      /\ handled \in Responses(H)
  <2>1. Fresh \in Responses(H)
      BY FreshType, Zenon
  <2>code. PICK code : code = IF m.pathExists THEN 405 ELSE 404
      OBVIOUS
  <2>2. code \in Nat
      BY <2>code
  <2>3. ASSUME ~m.found PROVE inner \in Responses(H)
    <3>1. inner = R!WriteHeader(Fresh, code)
        BY <1>4, <2>3, <2>code, Zenon
    <3>2. R!WriteHeader(Fresh, code) \in Responses(H)
        BY ONLY <2>1, <2>2, HeaderType
    <3> QED
        BY <3>1, <3>2, Zenon
  <2>4. handled \in Responses(H)
      BY <1>2, <1>handled, HandleType, Zenon
  <2> QED
      BY <2>3, <2>4, Zenon
<1> HIDE DEF H
<1>6. ASSUME ~m.found PROVE inner \in Responses(H) /\ Right
  <2>code. PICK code : code = IF m.pathExists THEN 405 ELSE 404
      OBVIOUS
  <2>1. y.ran = R!Empty /\ ~y.panics /\ y.sent = code /\ y.logged = <<code>>
    <3>1. code \in Nat \ {0}
        BY <2>code
    <3> QED
        BY <1>4, <1>6, <1>y, <2>code, <3>1, Refused
  <2>2. ~runs /\ code = IF file THEN 405 ELSE IF here = {} THEN 404 ELSE 405
    <3>1. ASSUME file PROVE ~runs /\ code = 405
      <4>1. mine = {} /\ m.pathExists /\ rq.method # "GET"
          BY <1>3, <1>6, <3>1, Zenon
      <4> QED
          BY <1>runs, <2>code, <4>1, Zenon
    <3>2. ASSUME ~file PROVE ~runs /\ code = IF here = {} THEN 404 ELSE 405
      <4>1. mine = {} /\ (m.pathExists <=> here # {})
          BY <1>3, <1>6, <3>2, Zenon
      <4>2. ~runs
          BY <1>runs, <3>2, <4>1, Zenon
      <4> QED
          BY ONLY <2>code, <4>1, <4>2
    <3> QED
        BY <1>1, <3>1, <3>2, Zenon
  <2>3. ~file /\ here # {} => mine = {}
      BY <1>3, <1>6
  <2>4. Right
      BY ONLY <2>1, <2>2, <2>3
  <2> QED
      BY <1>5, <1>6, <2>4, Zenon
<1>7. ASSUME m.found, file PROVE inner \in Responses(H) /\ Right
  <2>1. m.route = Files /\ rq.method = "GET"
      BY <1>3, <1>7
  <2>2. m.route.mw = <<>> /\ m.route.handler = "files"
      BY <2>1 DEF Files
  <2>3. inner = handled
    <3>1. Len(<<>>) = 0 /\ DOMAIN <<>> = 1..0
        OBVIOUS
    <3>2. Fresh \in Responses(H)
        BY FreshType DEF H
    <3> QED
        BY <1>4, <1>5, <1>7, <2>2, <3>1, <3>2, Wrapped
  <2>4. "files" # R!Empty
      BY Zenon DEF R!Empty
  <2>5. R!Success("files") = 200
      BY DEF R!Success
  <2>6. /\ y.ran = "files" /\ ~y.panics
        /\ y.sent = IF rq.outcome = "panics" THEN 500 ELSE 200
        /\ y.logged = IF rq.outcome # "answers" THEN <<>> ELSE <<y.sent>>
    <3>1. y = R!After("Recover", R!After("Logger", R!Handle(Fresh, "files", rq.outcome)))
        BY <1>y, <1>handled, <2>2, <2>3, Zenon
    <3>2. rq.outcome \in {"answers", "panics", "panicsLate"}
        BY <1>2, Zenon
    <3> QED
        BY ONLY <2>5, <3>1, <3>2, Handled
  <2>7. runs
      BY <1>7, <1>runs, <2>1
  <2> QED
      BY <1>5, <1>7, <2>3, <2>4, <2>6, <2>7
<1>8. ASSUME m.found, ~file PROVE inner \in Responses(H) /\ Right
  <2>e. PICK e : e = m.route
      OBVIOUS
  <2>1. e \in Named /\ mine = {Listed(e)} /\ here # {} /\ mine # {} /\ e.method = rq.method
    <3>1. e \in Named /\ mine = {Listed(e)} /\ mine # {}
        BY <1>3, <1>8, <2>e
    <3>2. Listed(e)[1] = e.method
        BY DEF Listed
    <3> QED
        BY <1>mine, <3>1, <3>2
  <2>2. Listed(e)[2] = e.segments /\ Listed(e)[3] = Needs(e.mw) /\ Listed(e)[4] = Answers(e.handler)
      BY DEF Listed
  <2>3. needs = Needs(e.mw) /\ promised = Answers(e.handler)
    <3>1. (CHOOSE p \in mine : TRUE) = Listed(e)
        BY <2>1
    <3> QED
        BY <1>needs, <1>promised, <2>1, <2>2, <3>1
  <2>4. /\ e.method # "OPTIONS" /\ e.handler # R!Empty
        /\ e.mw \in {<<>>, <<"Auth">>, Limited, Private}
        /\ \/ e.mw \in {<<>>, <<"Auth">>} /\ (e.segments # <<>> => e.segments[1] # "api")
           \/ e.mw \in {Limited, Private} /\ e.segments # <<>> /\ e.segments[1] = "api"
      BY <2>1, RouteKinds
  <2>5. api <=> e.mw \in {Limited, Private}
    <3>1. api <=> e.segments # <<>> /\ e.segments[1] = "api"
        BY <1>api, <2>1, <2>2
    <3>2. \A c \in {<<>>, <<"Auth">>} : c \notin {Limited, Private}
        BY DEF Limited, Private
    <3> QED
        BY <2>4, <3>1, <3>2, Zenon
  <2>6. runs <=> pass
      BY <1>1, <1>8, <1>runs, <2>1
  <2>code. PICK code : code = IF api /\ ~rq.admitted THEN 429
                             ELSE IF needs = "session" /\ ~rq.json THEN 302 ELSE 401
      OBVIOUS
  <2>7. /\ pass => inner = handled
        /\ ~pass => inner = R!WriteHeader(Fresh, code)
    <3>1. Fresh \in Responses(H)
        BY FreshType DEF H
    <3>2. rq.method # "OPTIONS"
        BY <2>1, <2>4
    <3>3. inner = R!Wrap(e.mw, rq, Fresh, handled)
        BY <1>4, <1>8, <2>e
    <3> QED
      <4>1. pass <=> /\ api => rq.admitted
                     /\ needs = "bearer" => R!ParseJWT(rq.bearer)
                     /\ needs = "session" => R!CurrentSessionUser(rq)
          BY <1>pass
      <4>2. pass \in BOOLEAN /\ api \in BOOLEAN /\ handled \in Responses(H)
          BY <1>1, <1>5, Zenon
      <4>3. /\ pass => R!Wrap(e.mw, rq, Fresh, handled) = handled
            /\ ~pass => R!Wrap(e.mw, rq, Fresh, handled) =
                    R!WriteHeader(Fresh, IF api /\ ~rq.admitted THEN 429
                                         ELSE IF needs = "session" /\ ~rq.json THEN 302 ELSE 401)
          BY ONLY <2>3, <2>4, <2>5, <3>1, <3>2, <4>1, <4>2, Guarded
      <4> QED
          BY <2>code, <3>3, <4>3, Zenon
  <2>8. ASSUME pass PROVE inner \in Responses(H) /\ Right
    <3>1. /\ y.ran = e.handler /\ ~y.panics
          /\ y.sent = IF rq.outcome = "panics" THEN 500 ELSE R!Success(e.handler)
          /\ y.logged = IF rq.outcome # "answers" THEN <<>> ELSE <<y.sent>>
      <4>1. y = R!After("Recover", R!After("Logger", R!Handle(Fresh, e.handler, rq.outcome)))
          BY <1>y, <1>handled, <2>e, <2>7, <2>8, Zenon
      <4>2. rq.outcome \in {"answers", "panics", "panicsLate"}
          BY <1>2, Zenon
      <4> QED
          BY ONLY <4>1, <4>2, Handled, SMTT(30)
    <3>2. R!Success(e.handler) = IF y.ran = "Api.Register" THEN 201 ELSE promised
      <4>1. R!Success("Api.Register") = 201
          BY DEF R!Success
      <4>2. e.handler # "Api.Register" => promised = R!Success(e.handler)
          BY <2>3, Zenon DEF Answers
      <4>3. y.ran = e.handler
          BY <3>1, Zenon
      <4> QED
          BY <4>1, <4>2, <4>3, Zenon
    <3> QED
        BY <1>5, <1>8, <2>4, <2>6, <2>7, <2>8, <3>1, <3>2
  <2>9. ASSUME ~pass PROVE inner \in Responses(H) /\ Right
    <3>1. code \in Nat \ {0}
        BY <2>code
    <3>2. Fresh \in Responses(H)
        BY FreshType DEF H
    <3>3. inner \in Responses(H)
        BY <2>7, <2>9, <3>1, <3>2, HeaderType
    <3>4. y.ran = R!Empty /\ ~y.panics /\ y.sent = code /\ y.logged = <<code>>
        BY <1>y, <2>7, <2>9, <3>1, Refused
    <3> QED
      <4>1. ~runs /\ here # {} /\ mine # {} /\ ~file
          BY <1>8, <2>1, <2>6, <2>9, Zenon
      <4>2. Right
          BY ONLY <2>code, <3>4, <4>1, SMTT(30)
      <4> QED
          BY <3>3, <4>2, Zenon
  <2> QED
      BY <1>1, <2>8, <2>9
<1>9. inner \in Responses(H) /\ Right
    BY <1>6, <1>7, <1>8
<1>10. R!Serve(conf, rq) = y
  <2>1. R!Connects(conf) = db
      BY <1>db, Connected, SMTT(30)
  <2> QED
      BY <1>9, <1>inner, <1>y, <2>1, Served
<1>11. R!RoutedAsDocumented(conf, rq, y)
  <2>1. /\ here = R!Promises(rq.path, R!HasDatabase(conf))
        /\ mine = {p \in here : p[1] = rq.method}
        /\ (file <=> rq.path[1] \in PublicLike)
        /\ (api <=> \E p \in mine : p[2] # <<>> /\ p[2][1] = "api")
        /\ needs = IF mine = {} THEN "none" ELSE (CHOOSE p \in mine : TRUE)[3]
        /\ promised = (CHOOSE p \in mine : TRUE)[4]
        /\ (runs <=> (file /\ rq.method = "GET") \/ (mine # {} /\ pass))
      BY <1>db, <1>here, <1>mine, <1>file, <1>api, <1>needs, <1>promised, <1>runs
  <2>2. pass <=> (api => rq.admitted) /\ R!Credentials(needs, rq)
      BY <1>pass, Accepted
  <2> QED
      BY ONLY <1>1, <1>9, <2>1, <2>2, SMTT(60) DEF R!RoutedAsDocumented
<1> QED
    BY <1>10, <1>11, Zenon

\* Whatever the configuration, the path, the tokens and the outcome, a request gets the
\* answer the documents promise, the exceptions of RoutedAsDocumented aside.
THEOREM RequestsRouted == Spec => []Routed
<1>1. Init => Routed
    BY DEF Init, Routed, Called
<1>2. Routed /\ [Next]_<<call, result>> => Routed'
  <2> SUFFICES ASSUME Routed, [Next]_<<call, result>> PROVE Routed'
      OBVIOUS
  <2>1. CASE Visit
    <3>1. PICK v \in Visits : call = None /\ Calling("route", v, R!Serve(v.conf, v.rq))
        BY <2>1 DEF Visit
    <3>2. v.conf \in R!Configurations /\ v.rq \in R!Requests
        BY CallsAssumption DEF CallsAssumption
    <3>3. R!RoutedAsDocumented(v.conf, v.rq, R!Serve(v.conf, v.rq))
        BY <3>2, Answered, Zenon
    <3>4. call'.args = v /\ result' = R!Serve(v.conf, v.rq)
        BY <3>1 DEF Calling
    <3>5. R!RoutedAsDocumented(call'.args.conf, call'.args.rq, result')
        BY <3>3, <3>4, Zenon
    <3> QED
        BY <3>5, Zenon DEF Routed
  <2>2. CASE Query \/ Spell \/ Trade
    <3>1. call'.part # "route"
        BY <2>2 DEF Query, Spell, Trade, Calling
    <3> QED
        BY <3>1 DEF Routed, Called
  <2>3. CASE UNCHANGED <<call, result>>
    <3>1. call' = call /\ result' = result
        BY <2>3
    <3> QED
        BY <3>1, Zenon DEF Routed, Called
  <2> QED
      BY <2>1, <2>2, <2>3 DEF Next
<1> QED
    BY <1>1, <1>2, PTL DEF Spec

------------------------------------------------------------------------------
(* Products *)

\* The price of a form is an integer.
LEMMA PriceType ==
    ASSUME NEW rq \in P!Forms
    PROVE  /\ P!Price(rq) \in Int /\ rq.json \in BOOLEAN
           /\ rq.name \in [len : Nat, blank : BOOLEAN, number : BOOLEAN]
BY DEF P!Forms, P!Price

\* What a column gives back of a price; a price that has been read from a column is
\* not rounded again.
LEMMA ReadBack ==
    ASSUME NEW column \in {"decimal", "numeric", "real"}, NEW price \in Int
    PROVE  LET back == P!setField(P!Column(column, price))
           IN  /\ back \in Int
               /\ column = "real" => back = price
               /\ column = "numeric" => back = IF price % 1000 = 0 THEN 0 ELSE price
               /\ column = "decimal" => /\ back - price \in -5..5 /\ back % 10 = 0
                                        /\ price % 10 = 0 => back = price
<1>1. CASE column = "real"
    BY <1>1 DEF P!setField, P!Column
<1>2. CASE column = "numeric"
    BY <1>2 DEF P!setField, P!Column
<1>3. CASE column = "decimal"
    BY <1>3 DEF P!setField, P!Column
<1> QED
    BY <1>1, <1>2, <1>3

\* Find changes the price of a row only.
LEMMA FindRow ==
    ASSUME NEW column, NEW name, NEW price
    PROVE  P!Find(column, [name |-> name, price |-> price])
               = [name |-> name, price |-> P!setField(P!Column(column, price))]
BY DEF P!Find

\* What a trade gives: nothing if the store is refused; otherwise the column decides.
LEMMA TradeKeeps ==
    ASSUME NEW t \in P!Exchanges
    PROVE  P!KeepsWhatWasSent(t, P!Trade(t))
<1>1. t.store \in P!Forms /\ t.update \in P!Forms /\ t.column \in {"decimal", "numeric", "real"}
    BY DEF P!Exchanges
<1> PICK s : s = P!Price(t.store)
    OBVIOUS
<1> PICK u : u = P!Price(t.update)
    OBVIOUS
<1> PICK read : read = P!setField(P!Column(t.column, s))
    OBVIOUS
<1>2. /\ s \in Int /\ u \in Int
      /\ t.store.json \in BOOLEAN /\ t.update.json \in BOOLEAN
      /\ t.update.name \in [len : Nat, blank : BOOLEAN, number : BOOLEAN]
    BY <1>1, PriceType
<1> DEFINE bad == P!Malformed(t.update)
           stored == ~P!Malformed(t.store) /\ P!Required(t.store.name)
           name  == IF ~bad /\ t.update.name.len > 0 THEN t.update.name ELSE t.store.name
           price == IF bad THEN s ELSE IF u > 0 THEN u ELSE read
           sent  == IF ~bad /\ u > 0 THEN u ELSE s
<1>3. read \in Int /\ price \in Int
    BY <1>1, <1>2, ReadBack
<1>4. P!Store(t.store) = IF P!Malformed(t.store) THEN [status |-> 400]
                         ELSE IF ~P!Required(t.store.name) THEN [status |-> 422]
                         ELSE [status |-> 201, row |-> [name |-> t.store.name, price |-> s]]
    BY DEF P!Store, P!Required, P!Numeric, P!Text
<1>5. CASE ~stored
  <2>1. P!Trade(t).status # 201
      BY <1>4, <1>5 DEF P!Trade
  <2> QED
      BY <1>5, <2>1 DEF P!KeepsWhatWasSent
<1>6. CASE stored
  <2>1. P!Store(t.store) = [status |-> 201, row |-> [name |-> t.store.name, price |-> s]]
      BY <1>4, <1>6
  <2>2. P!Update(t.column, [name |-> t.store.name, price |-> s], t.update).row
            = [name |-> name, price |-> price]
    <3>1. P!Find(t.column, [name |-> t.store.name, price |-> s])
              = [name |-> t.store.name, price |-> read]
        BY FindRow
    <3>2. CASE bad
        BY <3>2 DEF P!Update
    <3>3. CASE ~bad
        BY <3>1, <3>3 DEF P!Update
    <3> QED
        BY <3>2, <3>3
  <2>3. /\ P!Trade(t).status = 201
        /\ P!Trade(t).found = [name |-> name,
                               price |-> P!setField(P!Column(t.column, price))]
      BY <2>1, <2>2, FindRow DEF P!Trade
  <2> PICK found : found = P!setField(P!Column(t.column, price))
      OBVIOUS
  <2>4. CASE t.column = "real"
    <3>1. found = price /\ read = s
        BY <1>2, <1>3, <2>4, ReadBack
    <3> QED
        BY <1>2, <1>6, <2>3, <2>4, <3>1 DEF P!KeepsWhatWasSent
  <2>5. CASE t.column = "numeric"
    <3>1. /\ found = IF price % 1000 = 0 THEN 0 ELSE price
          /\ read = IF s % 1000 = 0 THEN 0 ELSE s
        BY <1>2, <1>3, <2>5, ReadBack
    <3>2. found = IF sent % 1000 = 0 THEN 0 ELSE sent
        BY <1>2, <3>1
    <3> QED
        BY <1>2, <1>6, <2>3, <2>5, <3>2 DEF P!KeepsWhatWasSent
  <2>6. CASE t.column = "decimal"
    <3>1. /\ found \in Int /\ found - price \in -5..5
          /\ price % 10 = 0 => found = price
        BY <1>3, <2>6, ReadBack
    <3>2. read \in Int /\ read - s \in -5..5 /\ read % 10 = 0
        BY <1>2, <2>6, ReadBack
    <3>3. price # sent => price = read /\ sent = s
        OBVIOUS
    <3>4. found - sent \in -5..5
        BY <1>2, <3>1, <3>3, <3>2
    <3> QED
        BY <1>2, <1>6, <2>3, <2>6, <3>4 DEF P!KeepsWhatWasSent
  <2> QED
      BY <1>1, <2>4, <2>5, <2>6
<1> QED
    BY <1>5, <1>6

\* A product is read with the name and the price it was stored and updated with, the
\* exceptions of KeepsWhatWasSent aside, for prices and names of any size.
THEOREM ProductsKept == Spec => []Kept
<1>1. Init => Kept
    BY DEF Init, Kept, Called
<1>2. Kept /\ [Next]_<<call, result>> => Kept'
  <2> SUFFICES ASSUME Kept, [Next]_<<call, result>> PROVE Kept'
      OBVIOUS
  <2>1. CASE Visit \/ Query \/ Spell
      BY <2>1 DEF Visit, Query, Spell, Calling, Kept, Called
  <2>2. CASE Trade
      BY <2>2, TradeKeeps, CallsAssumption DEF Trade, Calling, Kept, Called
  <2>3. CASE UNCHANGED <<call, result>>
      BY <2>3 DEF Kept, Called
  <2> QED
      BY <2>1, <2>2, <2>3 DEF Next
<1> QED
    BY <1>1, <1>2, PTL DEF Spec
------------------------------------------------------------------------------
(* Words *)

FollowsTo(n, f, b, g) == f[0] = b /\ \A k \in 1..n : f[k] = g[k][f[k - 1]]

\* The same for numbers up to n.
LEMMA Steps ==
    ASSUME NEW S, NEW b \in S, NEW n \in Nat, NEW g \in [1..n -> [S -> S]]
    PROVE  \E f \in [0..n -> S] : FollowsTo(n, f, b, g)
<1>h. PICK h : h = [k \in Nat |-> [x \in S |-> IF k < n THEN g[k + 1][x] ELSE x]]
    OBVIOUS
<1>1. h \in [Nat -> [S -> S]]
    BY <1>h
<1>r. PICK f \in [Nat -> S] : Follows(f, b, h)
    BY <1>1, Recursion, Zenon
<1>2. f[0] = b /\ \A k \in Nat : f[k + 1] = h[k][f[k]]
    BY <1>r DEF Follows
<1> DEFINE r == [k \in 0..n |-> f[k]]
<1>3. r \in [0..n -> S] /\ r[0] = b
    BY <1>r, <1>2
<1>4. ASSUME NEW k \in 1..n PROVE r[k] = g[k][r[k - 1]]
  <2>1. k - 1 \in Nat /\ k - 1 < n /\ (k - 1) + 1 = k
      OBVIOUS
  <2>2. f[k] = h[k - 1][f[k - 1]]
      BY <1>2, <2>1
  <2>3. h[k - 1][f[k - 1]] = g[k][f[k - 1]]
      BY <1>h, <1>r, <2>1
  <2> QED
      BY <2>1, <2>2, <2>3
<1> QED
    BY <1>3, <1>4 DEF FollowsTo

Vocabulary == [role : {"number", "tens", "hundred", "thousand", "lakh", "crore", "scale",
                       "panic", "zero"},
               n : Nat]
\* The state of a reader after every word.
Hears(h, s, words) ==
    /\ h[0] = s
    /\ \A k \in 1..Len(words) : h[k] = W!Hear(h[k - 1], words[k])

States == [sum : Nat, part : Nat, at : [1..W!Scales + 1 -> Nat]]

\* A reader stays a reader.
LEMMA HearType ==
    ASSUME NEW s \in States, NEW w \in Vocabulary
    PROVE  W!Hear(s, w) \in States
<1>1. CASE w.role = "scale"
  <2>1. [s.at EXCEPT ![w.n + 1] = s.sum + s.part] \in [1..W!Scales + 1 -> Nat]
    <3>1. s.at \in [1..W!Scales + 1 -> Nat] /\ s.sum + s.part \in Nat
        BY DEF States
    <3>2. ASSUME NEW D, NEW at \in [D -> Nat], NEW i, NEW x \in Nat
          PROVE  [at EXCEPT ![i] = x] \in [D -> Nat]
        OBVIOUS
    <3> QED
        BY <3>1, <3>2, Zenon
  <2>2. W!Hear(s, w) = [sum |-> 0, part |-> 0, at |-> [s.at EXCEPT ![w.n + 1] = s.sum + s.part]]
      BY <1>1 DEF W!Hear
  <2> QED
      BY <2>1, <2>2 DEF States
<1>2. CASE w.role # "scale"
  <2>1. w.n \in Nat
      BY DEF Vocabulary
  <2>2. s.sum \in Nat /\ s.part \in Nat
      BY DEF States
  <2>3. ASSUME NEW x \in Nat PROVE /\ [s EXCEPT !.part = x] \in States
                                   /\ [sum |-> x, part |-> 0, at |-> s.at] \in States
      BY DEF States
  <2>4. CASE w.role = "number"
    <3>1. W!Hear(s, w) = [s EXCEPT !.part = s.part + w.n]
        BY <2>4 DEF W!Hear
    <3>2. s.part + w.n \in Nat
        BY <2>1, <2>2
    <3> QED
        BY <2>3, <3>1, <3>2
  <2>5. CASE w.role = "tens"
    <3>1. W!Hear(s, w) = [s EXCEPT !.part = s.part + 10 * w.n]
        BY <2>5 DEF W!Hear
    <3>2. s.part + 10 * w.n \in Nat
        BY <2>1, <2>2
    <3> QED
        BY <2>3, <3>1, <3>2
  <2>6. CASE w.role = "hundred"
    <3>x. PICK x : x = s.sum + s.part * 100
        OBVIOUS
    <3>1. W!Hear(s, w) = [sum |-> x, part |-> 0, at |-> s.at]
        BY <2>6, <3>x DEF W!Hear
    <3>2. x \in Nat
        BY <2>1, <2>2, <3>x
    <3> QED
        BY <2>3, <3>1, <3>2
  <2>7. CASE w.role = "thousand"
    <3>x. PICK x : x = s.sum + s.part * W!Thousand
        OBVIOUS
    <3>1. W!Hear(s, w) = [sum |-> x, part |-> 0, at |-> s.at]
        BY <2>7, <3>x DEF W!Hear
    <3>2. x \in Nat
        BY <2>1, <2>2, <3>x DEF W!Thousand
    <3> QED
        BY <2>3, <3>1, <3>2
  <2>8. CASE w.role = "lakh"
    <3>x. PICK x : x = s.sum + s.part * W!Lakh
        OBVIOUS
    <3>1. W!Hear(s, w) = [sum |-> x, part |-> 0, at |-> s.at]
        BY <2>8, <3>x DEF W!Hear
    <3>2. x \in Nat
        BY <2>1, <2>2, <3>x DEF W!Thousand, W!Lakh
    <3> QED
        BY <2>3, <3>1, <3>2
  <2>9. CASE w.role = "crore"
    <3>x. PICK x : x = (s.sum + s.part) * W!Crore
        OBVIOUS
    <3>1. W!Hear(s, w) = [sum |-> x, part |-> 0, at |-> s.at]
        BY <2>9, <3>x DEF W!Hear
    <3>2. x \in Nat
        BY <2>1, <2>2, <3>x DEF W!Thousand, W!Lakh, W!Crore
    <3> QED
        BY <2>3, <3>1, <3>2
  <2>10. CASE w.role \in {"panic", "zero"}
      BY <2>10 DEF W!Hear
  <2> QED
      BY <1>2, <2>4, <2>5, <2>6, <2>7, <2>8, <2>9, <2>10 DEF Vocabulary
<1> QED
    BY <1>1, <1>2

\* What Read defines is there, and is a state after every word.
LEMMA Reads ==
    ASSUME NEW s \in States, NEW words \in Seq(Vocabulary)
    PROVE  \E h : /\ Hears(h, s, words) /\ h[Len(words)] \in States
                  /\ W!Read(s, words) = h[Len(words)]
<1> DEFINE n == Len(words)
           Is(h) == h = [k \in 0..n |-> IF k = 0 THEN s ELSE W!Hear(h[k - 1], words[k])]
<1>1. n \in Nat /\ \A k \in 1..n : words[k] \in Vocabulary
    OBVIOUS
<1> HIDE DEF n
<1>S. PICK S : S = States
    OBVIOUS
<1>g. PICK g : g = [k \in 1..n |-> [x \in S |-> W!Hear(x, words[k])]]
    OBVIOUS
<1>2. g \in [1..n -> [S -> S]]
    BY <1>1, <1>S, <1>g, HearType
<1>f. PICK f \in [0..n -> S] : FollowsTo(n, f, s, g)
  <2>1. s \in S /\ n \in Nat
      BY <1>1, <1>S
  <2> QED
      BY <1>2, <2>1, Steps, Zenon
<1>3. f[0] = s /\ \A k \in 1..n : f[k] = g[k][f[k - 1]]
    BY <1>f DEF FollowsTo
<1>4. ASSUME NEW k \in 1..n PROVE f[k] = W!Hear(f[k - 1], words[k])
  <2>1. k - 1 \in 0..n /\ k \in 1..n
      BY <1>1
  <2> QED
      BY <1>f, <1>3, <1>g, <2>1
<1>5. Is(f)
    BY <1>1, <1>f, <1>3, <1>4
<1>h. PICK h : h = CHOOSE e : Is(e)
    OBVIOUS
<1>6. Is(h)
    BY <1>5, <1>h, Zenon
<1>7. W!Read(s, words) = h[n]
    BY <1>h, Zenon DEF W!Read, n
<1>8. h[0] = s /\ \A k \in 1..n : h[k] = W!Hear(h[k - 1], words[k])
    BY <1>1, <1>6
<1> DEFINE T == {k \in Nat : k <= n => h[k] \in States}
<1>9. \A k \in Nat : k \in T
  <2>1. 0 \in T
      BY <1>8
  <2>2. ASSUME NEW k \in Nat, k \in T PROVE k + 1 \in T
    <3>1. ASSUME k + 1 <= n PROVE h[k + 1] \in States
      <4>1. k + 1 \in 1..n /\ (k + 1) - 1 = k /\ h[k] \in States
          BY <1>1, <2>2, <3>1
      <4>2. h[k + 1] = W!Hear(h[k], words[k + 1])
          BY <1>8, <4>1
      <4> QED
          BY <1>1, <4>1, <4>2, HearType
    <3> QED
        BY <3>1
  <2> HIDE DEF T
  <2> QED
      BY <2>1, <2>2, NatSet
<1>10. h[n] \in States
    BY <1>1, <1>9
<1> QED
    BY <1>7, <1>8, <1>10 DEF n, Hears

\* A reader who has heard words is in some state.
LEMMA ReadType ==
    ASSUME NEW s \in States, NEW words \in Seq(Vocabulary)
    PROVE  W!Read(s, words) \in States
BY Reads, Zenon

\* What is heard of no word, and of one.
LEMMA ReadNothing ==
    ASSUME NEW s \in States
    PROVE  W!Read(s, <<>>) = s
<1>1. <<>> \in Seq(Vocabulary) /\ Len(<<>>) = 0
    OBVIOUS
<1>2. PICK h : Hears(h, s, <<>>) /\ W!Read(s, <<>>) = h[Len(<<>>)]
    BY <1>1, Reads, Zenon
<1> QED
    BY <1>1, <1>2 DEF Hears

\* One word is heard as it is.
LEMMA ReadOne ==
    ASSUME NEW s \in States, NEW w \in Vocabulary
    PROVE  W!Read(s, <<w>>) = W!Hear(s, w)
<1>1. <<w>> \in Seq(Vocabulary) /\ Len(<<w>>) = 1 /\ <<w>>[1] = w
    OBVIOUS
<1>2. PICK h : Hears(h, s, <<w>>) /\ W!Read(s, <<w>>) = h[Len(<<w>>)]
    BY <1>1, Reads, Zenon
<1>3. h[0] = s /\ h[1] = W!Hear(h[1 - 1], <<w>>[1])
    BY <1>1, <1>2 DEF Hears
<1> QED
    BY <1>1, <1>2, <1>3

\* Words can be read in two parts.
LEMMA ReadBoth ==
    ASSUME NEW s \in States, NEW u \in Seq(Vocabulary), NEW v \in Seq(Vocabulary)
    PROVE  W!Read(s, u \o v) = W!Read(W!Read(s, u), v)
<1>1. u \o v \in Seq(Vocabulary) /\ Len(u \o v) = Len(u) + Len(v)
      /\ (\A k \in 1..Len(u) : (u \o v)[k] = u[k])
      /\ (\A k \in 1..Len(v) : (u \o v)[Len(u) + k] = v[k])
      /\ Len(u) \in Nat /\ Len(v) \in Nat
    OBVIOUS
<1>2. PICK h : Hears(h, s, u \o v) /\ W!Read(s, u \o v) = h[Len(u \o v)]
    BY <1>1, Reads, Zenon
<1>3. PICK f : Hears(f, s, u) /\ W!Read(s, u) = f[Len(u)]
    BY Reads, Zenon
<1>4. PICK g : Hears(g, W!Read(s, u), v) /\ W!Read(W!Read(s, u), v) = g[Len(v)]
    BY Reads, ReadType, Zenon
<1>h. /\ h[0] = s
      /\ \A k \in 1..Len(u) + Len(v) : h[k] = W!Hear(h[k - 1], (u \o v)[k])
      /\ f[0] = s /\ \A k \in 1..Len(u) : f[k] = W!Hear(f[k - 1], u[k])
      /\ g[0] = f[Len(u)] /\ \A k \in 1..Len(v) : g[k] = W!Hear(g[k - 1], v[k])
    BY <1>1, <1>2, <1>3, <1>4 DEF Hears
<1> DEFINE T == {k \in Nat : k <= Len(u) => h[k] = f[k]}
           U == {k \in Nat : k <= Len(v) => h[Len(u) + k] = g[k]}
<1>5. \A k \in Nat : k \in T
  <2>1. 0 \in T
      BY <1>h
  <2>2. ASSUME NEW k \in Nat, k \in T PROVE k + 1 \in T
    <3>1. ASSUME k + 1 <= Len(u) PROVE h[k + 1] = f[k + 1]
      <4>1. k + 1 \in 1..Len(u) /\ k + 1 \in 1..Len(u) + Len(v) /\ (k + 1) - 1 = k
            /\ h[k] = f[k]
          BY <1>1, <2>2, <3>1
      <4>2. h[k + 1] = W!Hear(h[k], (u \o v)[k + 1]) /\ f[k + 1] = W!Hear(f[k], u[k + 1])
          BY <1>h, <4>1
      <4> QED
          BY <1>1, <4>1, <4>2
    <3> QED
        BY <3>1
  <2> HIDE DEF T
  <2> QED
      BY <2>1, <2>2, NatSet
<1>6. \A k \in Nat : k \in U
  <2>1. 0 \in U
    <3>1. h[Len(u)] = f[Len(u)]
        BY <1>1, <1>5
    <3> QED
        BY <1>1, <1>h, <3>1
  <2>2. ASSUME NEW k \in Nat, k \in U PROVE k + 1 \in U
    <3>1. ASSUME k + 1 <= Len(v) PROVE h[Len(u) + (k + 1)] = g[k + 1]
      <4>1. h[Len(u) + k] = g[k]
          BY <1>1, <2>2, <3>1
      <4>2. k + 1 \in 1..Len(v) /\ Len(u) + (k + 1) \in 1..Len(u) + Len(v)
            /\ (k + 1) - 1 = k /\ (Len(u) + (k + 1)) - 1 = Len(u) + k
          BY <1>1, <3>1
      <4>3. h[Len(u) + (k + 1)] = W!Hear(h[Len(u) + k], v[k + 1])
          BY <1>1, <1>h, <4>2
      <4>4. g[k + 1] = W!Hear(g[k], v[k + 1])
          BY <1>h, <4>2
      <4> QED
          BY <4>1, <4>3, <4>4
    <3> QED
        BY <3>1
  <2> HIDE DEF U
  <2> QED
      BY <2>1, <2>2, NatSet
<1>7. h[Len(u) + Len(v)] = g[Len(v)]
    BY <1>1, <1>6
<1> QED
    BY <1>1, <1>2, <1>4, <1>7

\* A word that does not panic.
Spoken == {w \in Vocabulary : w.role # "panic"}

\* The words of the code are words.
LEMMA SpokenWords ==
    ASSUME NEW role \in {"number", "tens", "hundred", "thousand", "lakh", "crore", "scale", "zero"},
           NEW n \in Nat
    PROVE  W!Word(role, n) \in Spoken /\ W!Word(role, n) \in Vocabulary
BY DEF W!Word, Spoken, Vocabulary

\* Spoken words are words, none of them a panic.
LEMMA SpokenSeq ==
    ASSUME NEW words \in Seq(Spoken)
    PROVE  words \in Seq(Vocabulary) /\ \A i \in DOMAIN words : words[i].role # "panic"
BY DEF Spoken

\* Two words are one and another.
LEMMA Pair ==
    ASSUME NEW S, NEW a \in S, NEW b \in S
    PROVE  <<a, b>> = <<a>> \o <<b>> /\ <<a>> \in Seq(S) /\ <<b>> \in Seq(S)
<1>1. PICK u, v, w : u = <<a>> /\ v = <<b>> /\ w = <<a, b>>
    OBVIOUS
<1>2. /\ u \in Seq(S) /\ v \in Seq(S) /\ w \in Seq(S) /\ Len(u) = 1 /\ Len(v) = 1
      /\ Len(w) = 2 /\ u[1] = a /\ v[1] = b /\ w[1] = a /\ w[2] = b
    BY <1>1
<1>3. u \o v \in Seq(S) /\ Len(u \o v) = 2 /\ (u \o v)[1] = a /\ (u \o v)[2] = b
  <2>1. /\ u \o v \in Seq(S) /\ Len(u \o v) = Len(u) + Len(v)
        /\ \A i \in 1..Len(u) + Len(v) :
              (u \o v)[i] = IF i <= Len(u) THEN u[i] ELSE v[i - Len(u)]
      BY ONLY <1>2, ConcatProperties
  <2> QED
      BY ONLY <1>2, <2>1
<1>4. w = u \o v
    BY ONLY <1>2, <1>3, SeqEqual
<1> QED
    BY <1>1, <1>2, <1>4

\* Two words are heard one after the other.
LEMMA ReadTwo ==
    ASSUME NEW s \in States, NEW a \in Vocabulary, NEW b \in Vocabulary
    PROVE  W!Read(s, <<a, b>>) = W!Hear(W!Hear(s, a), b)
<1>1. <<a, b>> = <<a>> \o <<b>> /\ <<a>> \in Seq(Vocabulary) /\ <<b>> \in Seq(Vocabulary)
    BY Pair
<1>2. W!Read(s, <<a>> \o <<b>>) = W!Read(W!Read(s, <<a>>), <<b>>)
    BY <1>1, ReadBoth, Zenon
<1>3. W!Read(s, <<a>>) = W!Hear(s, a) /\ W!Hear(s, a) \in States
    BY ReadOne, HearType
<1>4. W!Read(W!Hear(s, a), <<b>>) = W!Hear(W!Hear(s, a), b)
    BY <1>3, ReadOne, Zenon
<1> QED
    BY <1>1, <1>2, <1>3, <1>4, Zenon

\* What a reader has heard: sum, part and the groups that are over.
At(sum, part, at) == [sum |-> sum, part |-> part, at |-> at]
Groups == [1..W!Scales + 1 -> Nat]

\* These are the states of a reader.
LEMMA AtType ==
    ASSUME NEW sum \in Nat, NEW part \in Nat, NEW at \in Groups
    PROVE  At(sum, part, at) \in States
BY DEF At, States, Groups

\* What is made of each word.
LEMMA HearNumber ==
    ASSUME NEW sum \in Nat, NEW part \in Nat, NEW at \in Groups, NEW n \in Nat
    PROVE  W!Hear(At(sum, part, at), W!Word("number", n)) = At(sum, part + n, at)
BY DEF W!Hear, W!Word, At

\* Tens count ten times.
LEMMA HearTens ==
    ASSUME NEW sum \in Nat, NEW part \in Nat, NEW at \in Groups, NEW n \in Nat
    PROVE  W!Hear(At(sum, part, at), W!Word("tens", n)) = At(sum, part + 10 * n, at)
BY DEF W!Hear, W!Word, At

\* A hundred multiplies what came before it.
LEMMA HearHundred ==
    ASSUME NEW sum \in Nat, NEW part \in Nat, NEW at \in Groups, NEW n \in Nat
    PROVE  W!Hear(At(sum, part, at), W!Word("hundred", n)) = At(sum + part * 100, 0, at)
BY DEF W!Hear, W!Word, At

\* A scale puts what was heard at its place.
LEMMA HearScale ==
    ASSUME NEW sum \in Nat, NEW part \in Nat, NEW at \in Groups, NEW n \in Nat
    PROVE  W!Hear(At(sum, part, at), W!Word("scale", n))
               = At(0, 0, [at EXCEPT ![n + 1] = sum + part])
BY DEF W!Hear, W!Word, At

\* A group of three digits.
Triple == 0..999

\* Of three digits the number is heard.
LEMMA ThreeDigits ==
    ASSUME NEW n \in Triple, NEW at \in Groups
    PROVE  /\ W!convertThreeDigitsEn(n) \in Seq(Spoken)
           /\ \E sum, part \in Nat : /\ sum + part = n
                                     /\ W!Read(At(0, 0, at), W!convertThreeDigitsEn(n))
                                            = At(sum, part, at)
<1>h. PICK h : h = n \div 100
    OBVIOUS
<1>rest. PICK rest : rest = n % 100
    OBVIOUS
<1>1. h \in Nat /\ rest \in 0..99 /\ 100 * h + rest = n
    BY <1>h, <1>rest DEF Triple
<1>u. PICK u : u = IF h > 0 THEN <<W!Word("number", h), W!Word("hundred", 0)>> ELSE <<>>
    OBVIOUS
<1>v. PICK v : v = IF rest = 0 THEN <<>>
                   ELSE IF rest < 20 THEN <<W!Word("number", rest)>>
                   ELSE <<W!Word("tens", rest \div 10)>>
                        \o (IF rest % 10 > 0 THEN <<W!Word("number", rest % 10)>> ELSE <<>>)
    OBVIOUS
<1>2. W!convertThreeDigitsEn(n) = u \o v
    BY <1>h, <1>rest, <1>u, <1>v DEF W!convertThreeDigitsEn
<1>3. u \in Seq(Spoken) /\ W!Read(At(0, 0, at), u) = At(100 * h, 0, at)
  <2>0. At(0, 0, at) \in States
      BY AtType
  <2>1. CASE h = 0
    <3>1. u = <<>>
        BY <1>u, <2>1
    <3> QED
        BY <2>0, <2>1, <3>1, ReadNothing
  <2>2. CASE h > 0
    <3>1. PICK a, b : a = W!Word("number", h) /\ b = W!Word("hundred", 0)
        OBVIOUS
    <3>2. a \in Spoken /\ b \in Spoken /\ a \in Vocabulary /\ b \in Vocabulary
        BY <1>1, <3>1, SpokenWords
    <3>3. u = <<a, b>>
        BY <1>u, <2>2, <3>1
    <3>4. W!Hear(At(0, 0, at), a) = At(0, 0 + h, at)
        BY <1>1, <3>1, HearNumber
    <3>5. W!Hear(At(0, 0 + h, at), b) = At(0 + (0 + h) * 100, 0, at)
        BY <1>1, <3>1, HearHundred
    <3>6. W!Read(At(0, 0, at), u) = At(0 + (0 + h) * 100, 0, at)
        BY <2>0, <3>2, <3>3, <3>4, <3>5, ReadTwo
    <3>7. 0 + (0 + h) * 100 = 100 * h
        BY <1>1
    <3>8. u \in Seq(Spoken)
        BY <3>2, <3>3
    <3> QED
        BY <3>6, <3>7, <3>8
  <2> QED
      BY <1>1, <2>1, <2>2
<1>4. v \in Seq(Spoken) /\ W!Read(At(100 * h, 0, at), v) = At(100 * h, rest, at)
  <2>s. PICK s \in Nat : s = 100 * h
      BY <1>1
  <2>0. At(s, 0, at) \in States
      BY AtType
  <2>1. CASE rest = 0
    <3>1. v = <<>>
        BY <1>v, <2>1
    <3> QED
        BY <2>0, <2>1, <2>s, <3>1, ReadNothing
  <2>2. CASE rest # 0 /\ rest < 20
    <3>1. PICK a : a = W!Word("number", rest)
        OBVIOUS
    <3>2. a \in Spoken /\ a \in Vocabulary
        BY <1>1, <3>1, SpokenWords
    <3>3. v = <<a>>
        BY <1>v, <2>2, <3>1
    <3>4. W!Hear(At(s, 0, at), a) = At(s, 0 + rest, at)
        BY <1>1, <3>1, HearNumber
    <3> QED
        BY <1>1, <2>0, <2>s, <3>2, <3>3, <3>4, ReadOne
  <2>3. CASE rest >= 20
    <3>t. PICK t : t = rest \div 10
        OBVIOUS
    <3>o. PICK o : o = rest % 10
        OBVIOUS
    <3>1. t \in Nat /\ o \in Nat /\ 10 * t + o = rest
        BY <1>1, <3>t, <3>o
    <3>2. PICK a, b : a = W!Word("tens", t) /\ b = W!Word("number", o)
        OBVIOUS
    <3>3. a \in Spoken /\ b \in Spoken /\ a \in Vocabulary /\ b \in Vocabulary
        BY <3>1, <3>2, SpokenWords
    <3>4. v = <<a>> \o (IF o > 0 THEN <<b>> ELSE <<>>)
        BY <1>1, <1>v, <2>3, <3>t, <3>o, <3>2
    <3>5. W!Hear(At(s, 0, at), a) = At(s, 0 + 10 * t, at)
        BY <3>1, <3>2, HearTens
    <3>6. CASE o = 0
      <4>1. v = <<a>>
          BY <3>4, <3>6
      <4> QED
          BY <2>0, <2>s, <3>1, <3>3, <3>5, <3>6, <4>1, ReadOne
    <3>7. CASE o > 0
      <4>1. v = <<a, b>>
        <5>1. v = <<a>> \o <<b>>
            BY ONLY <3>4, <3>7
        <5>2. <<a, b>> = <<a>> \o <<b>>
            BY ONLY <3>3, Pair
        <5> QED
            BY <5>1, <5>2, Zenon
      <4>2. W!Hear(At(s, 0 + 10 * t, at), b) = At(s, (0 + 10 * t) + o, at)
          BY <3>1, <3>2, HearNumber
      <4> QED
          BY <2>0, <2>s, <3>1, <3>3, <3>5, <4>1, <4>2, ReadTwo
    <3> QED
        BY <3>1, <3>6, <3>7
  <2> QED
      BY <1>1, <2>1, <2>2, <2>3
<1>5. u \o v \in Seq(Spoken)
    BY <1>3, <1>4
<1>6. W!Read(At(0, 0, at), u \o v) = At(100 * h, rest, at)
  <2>1. At(0, 0, at) \in States /\ u \in Seq(Vocabulary) /\ v \in Seq(Vocabulary)
      BY <1>3, <1>4, AtType, SpokenSeq
  <2> QED
      BY <1>3, <1>4, <2>1, ReadBoth
<1> QED
    BY <1>1, <1>2, <1>5, <1>6


\* States of a reader are the same when their parts are.
LEMMA AtSame ==
    ASSUME NEW s1, NEW p1, NEW a1, NEW s2, NEW p2, NEW a2, At(s1, p1, a1) = At(s2, p2, a2)
    PROVE  s1 = s2 /\ p1 = p2 /\ a1 = a2
BY DEF At

\* No digits but zeros are without words.
LEMMA SomeDigits ==
    ASSUME NEW n \in Triple, n # 0
    PROVE  W!convertThreeDigitsEn(n) # <<>>
<1> SUFFICES ASSUME W!convertThreeDigitsEn(n) = <<>> PROVE FALSE
    OBVIOUS
<1>at. PICK at : at = [i \in 1..W!Scales + 1 |-> 0]
    OBVIOUS
<1>1. at \in Groups
    BY <1>at DEF Groups
<1>2. PICK sum \in Nat, part \in Nat :
         sum + part = n /\ W!Read(At(0, 0, at), W!convertThreeDigitsEn(n)) = At(sum, part, at)
    BY <1>1, ThreeDigits, Zenon
<1>3. W!Read(At(0, 0, at), <<>>) = At(0, 0, at)
    BY <1>1, AtType, ReadNothing
<1>4. sum = 0 /\ part = 0
    BY <1>2, <1>3, AtSame
<1> QED
    BY <1>2, <1>4

Chunks == Seq(Triple)

\* The words of a group: none when it is 0, a panic above the last scale.
LEMMA ChunkWords ==
    ASSUME NEW groups \in Chunks, NEW i \in 1..Len(groups)
    PROVE  /\ W!chunkStr(groups, i) \in Seq(Vocabulary)
           /\ i <= W!Scales + 1 \/ groups[i] = 0 => W!chunkStr(groups, i) \in Seq(Spoken)
           /\ groups[i] = 0 => W!chunkStr(groups, i) = <<>>
           /\ groups[i] # 0 => W!chunkStr(groups, i) # <<>>
           /\ groups[i] # 0 /\ i > W!Scales + 1 =>
                  \E j \in DOMAIN W!chunkStr(groups, i) :
                      W!chunkStr(groups, i)[j].role = "panic"
<1>n. PICK n : n = groups[i]
    OBVIOUS
<1>i. i \in Nat /\ i >= 1
    OBVIOUS
<1>1. n \in Triple
    BY <1>n, ElementOfSeq, Zenon DEF Chunks
<1>2. CASE n = 0
  <2>1. W!chunkStr(groups, i) = <<>>
      BY <1>n, <1>2 DEF W!chunkStr
  <2> QED
      BY <1>n, <1>2, <2>1
<1>3. CASE n # 0
  <2>w. PICK w : w = W!convertThreeDigitsEn(n)
      OBVIOUS
  <2>0. w \in Seq(Spoken) /\ w # <<>>
    <3>at. PICK at : at = [j \in 1..W!Scales + 1 |-> 0]
        OBVIOUS
    <3>1. at \in Groups
        BY <3>at DEF Groups
    <3>2. W!convertThreeDigitsEn(n) \in Seq(Spoken)
        BY <1>1, <3>1, ThreeDigits, Zenon
    <3>3. W!convertThreeDigitsEn(n) # <<>>
        BY <1>1, <1>3, SomeDigits, Zenon
    <3> QED
        BY <2>w, <3>2, <3>3, Zenon
  <2>1. w \in Seq(Vocabulary)
      BY <2>0, SpokenSeq
  <2>2. CASE i = 1
    <3>1. W!chunkStr(groups, i) = w \o <<>>
        BY <1>n, <1>3, <2>2, <2>w DEF W!chunkStr
    <3>2. W!chunkStr(groups, i) = w
        BY <2>1, <3>1
    <3> QED
        BY <1>n, <1>3, <2>0, <2>1, <2>2, <3>2 DEF W!Scales
  <2>3. CASE i # 1 /\ i <= W!Scales + 1
    <3>e. PICK e : e = W!Word("scale", i - 1)
        OBVIOUS
    <3>1. e \in Spoken /\ e \in Vocabulary
        BY <1>i, <2>3, <3>e, SpokenWords
    <3>2. W!chunkStr(groups, i) = w \o <<e>>
        BY <1>n, <1>i, <1>3, <2>3, <2>w, <3>e DEF W!chunkStr, W!Scales
    <3>3. w \o <<e>> \in Seq(Spoken) /\ w \o <<e>> \in Seq(Vocabulary) /\ w \o <<e>> # <<>>
        BY <2>0, <2>1, <3>1
    <3> QED
        BY <1>n, <1>i, <1>3, <2>3, <3>2, <3>3 DEF W!Scales
  <2>4. CASE i > W!Scales + 1
    <3>e. PICK e : e = W!Word("panic", i - 1)
        OBVIOUS
    <3>1. e \in Vocabulary /\ e.role = "panic"
        BY <1>i, <2>4, <3>e DEF W!Word, Vocabulary, W!Scales
    <3>2. W!chunkStr(groups, i) = w \o <<e>>
        BY <1>n, <1>i, <1>3, <2>4, <2>w, <3>e DEF W!chunkStr, W!Scales
    <3>3. w \o <<e>> \in Seq(Vocabulary) /\ w \o <<e>> # <<>>
          /\ Len(w) + 1 \in DOMAIN (w \o <<e>>) /\ (w \o <<e>>)[Len(w) + 1] = e
        BY <2>1, <3>1
    <3> QED
        BY <1>n, <1>i, <1>3, <2>4, <3>1, <3>2, <3>3 DEF W!Scales
  <2> QED
      BY <1>i, <2>2, <2>3, <2>4 DEF W!Scales
<1> QED
    BY <1>2, <1>3

\* What is heard of a group.
LEMMA ChunkHeard ==
    ASSUME NEW groups \in Chunks, NEW i \in 1..Len(groups), i <= W!Scales + 1,
           NEW at \in Groups, at[i] = 0
    PROVE  /\ i = 1 => \E sum, part \in Nat :
                           /\ sum + part = groups[1]
                           /\ W!Read(At(0, 0, at), W!chunkStr(groups, i)) = At(sum, part, at)
           /\ i > 1 => W!Read(At(0, 0, at), W!chunkStr(groups, i))
                           = At(0, 0, [at EXCEPT ![i] = groups[i]])
<1>n. PICK n : n = groups[i]
    OBVIOUS
<1>i. i \in Nat /\ i >= 1 /\ i \in 1..W!Scales + 1
    BY DEF W!Scales
<1>1. n \in Triple
    BY <1>n, ElementOfSeq, Zenon DEF Chunks
<1>0. At(0, 0, at) \in States
    BY AtType
<1>2. CASE n = 0
  <2>1. W!chunkStr(groups, i) = <<>>
      BY <1>n, <1>2 DEF W!chunkStr
  <2>2. W!Read(At(0, 0, at), <<>>) = At(0, 0, at)
      BY <1>0, ReadNothing, Zenon
  <2>3. [at EXCEPT ![i] = groups[i]] = at
    <3>1. at \in [1..W!Scales + 1 -> Nat] /\ groups[i] = at[i]
        BY <1>n, <1>2 DEF Groups
    <3> QED
        BY <1>i, <3>1
  <2>4. 0 + 0 = 0 /\ 0 \in Nat
      OBVIOUS
  <2>5. i = 1 => 0 + 0 = groups[1]
    <3>1. 0 + 0 = n
        BY <1>2
    <3> QED
        BY <1>n, <3>1, Zenon
  <2> QED
      BY <2>1, <2>2, <2>3, <2>4, <2>5, Zenon
<1>3. CASE n # 0
  <2>w. PICK w : w = W!convertThreeDigitsEn(n)
      OBVIOUS
  <2>0. W!convertThreeDigitsEn(n) \in Seq(Spoken)
      BY <1>1, ThreeDigits, Zenon
  <2>1. w \in Seq(Spoken)
      BY <2>0, <2>w, Zenon
  <2>2. w \in Seq(Vocabulary)
      BY <2>1, SpokenSeq
  <2>r. PICK sum \in Nat, part \in Nat :
           sum + part = n /\ W!Read(At(0, 0, at), W!convertThreeDigitsEn(n)) = At(sum, part, at)
      BY <1>1, ThreeDigits, Zenon
  <2>3. sum + part = n /\ W!Read(At(0, 0, at), w) = At(sum, part, at)
      BY <2>w, <2>r, Zenon
  <2>4. CASE i = 1
    <3>1. W!chunkStr(groups, i) = w \o <<>>
        BY <1>n, <1>3, <2>4, <2>w DEF W!chunkStr
    <3>2. W!chunkStr(groups, i) = w
        BY <2>2, <3>1
    <3>3. sum + part = groups[1]
        BY <1>n, <2>3, <2>4
    <3>4. ~(i > 1)
        BY <2>4
    <3> QED
        BY <2>3, <3>2, <3>3, <3>4, Zenon
  <2>5. CASE i # 1
    <3>e. PICK e : e = W!Word("scale", i - 1)
        OBVIOUS
    <3>1. e \in Vocabulary
        BY <1>i, <2>5, <3>e, SpokenWords
    <3>2. W!chunkStr(groups, i) = w \o <<e>>
        BY <1>n, <1>i, <1>3, <2>5, <2>w, <3>e DEF W!chunkStr, W!Scales
    <3>3. W!Read(At(0, 0, at), w \o <<e>>) = W!Read(At(sum, part, at), <<e>>)
      <4>1. <<e>> \in Seq(Vocabulary)
          BY <3>1
      <4>2. W!Read(At(0, 0, at), w \o <<e>>) = W!Read(W!Read(At(0, 0, at), w), <<e>>)
          BY <1>0, <2>2, <4>1, ReadBoth, Zenon
      <4> QED
          BY <2>3, <4>2, Zenon
    <3>4. W!Read(At(sum, part, at), <<e>>) = W!Hear(At(sum, part, at), e)
        BY <3>1, AtType, ReadOne, Zenon
    <3>k. PICK k \in Nat : k = i - 1
        BY <1>i, <2>5
    <3>5. W!Hear(At(sum, part, at), W!Word("scale", k)) = At(0, 0, [at EXCEPT ![k + 1] = sum + part])
        BY HearScale
    <3>6. k + 1 = i /\ sum + part = groups[i]
        BY <1>i, <1>n, <2>3, <3>k
    <3> QED
        BY <2>5, <3>e, <3>k, <3>2, <3>3, <3>4, <3>5, <3>6, Zenon
  <2> QED
      BY <2>4, <2>5
<1> QED
    BY <1>2, <1>3

\* The words up to every group, and those of all of them.
SpellsUp(p, groups) ==
    /\ p[0] = <<>> /\ \A k \in 0..Len(groups) : p[k] \in Seq(Vocabulary)
    /\ \A k \in 1..Len(groups) : p[k] = W!chunkStr(groups, k) \o p[k - 1]

\* The English conversion unrolls.
LEMMA EnglishParts ==
    ASSUME NEW groups \in Chunks
    PROVE  \E p : SpellsUp(p, groups) /\ W!convertIntegerToEnWords(groups) = p[Len(groups)]
<1> DEFINE n == Len(groups)
           Is(p) == p = [k \in 0..n |-> IF k = 0 THEN <<>> ELSE W!chunkStr(groups, k) \o p[k - 1]]
<1>1. n \in Nat
    BY DEF Chunks
<1>c. ASSUME NEW k \in 1..n PROVE W!chunkStr(groups, k) \in Seq(Vocabulary)
    BY ChunkWords, Zenon
<1> HIDE DEF n
<1>S. PICK S : S = Seq(Vocabulary)
    OBVIOUS
<1>g. PICK g : g = [k \in 1..n |-> [x \in S |-> W!chunkStr(groups, k) \o x]]
    OBVIOUS
<1>2. g \in [1..n -> [S -> S]]
  <2>1. ASSUME NEW k \in 1..n, NEW x \in S PROVE W!chunkStr(groups, k) \o x \in S
      BY ONLY x \in S, k \in 1..n, <1>c, <1>S, ConcatProperties
  <2> QED
      BY <1>g, <2>1
<1>0. <<>> \in S
    BY <1>S
<1>f. PICK f \in [0..n -> S] : FollowsTo(n, f, <<>>, g)
    BY <1>0, <1>1, <1>2, Steps, Zenon
<1>3. f[0] = <<>> /\ \A k \in 1..n : f[k] = g[k][f[k - 1]]
    BY <1>f DEF FollowsTo
<1>4. ASSUME NEW k \in 1..n PROVE f[k] = W!chunkStr(groups, k) \o f[k - 1]
  <2>1. k - 1 \in 0..n /\ k \in 1..n
      BY <1>1
  <2>2. f[k - 1] \in S /\ f[k] = g[k][f[k - 1]]
      BY <1>f, <1>3, <2>1
  <2> QED
      BY <1>g, <2>2
<1>5. Is(f)
    BY <1>1, <1>f, <1>3, <1>4
<1>p. PICK p : p = CHOOSE e : Is(e)
    OBVIOUS
<1>6. Is(p)
    BY <1>5, <1>p, Zenon
<1>7. W!convertIntegerToEnWords(groups) = p[n]
    BY <1>p, Zenon DEF W!convertIntegerToEnWords, n
<1>8. p[0] = <<>> /\ \A k \in 1..n : p[k] = W!chunkStr(groups, k) \o p[k - 1]
  <2>1. p[0] = <<>>
      BY <1>1, <1>6
  <2>2. ASSUME NEW k \in 1..n PROVE p[k] = W!chunkStr(groups, k) \o p[k - 1]
    <3>1. k \in 0..n /\ k # 0
        BY <1>1
    <3> HIDE DEF n
    <3> QED
        BY ONLY <3>1, <1>6
  <2> QED
      BY <2>1, <2>2
<1> DEFINE T == {k \in Nat : k <= n => p[k] \in S}
<1>9. \A k \in Nat : k \in T
  <2>1. 0 \in T
      BY <1>0, <1>8
  <2>2. ASSUME NEW k \in Nat, k \in T PROVE k + 1 \in T
    <3>1. ASSUME k + 1 <= n PROVE p[k + 1] \in S
      <4>1. k + 1 \in 1..n /\ (k + 1) - 1 = k /\ p[k] \in S
          BY <1>1, <2>2, <3>1
      <4>2. p[k + 1] = W!chunkStr(groups, k + 1) \o p[k] /\ W!chunkStr(groups, k + 1) \in S
          BY <1>8, <1>c, <1>S, <4>1
      <4> QED
          BY ONLY <4>1, <4>2, <1>S, ConcatProperties
    <3> QED
        BY <3>1
  <2> HIDE DEF T
  <2> QED
      BY <2>1, <2>2, NatSet
<1>10. \A k \in 0..n : p[k] \in S
    BY <1>1, <1>9
<1>11. SpellsUp(p, groups)
    BY <1>8, <1>10, <1>S DEF n, SpellsUp
<1> QED
    BY <1>7, <1>11 DEF n

\* What is heard of the words up to group k, when the groups above it are already
\* in at: sum and part make the lowest group.
HeardUpTo(k, groups, at, end) ==
    \E sum, part \in Nat :
        /\ sum + part = IF k = 0 THEN 0 ELSE groups[1]
        /\ end = At(sum, part, [i \in 1..W!Scales + 1 |->
                                    IF i > 1 /\ i <= k THEN groups[i] ELSE at[i]])

\* One group more.
LEMMA EnglishStep ==
    ASSUME NEW groups \in Chunks, NEW p, SpellsUp(p, groups), NEW k \in Nat,
           k + 1 <= Len(groups), k + 1 <= W!Scales + 1,
           \A at \in Groups : (\A i \in 1..k : at[i] = 0)
               => HeardUpTo(k, groups, at, W!Read(At(0, 0, at), p[k])),
           NEW at \in Groups, \A i \in 1..k + 1 : at[i] = 0
    PROVE  HeardUpTo(k + 1, groups, at, W!Read(At(0, 0, at), p[k + 1]))
<1>c. PICK c : c = W!chunkStr(groups, k + 1)
    OBVIOUS
<1>1. k + 1 \in 1..Len(groups) /\ k \in 0..Len(groups) /\ (k + 1) - 1 = k
      /\ k + 1 \in 1..W!Scales + 1
    BY DEF W!Scales, Chunks
<1>2. at[k + 1] = 0 /\ \A i \in 1..k : at[i] = 0
    BY <1>1
<1>3. c \in Seq(Vocabulary)
    BY <1>1, <1>c, ChunkWords, Zenon
<1>4. p[k] \in Seq(Vocabulary) /\ p[k + 1] = c \o p[k]
    BY <1>1, <1>c DEF SpellsUp
<1>5. W!Read(At(0, 0, at), c \o p[k]) = W!Read(W!Read(At(0, 0, at), c), p[k])
  <2>1. At(0, 0, at) \in States
      BY AtType
  <2> QED
      BY <1>3, <1>4, <2>1, ReadBoth, Zenon
<1>6. CASE k = 0
  <2>1. p[k] = <<>>
      BY <1>6 DEF SpellsUp
  <2>2. PICK sum \in Nat, part \in Nat :
           sum + part = groups[1] /\ W!Read(At(0, 0, at), W!chunkStr(groups, k + 1)) = At(sum, part, at)
    <3>1. k + 1 = 1
        BY <1>6
    <3> QED
        BY <1>1, <1>2, <3>1, ChunkHeard, Zenon
  <2>3. W!Read(At(sum, part, at), <<>>) = At(sum, part, at)
      BY AtType, ReadNothing, Zenon
  <2>4. W!Read(At(0, 0, at), p[k + 1]) = At(sum, part, at)
      BY <1>4, <1>5, <1>c, <2>1, <2>2, <2>3, Zenon
  <2>5. at = [i \in 1..W!Scales + 1 |-> IF i > 1 /\ i <= k + 1 THEN groups[i] ELSE at[i]]
      BY <1>6 DEF Groups
  <2>6. sum + part = IF k + 1 = 0 THEN 0 ELSE groups[1]
      BY <2>2
  <2> QED
      BY <2>4, <2>5, <2>6 DEF HeardUpTo
<1>7. CASE k > 0
  <2>b. PICK b : b = [at EXCEPT ![k + 1] = groups[k + 1]]
      OBVIOUS
  <2>0. groups[k + 1] \in Triple
      BY <1>1, ElementOfSeq, Zenon DEF Chunks
  <2>1. b \in Groups /\ \A i \in 1..k : b[i] = 0
    <3>1. groups[k + 1] \in Nat
      <4>1. \A x \in Triple : x \in Nat
          BY DEF Triple
      <4> QED
          BY <2>0, <4>1, Zenon
    <3> QED
        BY <1>1, <1>2, <2>b, <3>1 DEF Groups
  <2>2. W!Read(At(0, 0, at), W!chunkStr(groups, k + 1)) = At(0, 0, [at EXCEPT ![k + 1] = groups[k + 1]])
    <3>1. k + 1 > 1
        BY <1>7
    <3> QED
        BY <1>1, <1>2, <3>1, ChunkHeard, Zenon
  <2>3. HeardUpTo(k, groups, b, W!Read(At(0, 0, b), p[k]))
      BY <2>1, Zenon
  <2>4. W!Read(At(0, 0, at), p[k + 1]) = W!Read(At(0, 0, b), p[k])
      BY <1>4, <1>5, <1>c, <2>b, <2>2, Zenon
  <2>5. [i \in 1..W!Scales + 1 |-> IF i > 1 /\ i <= k THEN groups[i] ELSE b[i]]
        = [i \in 1..W!Scales + 1 |-> IF i > 1 /\ i <= k + 1 THEN groups[i] ELSE at[i]]
      BY <1>1, <1>7, <2>b DEF Groups
  <2>6. (IF k = 0 THEN 0 ELSE groups[1]) = (IF k + 1 = 0 THEN 0 ELSE groups[1])
      BY <1>7
  <2> QED
      BY <2>3, <2>4, <2>5, <2>6, Zenon DEF HeardUpTo
<1> QED
    BY <1>6, <1>7

\* All groups, by induction.
LEMMA EnglishRead ==
    ASSUME NEW groups \in Chunks, NEW p, SpellsUp(p, groups), Len(groups) <= W!Scales + 1
    PROVE  \A at \in Groups : (\A i \in 1..Len(groups) : at[i] = 0)
               => HeardUpTo(Len(groups), groups, at, W!Read(At(0, 0, at), p[Len(groups)]))
<1> DEFINE Holds(k) == \A at \in Groups : (\A i \in 1..k : at[i] = 0)
                           => HeardUpTo(k, groups, at, W!Read(At(0, 0, at), p[k]))
           T == {k \in Nat : k <= Len(groups) => Holds(k)}
<1>1. Len(groups) \in Nat
    BY DEF Chunks
<1>2. \A k \in Nat : k \in T
  <2>1. Holds(0)
    <3>1. ASSUME NEW at \in Groups PROVE HeardUpTo(0, groups, at, W!Read(At(0, 0, at), p[0]))
      <4>1. W!Read(At(0, 0, at), <<>>) = At(0, 0, at)
          BY AtType, ReadNothing
      <4>2. W!Read(At(0, 0, at), p[0]) = At(0, 0, at)
          BY <4>1 DEF SpellsUp
      <4>3. at = [i \in 1..W!Scales + 1 |-> IF i > 1 /\ i <= 0 THEN groups[i] ELSE at[i]]
          BY DEF Groups
      <4>4. 0 + 0 = IF 0 = 0 THEN 0 ELSE groups[1]
          OBVIOUS
      <4> QED
          BY <4>2, <4>3, <4>4 DEF HeardUpTo
    <3> QED
        BY <3>1, Zenon
  <2>2. ASSUME NEW k \in Nat, k + 1 <= Len(groups), Holds(k) PROVE Holds(k + 1)
    <3>1. k + 1 <= W!Scales + 1
        BY <1>1, <2>2 DEF W!Scales
    <3>2. ASSUME NEW at \in Groups, \A i \in 1..k + 1 : at[i] = 0
          PROVE  HeardUpTo(k + 1, groups, at, W!Read(At(0, 0, at), p[k + 1]))
        BY <2>2, <3>1, <3>2, EnglishStep, Zenon
    <3> QED
        BY <3>2, Zenon
  <2> HIDE DEF Holds
  <2>3. 0 \in T /\ \A k \in Nat : k \in T => k + 1 \in T
      BY <1>1, <2>1, <2>2
  <2> HIDE DEF T
  <2> QED
      BY <2>3, NatSet
<1> HIDE DEF Holds
<1>3. Holds(Len(groups))
    BY <1>1, <1>2
<1> QED
    BY <1>3, Zenon DEF Holds

\* Groups without zeros in front.
Canonical == {g \in Chunks : g # <<>> => g[Len(g)] # 0}

\* The English words panic for what is too high, and else say every group.
LEMMA English ==
    ASSUME NEW groups \in Canonical, NEW w, w = W!convertIntegerToEnWords(groups)
    PROVE  /\ w \in Seq(Vocabulary) /\ (w = <<>> <=> groups = <<>>)
           /\ (\E i \in DOMAIN w : w[i].role = "panic") <=> Len(groups) > W!Scales + 1
           /\ Len(groups) <= W!Scales + 1 =>
                  W!ReadEn(w) = [i \in 1..W!Scales + 1 |->
                                    IF i <= Len(groups) THEN groups[i] ELSE 0]
<1>n. PICK n : n = Len(groups)
    OBVIOUS
<1>0. n \in Nat /\ groups \in Chunks /\ (n = 0 <=> groups = <<>>) /\ (n > 0 => groups[n] # 0)
    BY <1>n DEF Canonical, Chunks
<1>p. PICK p : SpellsUp(p, groups) /\ W!convertIntegerToEnWords(groups) = p[Len(groups)]
    BY <1>0, EnglishParts, Zenon
<1>1. /\ w = p[n] /\ p[0] = <<>> /\ \A k \in 0..n : p[k] \in Seq(Vocabulary)
      /\ \A k \in 1..n : p[k] = W!chunkStr(groups, k) \o p[k - 1]
    BY <1>n, <1>p DEF SpellsUp
<1>2. w \in Seq(Vocabulary)
    BY <1>0, <1>1
<1>3. ASSUME n > 0
      PROVE  /\ w # <<>>
             /\ n > W!Scales + 1 => \E i \in DOMAIN w : w[i].role = "panic"
  <2>c. PICK c : c = W!chunkStr(groups, n)
      OBVIOUS
  <2>1. n \in 1..Len(groups) /\ groups[n] # 0 /\ n - 1 \in 0..n
      BY <1>0, <1>3, <1>n
  <2>2. c \in Seq(Vocabulary) /\ c # <<>>
      BY <1>0, <2>1, <2>c, ChunkWords, Zenon
  <2>3. n > W!Scales + 1 => \E j \in DOMAIN c : c[j].role = "panic"
      BY <1>0, <2>1, <2>c, ChunkWords, Zenon
  <2>v. PICK v : v = p[n - 1]
      OBVIOUS
  <2>4. w = c \o v /\ v \in Seq(Vocabulary)
      BY <1>1, <1>n, <2>1, <2>c, <2>v
  <2>5. ASSUME NEW j \in DOMAIN c PROVE j \in DOMAIN w /\ w[j] = c[j]
      BY <2>2, <2>4, <2>5
  <2>6. w # <<>>
      BY <2>2, <2>4
  <2> QED
      BY <2>3, <2>5, <2>6
<1>4. ASSUME n <= W!Scales + 1 PROVE w \in Seq(Spoken)
  <2> DEFINE T == {k \in Nat : k <= n => p[k] \in Seq(Spoken)}
  <2>1. 0 \in T
      BY <1>1
  <2>2. ASSUME NEW k \in Nat, k \in T PROVE k + 1 \in T
    <3>1. ASSUME k + 1 <= n PROVE p[k + 1] \in Seq(Spoken)
      <4>c. PICK c : c = W!chunkStr(groups, k + 1)
          OBVIOUS
      <4>1. k + 1 \in 1..Len(groups) /\ (k + 1) - 1 = k /\ p[k] \in Seq(Spoken)
            /\ k + 1 <= W!Scales + 1
          BY <1>0, <1>4, <1>n, <2>2, <3>1 DEF W!Scales
      <4>2. c \in Seq(Spoken)
          BY <1>0, <4>1, <4>c, ChunkWords, Zenon
      <4>3. p[k + 1] = c \o p[k]
          BY <1>1, <1>n, <4>1, <4>c
      <4> QED
          BY ONLY <4>1, <4>2, <4>3, ConcatProperties
    <3> QED
        BY <3>1
  <2> HIDE DEF T
  <2>3. n \in T
      BY <1>0, <2>1, <2>2, NatSet
  <2> QED
      BY <1>0, <1>1, <2>3 DEF T
<1>5. ASSUME n <= W!Scales + 1 PROVE ~\E i \in DOMAIN w : w[i].role = "panic"
    BY <1>4, <1>5, SpokenSeq
<1>6. ASSUME n <= W!Scales + 1
      PROVE  W!ReadEn(w) = [i \in 1..W!Scales + 1 |-> IF i <= n THEN groups[i] ELSE 0]
  <2>at. PICK at : at = [i \in 1..W!Scales + 1 |-> 0]
      OBVIOUS
  <2>1. at \in Groups /\ (\A i \in 1..Len(groups) : at[i] = 0) /\ Len(groups) <= W!Scales + 1
      BY <1>0, <1>6, <1>n, <2>at DEF Groups, W!Scales
  <2>2. HeardUpTo(n, groups, at, W!Read(At(0, 0, at), p[n]))
      BY <1>0, <1>n, <1>p, <2>1, EnglishRead, Zenon
  <2>3. At(0, 0, at) = W!Silence
      BY <2>at DEF At, W!Silence
  <2>e. PICK e : e = W!Read(W!Silence, w)
      OBVIOUS
  <2>4. HeardUpTo(n, groups, at, e)
      BY <1>1, <2>2, <2>3, <2>e, Zenon
  <2>b. PICK b : b = [i \in 1..W!Scales + 1 |-> IF i > 1 /\ i <= n THEN groups[i] ELSE at[i]]
      OBVIOUS
  <2>5. PICK sum \in Nat, part \in Nat : /\ sum + part = (IF n = 0 THEN 0 ELSE groups[1])
                                         /\ e = At(sum, part, b)
      BY <2>4, <2>b, Zenon DEF HeardUpTo
  <2>6. e.at = b /\ e.sum = sum /\ e.part = part
      BY <2>5 DEF At
  <2>7. W!ReadEn(w) = [e.at EXCEPT ![1] = e.sum + e.part]
      BY <2>e, Zenon DEF W!ReadEn
  <2>8. W!ReadEn(w) = [b EXCEPT ![1] = IF n = 0 THEN 0 ELSE groups[1]]
      BY <2>5, <2>6, <2>7
  <2>9. [b EXCEPT ![1] = IF n = 0 THEN 0 ELSE groups[1]]
        = [i \in 1..W!Scales + 1 |-> IF i <= n THEN groups[i] ELSE 0]
      BY <1>0, <1>6, <2>at, <2>b DEF W!Scales
  <2> QED
      BY <2>8, <2>9
<1>7. CASE n > 0
  <2>1. n > W!Scales + 1 \/ n <= W!Scales + 1
      BY <1>0 DEF W!Scales
  <2>2. ~(n > W!Scales + 1 /\ n <= W!Scales + 1)
      BY <1>0 DEF W!Scales
  <2>3. groups # <<>>
      BY <1>0, <1>7
  <2> QED
      BY <1>2, <1>3, <1>5, <1>6, <1>7, <1>n, <2>1, <2>2, <2>3, Zenon
<1>8. CASE n = 0
  <2>1. n <= W!Scales + 1 /\ ~(n > W!Scales + 1)
      BY <1>8 DEF W!Scales
  <2>2. w = <<>> /\ groups = <<>>
      BY <1>0, <1>1, <1>8
  <2> QED
      BY <1>2, <1>5, <1>6, <1>n, <2>1, <2>2, Zenon
<1> QED
    BY <1>0, <1>7, <1>8

\* What Value adds up, from the highest group on.
Horner(u, g) ==
    /\ u[0] = 0 /\ \A i \in 0..Len(g) : u[i] \in Nat
    /\ \A i \in 1..Len(g) : u[i] = u[i - 1] * W!Thousand + g[Len(g) + 1 - i]

\* The function that Value defines is there.
LEMMA Values ==
    ASSUME NEW groups \in Seq(Nat)
    PROVE  \E u : Horner(u, groups) /\ W!Value(groups) = u[Len(groups)]
<1> DEFINE n == Len(groups)
           Is(u) == u = [i \in 0..n |-> IF i = 0 THEN 0 ELSE u[i - 1] * W!Thousand + groups[n + 1 - i]]
<1>1. n \in Nat /\ \A i \in 1..n : groups[n + 1 - i] \in Nat
    OBVIOUS
<1> HIDE DEF n
<1>g. PICK g : g = [k \in 1..n |-> [x \in Nat |-> x * W!Thousand + groups[n + 1 - k]]]
    OBVIOUS
<1>2. g \in [1..n -> [Nat -> Nat]]
  <2>1. ASSUME NEW k \in 1..n, NEW x \in Nat PROVE x * W!Thousand + groups[n + 1 - k] \in Nat
      BY <1>1 DEF W!Thousand
  <2> QED
      BY <1>g, <2>1
<1>f. PICK f \in [0..n -> Nat] : FollowsTo(n, f, 0, g)
  <2>1. 0 \in Nat
      OBVIOUS
  <2> QED
      BY <1>1, <1>2, <2>1, Steps, Zenon
<1>3. f[0] = 0 /\ \A k \in 1..n : f[k] = g[k][f[k - 1]]
    BY <1>f DEF FollowsTo
<1>4. ASSUME NEW k \in 1..n PROVE f[k] = f[k - 1] * W!Thousand + groups[n + 1 - k]
  <2>1. k - 1 \in 0..n /\ k \in 1..n
      BY <1>1
  <2>2. f[k - 1] \in Nat /\ f[k] = g[k][f[k - 1]]
      BY <1>f, <1>3, <2>1
  <2> QED
      BY <1>g, <2>2
<1>5. Is(f)
    BY <1>1, <1>f, <1>3, <1>4
<1>u. PICK u : u = CHOOSE e : Is(e)
    OBVIOUS
<1>6. Is(u)
    BY <1>5, <1>u, Zenon
<1>7. W!Value(groups) = u[n]
    BY <1>u DEF W!Value, n
<1>8. u[0] = 0
    BY <1>1, <1>6
<1>9. ASSUME NEW k \in 1..n PROVE u[k] = u[k - 1] * W!Thousand + groups[n + 1 - k]
  <2>1. k \in 0..n /\ k # 0
      BY <1>1
  <2> QED
      BY ONLY <2>1, <1>6
<1> DEFINE T == {k \in Nat : k <= n => u[k] \in Nat}
<1>10. \A k \in Nat : k \in T
  <2>1. 0 \in T
      BY <1>8
  <2>2. ASSUME NEW k \in Nat, k \in T PROVE k + 1 \in T
    <3>1. ASSUME k + 1 <= n PROVE u[k + 1] \in Nat
      <4>1. k + 1 \in 1..n /\ (k + 1) - 1 = k /\ u[k] \in Nat
          BY <1>1, <2>2, <3>1
      <4>2. u[k + 1] = u[k] * W!Thousand + groups[n + 1 - (k + 1)] /\ groups[n + 1 - (k + 1)] \in Nat
        <5>1. groups[n + 1 - (k + 1)] \in Nat
            BY <1>1, <4>1
        <5> QED
            BY <1>9, <4>1, <5>1
      <4> QED
          BY <4>1, <4>2 DEF W!Thousand
    <3> QED
        BY <3>1
  <2> HIDE DEF T
  <2> QED
      BY <2>1, <2>2, NatSet
<1>11. \A k \in 0..n : u[k] \in Nat
    BY <1>1, <1>10
<1>12. Horner(u, groups)
    BY <1>8, <1>9, <1>11 DEF n, Horner
<1> QED
    BY <1>7, <1>12 DEF n

\* The value of groups is a number.
LEMMA ValueType ==
    ASSUME NEW groups \in Seq(Nat)
    PROVE  W!Value(groups) \in Nat
<1>1. PICK u : Horner(u, groups) /\ W!Value(groups) = u[Len(groups)]
    BY Values, Zenon
<1>2. Len(groups) \in 0..Len(groups)
    OBVIOUS
<1> QED
    BY <1>1, <1>2 DEF Horner

\* Groups are numbers.
LEMMA ChunkNat ==
    ASSUME NEW groups \in Chunks
    PROVE  groups \in Seq(Nat)
<1>1. Triple \subseteq Nat
    BY DEF Triple
<1> QED
    BY <1>1, SeqMonotonic, Zenon DEF Chunks

\* No groups are zero.
LEMMA ValueNothing ==
    W!Value(<<>>) = 0
<1>1. <<>> \in Seq(Nat) /\ Len(<<>>) = 0
    OBVIOUS
<1>2. PICK u : Horner(u, <<>>) /\ W!Value(<<>>) = u[Len(<<>>)]
    BY <1>1, Values, Zenon
<1> QED
    BY <1>1, <1>2 DEF Horner

\* The value of a single group.
LEMMA ValueOne ==
    ASSUME NEW d \in Nat
    PROVE  W!Value(<<d>>) = d
<1>g. PICK g : g = <<d>>
    OBVIOUS
<1>1. g \in Seq(Nat) /\ Len(g) = 1 /\ g[1] = d
    BY <1>g
<1>2. PICK u : Horner(u, g) /\ W!Value(g) = u[Len(g)]
    BY <1>1, Values, Zenon
<1>3. u[0] = 0 /\ u[1] = u[1 - 1] * W!Thousand + g[1 + 1 - 1]
    BY <1>1, <1>2 DEF Horner
<1> QED
    BY <1>1, <1>2, <1>3, <1>g DEF W!Thousand

\* Zeros in front do not count.
LEMMA ValuePadded ==
    ASSUME NEW groups \in Chunks, NEW m \in Nat, Len(groups) <= m, NEW g,
           g = [i \in 1..m |-> IF i <= Len(groups) THEN groups[i] ELSE 0]
    PROVE  W!Value(g) = W!Value(groups)
<1>n. PICK n : n = Len(groups)
    OBVIOUS
<1>1. n \in Nat /\ groups \in Seq(Nat) /\ n <= m
    BY <1>n, ChunkNat
<1>2. \A i \in 1..n : groups[i] \in Nat
    BY <1>1, <1>n
<1>3. g \in Seq(Nat) /\ Len(g) = m
    BY <1>2, <1>n
<1>u. PICK u : Horner(u, groups) /\ W!Value(groups) = u[Len(groups)]
    BY <1>1, Values, Zenon
<1>v. PICK v : Horner(v, g) /\ W!Value(g) = v[Len(g)]
    BY <1>3, Values, Zenon
<1>4. /\ u[0] = 0 /\ \A i \in 1..n : u[i] = u[i - 1] * W!Thousand + groups[n + 1 - i]
      /\ v[0] = 0 /\ \A i \in 1..m : v[i] = v[i - 1] * W!Thousand + g[m + 1 - i]
    BY <1>3, <1>n, <1>u, <1>v DEF Horner
<1> DEFINE S == {k \in Nat : k <= m - n => v[k] = 0}
           T == {k \in Nat : k <= n => v[(m - n) + k] = u[k]}
<1>5. \A k \in Nat : k \in S
  <2>1. 0 \in S
      BY <1>4
  <2>2. ASSUME NEW k \in Nat, k \in S PROVE k + 1 \in S
    <3>1. ASSUME k + 1 <= m - n PROVE v[k + 1] = 0
      <4>1. k + 1 \in 1..m /\ (k + 1) - 1 = k /\ v[k] = 0 /\ m + 1 - (k + 1) \in 1..m
            /\ ~(m + 1 - (k + 1) <= n)
          BY <1>1, <2>2, <3>1
      <4>2. v[k + 1] = v[k] * W!Thousand + g[m + 1 - (k + 1)]
          BY <1>4, <4>1
      <4>3. g[m + 1 - (k + 1)] = 0
          BY <1>n, <4>1
      <4> QED
          BY <4>1, <4>2, <4>3 DEF W!Thousand
    <3> QED
        BY <3>1
  <2> HIDE DEF S
  <2> QED
      BY <2>1, <2>2, NatSet
<1>6. \A k \in Nat : k \in T
  <2>1. 0 \in T
    <3>1. v[m - n] = 0
        BY <1>1, <1>5
    <3>2. (m - n) + 0 = m - n
        BY <1>1
    <3> QED
        BY <1>4, <3>1, <3>2
  <2>2. ASSUME NEW k \in Nat, k \in T PROVE k + 1 \in T
    <3>1. ASSUME k + 1 <= n PROVE v[(m - n) + (k + 1)] = u[k + 1]
      <4>1. /\ k + 1 \in 1..n /\ (k + 1) - 1 = k /\ v[(m - n) + k] = u[k]
            /\ (m - n) + (k + 1) \in 1..m /\ ((m - n) + (k + 1)) - 1 = (m - n) + k
            /\ m + 1 - ((m - n) + (k + 1)) = n + 1 - (k + 1)
            /\ n + 1 - (k + 1) \in 1..m /\ n + 1 - (k + 1) <= n
          BY <1>1, <2>2, <3>1
      <4>2. v[(m - n) + (k + 1)] = v[(m - n) + k] * W!Thousand + g[n + 1 - (k + 1)]
          BY ONLY <1>4, <4>1
      <4>3. u[k + 1] = u[k] * W!Thousand + groups[n + 1 - (k + 1)]
          BY <1>4, <4>1
      <4>4. g[n + 1 - (k + 1)] = groups[n + 1 - (k + 1)]
          BY <1>n, <4>1
      <4> QED
          BY <4>1, <4>2, <4>3, <4>4
    <3> QED
        BY <3>1
  <2> HIDE DEF T
  <2> QED
      BY <2>1, <2>2, NatSet
<1>7. v[(m - n) + n] = u[n] /\ (m - n) + n = m
    BY <1>1, <1>6
<1> QED
    BY <1>3, <1>7, <1>n, <1>u, <1>v

\* Only no groups at all are 0.
LEMMA ValueZero ==
    ASSUME NEW groups \in Canonical
    PROVE  W!Value(groups) = 0 <=> groups = <<>>
<1>n. PICK n : n = Len(groups)
    OBVIOUS
<1>1. n \in Nat /\ groups \in Seq(Nat) /\ (n = 0 <=> groups = <<>>) /\ (n > 0 => groups[n] # 0)
    BY <1>n, ChunkNat DEF Canonical, Chunks
<1>2. \A i \in 1..n : groups[i] \in Nat
    BY <1>1, <1>n
<1>3. ASSUME n > 0 PROVE W!Value(groups) > 0
  <2>u. PICK u : Horner(u, groups) /\ W!Value(groups) = u[Len(groups)]
      BY <1>1, Values, Zenon
  <2>1. u[0] = 0 /\ \A i \in 1..n : u[i] = u[i - 1] * W!Thousand + groups[n + 1 - i]
      BY <1>n, <2>u DEF Horner
  <2>2. \A i \in 0..n : u[i] \in Nat
      BY <1>n, <2>u DEF Horner
  <2> DEFINE T == {k \in Nat : k + 1 <= n => u[k + 1] > 0}
  <2>3. 0 \in T
    <3>1. 1 \in 1..n /\ 1 - 1 = 0 /\ n + 1 - 1 = n /\ n \in 1..n
        BY <1>1, <1>3
    <3>2. u[1] = u[0] * W!Thousand + groups[n]
        BY <2>1, <3>1
    <3>3. groups[n] \in Nat /\ groups[n] # 0
        BY <1>1, <1>2, <1>3, <3>1
    <3> QED
        BY <2>1, <3>2, <3>3 DEF W!Thousand
  <2>4. ASSUME NEW k \in Nat, k \in T PROVE k + 1 \in T
    <3>1. ASSUME (k + 1) + 1 <= n PROVE u[(k + 1) + 1] > 0
      <4>1. (k + 1) + 1 \in 1..n /\ ((k + 1) + 1) - 1 = k + 1 /\ u[k + 1] > 0
            /\ n + 1 - ((k + 1) + 1) \in 1..n /\ k + 1 \in 0..n
          BY <1>1, <2>4, <3>1
      <4>2. u[(k + 1) + 1] = u[k + 1] * W!Thousand + groups[n + 1 - ((k + 1) + 1)]
          BY <2>1, <4>1
      <4>3. u[k + 1] \in Nat /\ groups[n + 1 - ((k + 1) + 1)] \in Nat
          BY <1>2, <2>2, <4>1
      <4> QED
          BY <4>1, <4>2, <4>3 DEF W!Thousand
    <3> QED
        BY <3>1
  <2> HIDE DEF T
  <2>5. n - 1 \in T
    <3>1. \A k \in Nat : k \in T
        BY <2>3, <2>4, NatSet
    <3> QED
        BY <1>1, <1>3, <3>1
  <2>6. (n - 1) + 1 = n
      BY <1>1
  <2> QED
      BY <1>1, <1>3, <1>n, <2>u, <2>5, <2>6 DEF T
<1> QED
    BY <1>1, <1>3, ValueNothing

\* There is a group that goes up.
LEMMA SomeRises ==
    ASSUME NEW groups \in Chunks
    PROVE  \E k \in 1..Len(groups) + 1 : W!Rises(groups, k)
<1> SUFFICES ASSUME \A k \in 1..Len(groups) + 1 : ~W!Rises(groups, k) PROVE FALSE
    OBVIOUS
<1>n. PICK n : n = Len(groups)
    OBVIOUS
<1>1. n \in Nat
    BY <1>n DEF Chunks
<1> DEFINE T == {k \in Nat : k <= n => \A i \in 1..k : groups[i] = 999}
<1>2. \A k \in Nat : k \in T
  <2>1. 0 \in T
      OBVIOUS
  <2>2. ASSUME NEW k \in Nat, k \in T PROVE k + 1 \in T
    <3>1. ASSUME k + 1 <= n PROVE \A i \in 1..k + 1 : groups[i] = 999
      <4>1. k + 1 \in 1..n + 1 /\ (k + 1) - 1 = k /\ \A i \in 1..k : groups[i] = 999
          BY <1>1, <2>2, <3>1
      <4>2. ~W!Rises(groups, k + 1)
          BY <1>n, <4>1
      <4>3. groups[k + 1] = 999
          BY <4>1, <4>2 DEF W!Rises
      <4> QED
          BY <4>1, <4>3
    <3> QED
        BY <3>1
  <2> HIDE DEF T
  <2> QED
      BY <2>1, <2>2, NatSet
<1>3. \A i \in 1..n : groups[i] = 999
    BY <1>1, <1>2
<1>4. n + 1 \in 1..n + 1 /\ (n + 1) - 1 = n /\ ~(n + 1 <= n)
    BY <1>1
<1>5. W!Rises(groups, n + 1)
    BY <1>3, <1>4, <1>n DEF W!Rises
<1> QED
    BY <1>4, <1>5, <1>n

\* What a carry makes of the integer part: one more.
LEMMA Incremented ==
    ASSUME NEW groups \in Canonical, NEW g, g = W!Increment(groups)
    PROVE  /\ g \in Canonical /\ g # <<>> /\ W!Value(g) = W!Value(groups) + 1
           /\ Len(g) > W!Scales + 1 <=> \/ Len(groups) > W!Scales + 1
                                        \/ groups = [i \in 1..W!Scales + 1 |-> 999]
<1>n. PICK n : n = Len(groups)
    OBVIOUS
<1>0. n \in Nat /\ groups \in Chunks /\ groups \in Seq(Nat) /\ (n > 0 => groups[n] # 0)
    BY <1>n, ChunkNat DEF Canonical, Chunks
<1>d. ASSUME NEW i \in 1..n PROVE groups[i] \in Triple
    BY <1>0, <1>n, ElementOfSeq DEF Chunks
<1>t. ASSUME NEW x \in Triple PROVE x \in Nat /\ (x # 999 => x + 1 \in Triple)
    BY DEF Triple
<1>o. 0 \in Triple /\ 1 \in Triple
    BY DEF Triple
<1>k. PICK k : k = CHOOSE i \in 1..Len(groups) + 1 : W!Rises(groups, i)
    OBVIOUS
<1>1. k \in 1..n + 1 /\ W!Rises(groups, k)
    BY <1>0, <1>k, <1>n, SomeRises, Zenon
<1>2. (\A i \in 1..k - 1 : groups[i] = 999) /\ (k <= n => groups[k] # 999)
    BY <1>1, <1>n DEF W!Rises
<1>3. g = [i \in 1..n \cup {k} |-> IF i < k THEN 0
                                   ELSE IF i > k THEN groups[i]
                                   ELSE IF i > n THEN 1 ELSE groups[i] + 1]
    BY <1>k, <1>n, Zenon DEF W!Increment
<1>m. PICK m : m = IF k = n + 1 THEN n + 1 ELSE n
    OBVIOUS
<1>4. m \in Nat /\ 1..n \cup {k} = 1..m /\ k \in 1..m /\ m > 0 /\ k \in Nat
    BY <1>0, <1>1, <1>m
<1>5. /\ \A i \in 1..k - 1 : g[i] = 0
      /\ \A i \in k + 1..m : g[i] = groups[i] /\ i \in 1..n
      /\ g[k] = IF k = n + 1 THEN 1 ELSE groups[k] + 1
  <2>1. g = [i \in 1..m |-> IF i < k THEN 0
                            ELSE IF i > k THEN groups[i]
                            ELSE IF i > n THEN 1 ELSE groups[i] + 1]
      BY <1>3, <1>4, Zenon
  <2> QED
      BY <1>0, <1>1, <1>4, <1>m, <2>1
<1>6. ASSUME NEW i \in 1..m PROVE g[i] \in Triple
  <2>1. i < k \/ i = k \/ i > k
      BY <1>4
  <2>2. CASE i < k
      BY <1>4, <1>5, <1>o, <2>2
  <2>3. CASE i > k
      BY <1>4, <1>5, <1>d, <2>3
  <2>4. CASE i = k
    <3>1. CASE k = n + 1
        BY <1>5, <1>o, <2>4, <3>1
    <3>2. CASE k # n + 1
      <4>1. k \in 1..n /\ groups[k] # 999
          BY <1>0, <1>1, <1>2, <3>2
      <4> QED
          BY <1>5, <1>d, <1>t, <2>4, <3>2, <4>1
    <3> QED
        BY <3>1, <3>2
  <2> QED
      BY <2>1, <2>2, <2>3, <2>4
<1>7. g \in Seq(Triple) /\ Len(g) = m
  <2>1. g \in [1..m -> Triple]
    <3>1. g = [i \in 1..m |-> g[i]]
        BY <1>3, <1>4
    <3> QED
        BY <1>6, <3>1
  <2> QED
      BY <1>4, <2>1
<1>8. g[m] # 0
  <2>1. CASE k = m
    <3>1. CASE k = n + 1
        BY <1>5, <2>1, <3>1
    <3>2. CASE k # n + 1
      <4>1. k \in 1..n
          BY <1>0, <1>1, <3>2
      <4>2. groups[k] \in Nat
          BY <1>d, <1>t, <4>1
      <4> QED
          BY <1>5, <2>1, <3>2, <4>2
    <3> QED
        BY <3>1, <3>2
  <2>2. CASE k # m
    <3>1. m \in k + 1..m /\ m = n /\ n > 0
        BY <1>0, <1>1, <1>4, <1>m, <2>2
    <3> QED
        BY <1>0, <1>5, <3>1
  <2> QED
      BY <2>1, <2>2
<1>9. g \in Canonical /\ g # <<>>
    BY <1>4, <1>7, <1>8 DEF Canonical, Chunks
<1>10. m > W!Scales + 1 <=> n > W!Scales + 1 \/ groups = [i \in 1..W!Scales + 1 |-> 999]
  <2>1. CASE n < W!Scales + 1 \/ n > W!Scales + 1
    <3>1. groups # [i \in 1..W!Scales + 1 |-> 999]
      <4>f. PICK f : f = [i \in 1..W!Scales + 1 |-> 999]
          OBVIOUS
      <4>1. Len(f) = W!Scales + 1
          BY <4>f DEF W!Scales
      <4>2. n # W!Scales + 1
          BY <1>0, <2>1 DEF W!Scales
      <4> QED
          BY ONLY <1>n, <4>f, <4>1, <4>2
    <3> QED
        BY <1>0, <1>m, <2>1, <3>1 DEF W!Scales
  <2>2. CASE n = W!Scales + 1
    <3>1. m > W!Scales + 1 <=> k = n + 1
        BY <1>0, <1>m, <2>2 DEF W!Scales
    <3>2. ASSUME k = n + 1 PROVE groups = [i \in 1..W!Scales + 1 |-> 999]
      <4>1. \A i \in 1..n : groups[i] = 999
          BY <1>0, <1>2, <3>2
      <4>2. groups = [i \in 1..n |-> groups[i]]
          BY <1>0, <1>n
      <4> QED
          BY <2>2, <4>1, <4>2
    <3>3. ASSUME groups = [i \in 1..W!Scales + 1 |-> 999] PROVE k = n + 1
      <4>1. \A i \in 1..n : groups[i] = 999
          BY <2>2, <3>3
      <4> QED
          BY <1>0, <1>1, <1>2, <4>1
    <3>4. ~(n > W!Scales + 1)
        BY <2>2 DEF W!Scales
    <3> QED
        BY <3>1, <3>2, <3>3, <3>4
  <2> QED
      BY <1>0, <2>1, <2>2 DEF W!Scales
<1>11. W!Value(g) = W!Value(groups) + 1
  <2>1. g \in Seq(Nat)
      BY <1>9, ChunkNat DEF Canonical
  <2>u. PICK u : Horner(u, groups) /\ W!Value(groups) = u[Len(groups)]
      BY <1>0, Values, Zenon
  <2>v. PICK v : Horner(v, g) /\ W!Value(g) = v[Len(g)]
      BY <2>1, Values, Zenon
  <2>2. /\ u[0] = 0 /\ \A i \in 1..n : u[i] = u[i - 1] * W!Thousand + groups[n + 1 - i]
        /\ v[0] = 0 /\ \A i \in 1..m : v[i] = v[i - 1] * W!Thousand + g[m + 1 - i]
        /\ \A i \in 0..n : u[i] \in Nat
      BY <1>7, <1>n, <2>u, <2>v DEF Horner
  \* The groups above k are as they were.
  <2> DEFINE S == {j \in Nat : j <= m - k => v[j] = u[j]}
  <2>3. \A j \in Nat : j \in S
    <3>1. 0 \in S
        BY <2>2
    <3>2. ASSUME NEW j \in Nat, j \in S PROVE j + 1 \in S
      <4>1. ASSUME j + 1 <= m - k PROVE v[j + 1] = u[j + 1]
        <5>1. m = n
            BY <1>0, <1>1, <1>4, <1>m, <4>1
        <5>2. /\ j + 1 \in 1..m /\ j + 1 \in 1..n /\ (j + 1) - 1 = j /\ v[j] = u[j]
              /\ m + 1 - (j + 1) = n + 1 - (j + 1) /\ m + 1 - (j + 1) \in k + 1..m
            BY <1>0, <1>1, <1>4, <3>2, <4>1, <5>1
        <5>3. v[j + 1] = v[j] * W!Thousand + g[m + 1 - (j + 1)]
            BY ONLY <2>2, <5>2
        <5>4. u[j + 1] = u[j] * W!Thousand + groups[n + 1 - (j + 1)]
            BY ONLY <2>2, <5>2
        <5>5. g[m + 1 - (j + 1)] = groups[n + 1 - (j + 1)]
            BY <1>5, <5>2
        <5> QED
            BY <5>2, <5>3, <5>4, <5>5
      <4> QED
          BY <4>1
    <3> HIDE DEF S
    <3> QED
        BY <3>1, <3>2, NatSet
  \* From k on there is one more.
  <2> DEFINE T == {j \in Nat : j <= k - 1 =>
                       v[(m + 1 - k) + j] = (IF k = n + 1 THEN u[j] ELSE u[(m + 1 - k) + j]) + 1}
  <2>4. 0 \in T
    <3>1. m - k \in Nat /\ m - k <= m - k /\ (m + 1 - k) - 1 = m - k /\ (m + 1 - k) + 0 = m + 1 - k
          /\ m + 1 - k \in 1..m /\ m + 1 - (m + 1 - k) = k
        BY <1>4
    <3>2. v[m - k] = u[m - k]
        BY <2>3, <3>1
    <3>3. v[m + 1 - k] = v[m - k] * W!Thousand + g[k]
        BY ONLY <2>2, <3>1
    <3>4. CASE k = n + 1
      <4>1. m - k = 0 /\ g[k] = 1
          BY <1>0, <1>4, <1>5, <1>m, <3>4
      <4>2. v[m + 1 - k] = 1
          BY <2>2, <3>2, <3>3, <4>1 DEF W!Thousand
      <4> QED
          BY <2>2, <3>1, <3>4, <4>2
    <3>5. CASE k # n + 1
      <4>1. m = n /\ k \in 1..n /\ g[k] = groups[k] + 1
          BY <1>0, <1>1, <1>5, <1>m, <3>5
      <4>2. groups[k] \in Nat
          BY <1>d, <1>t, <4>1
      <4>3. u[m + 1 - k] = u[m - k] * W!Thousand + groups[k]
        <5>1. m + 1 - k \in 1..n /\ n + 1 - (m + 1 - k) = k
            BY <3>1, <4>1
        <5> QED
            BY ONLY <2>2, <3>1, <5>1
      <4>4. u[m - k] \in Nat
          BY <1>4, <2>2, <3>1, <4>1
      <4>5. v[m + 1 - k] = u[m + 1 - k] + 1
          BY <3>2, <3>3, <4>1, <4>2, <4>3, <4>4 DEF W!Thousand
      <4> QED
          BY <3>1, <3>5, <4>5
    <3> QED
        BY <3>4, <3>5
  <2>5. ASSUME NEW j \in Nat, j \in T PROVE j + 1 \in T
    <3>1. ASSUME j + 1 <= k - 1
          PROVE  v[(m + 1 - k) + (j + 1)]
                     = (IF k = n + 1 THEN u[j + 1] ELSE u[(m + 1 - k) + (j + 1)]) + 1
      <4>x. PICK x : x = IF k = n + 1 THEN j ELSE (m + 1 - k) + j
          OBVIOUS
      <4>1. /\ x \in 0..n /\ x + 1 \in 1..n /\ (x + 1) - 1 = x
            /\ n + 1 - (x + 1) = (k - 1) - j /\ (k - 1) - j \in 1..k - 1
          BY <1>0, <1>1, <1>4, <1>m, <3>1, <4>x
      <4>2. v[(m + 1 - k) + j] = u[x] + 1
        <5>1. j <= k - 1
            BY <1>4, <3>1
        <5>2. v[(m + 1 - k) + j] = (IF k = n + 1 THEN u[j] ELSE u[(m + 1 - k) + j]) + 1
            BY <2>5, <5>1
        <5> QED
            BY ONLY <4>x, <5>2
      <4>3. u[x + 1] = u[x] * W!Thousand + groups[(k - 1) - j] /\ u[x] \in Nat
          BY ONLY <2>2, <4>1
      <4>4. /\ (m + 1 - k) + (j + 1) \in 1..m /\ ((m + 1 - k) + (j + 1)) - 1 = (m + 1 - k) + j
            /\ m + 1 - ((m + 1 - k) + (j + 1)) = (k - 1) - j
          BY <1>4, <3>1
      <4>5. v[(m + 1 - k) + (j + 1)] = v[(m + 1 - k) + j] * W!Thousand + g[(k - 1) - j]
          BY ONLY <2>2, <4>4
      <4>6. groups[(k - 1) - j] = 999 /\ g[(k - 1) - j] = 0
          BY <1>2, <1>5, <4>1
      <4>7. v[(m + 1 - k) + (j + 1)] = u[x + 1] + 1
          BY ONLY <4>2, <4>3, <4>5, <4>6 DEF W!Thousand
      <4>8. x + 1 = IF k = n + 1 THEN j + 1 ELSE (m + 1 - k) + (j + 1)
          BY <1>4, <4>x
      <4> QED
          BY <4>7, <4>8
    <3> QED
        BY <3>1
  <2> HIDE DEF T
  <2>6. k - 1 \in T
    <3>1. \A j \in Nat : j \in T
        BY <2>4, <2>5, NatSet
    <3> QED
        BY <1>4, <3>1
  <2>7. k - 1 <= k - 1 /\ (m + 1 - k) + (k - 1) = m /\ (k = n + 1 => k - 1 = n) /\ (k # n + 1 => m = n)
      BY <1>0, <1>4, <1>m
  <2>8. v[m] = u[n] + 1
      BY <2>6, <2>7 DEF T
  <2> QED
      BY <1>7, <1>n, <2>u, <2>v, <2>8
<1> QED
    BY <1>7, <1>9, <1>10, <1>11, <1>n

\* The words of a number in Bengali, when x are those of its crores.
Part(number, scale) ==
    IF number = 0 THEN <<>> ELSE <<W!Word("number", number), W!Word(scale, 0)>>
Crores(x, n) == IF n \div W!Crore > 0 THEN x \o <<W!Word("crore", 0)>> ELSE <<>>
Last(n) == IF n % 100 > 0 THEN <<W!Word("number", n % 100)>> ELSE <<>>
Body(x, n) == Crores(x, n) \o Part((n % W!Crore) \div W!Lakh, "lakh")
                           \o Part((n % W!Lakh) \div W!Thousand, "thousand")
                           \o Part((n % W!Thousand) \div 100, "hundred")
                           \o Last(n)

\* A number is made of its crores, lakhs, thousands, hundreds and the rest.
LEMMA NumberParts ==
    ASSUME NEW n \in Nat
    PROVE  /\ n \div W!Crore \in Nat /\ (n % W!Crore) \div W!Lakh \in Nat
           /\ (n % W!Lakh) \div W!Thousand \in Nat /\ (n % W!Thousand) \div 100 \in Nat
           /\ n % 100 \in Nat
           /\ (n \div W!Crore) * W!Crore + ((n % W!Crore) \div W!Lakh) * W!Lakh
                  + ((n % W!Lakh) \div W!Thousand) * W!Thousand
                  + ((n % W!Thousand) \div 100) * 100 + (n % 100) = n
           /\ n \div W!Crore > 0 => n \div W!Crore < n
<1>1. /\ n \div W!Crore \in Nat /\ (n % W!Crore) \div W!Lakh \in Nat
      /\ (n % W!Lakh) \div W!Thousand \in Nat /\ (n % W!Thousand) \div 100 \in Nat
      /\ n % 100 \in Nat
      /\ n \div W!Crore > 0 => n \div W!Crore < n
    BY DEF W!Thousand, W!Lakh, W!Crore
<1>2. (n \div W!Crore) * W!Crore + ((n % W!Crore) \div W!Lakh) * W!Lakh
          + ((n % W!Lakh) \div W!Thousand) * W!Thousand
          + ((n % W!Thousand) \div 100) * 100 + (n % 100) = n
    BY DEF W!Thousand, W!Lakh, W!Crore
<1> QED
    BY <1>1, <1>2

\* The parts have words, none when they are 0.
LEMMA PartWords ==
    ASSUME NEW number \in Nat, NEW scale \in {"hundred", "thousand", "lakh"}
    PROVE  /\ Part(number, scale) \in Seq(Spoken)
           /\ Part(number, scale) = <<>> <=> number = 0
<1>1. CASE number = 0
    BY <1>1 DEF Part
<1>2. CASE number # 0
  <2>1. PICK a, b : a = W!Word("number", number) /\ b = W!Word(scale, 0)
      OBVIOUS
  <2>2. a \in Spoken /\ b \in Spoken
      BY <2>1, SpokenWords
  <2>3. Part(number, scale) = <<a, b>>
      BY <1>2, <2>1 DEF Part
  <2>4. <<a, b>> \in Seq(Spoken) /\ <<a, b>> # <<>>
      BY <2>2
  <2> QED
      BY <1>2, <2>3, <2>4
<1> QED
    BY <1>1, <1>2

\* The words of the last two digits, none for 00.
LEMMA LastWords ==
    ASSUME NEW n \in Nat
    PROVE  Last(n) \in Seq(Spoken) /\ (Last(n) = <<>> <=> n % 100 = 0)
<1>r. PICK r : r = n % 100
    OBVIOUS
<1>1. r \in Nat
    BY <1>r
<1>a. PICK a : a = W!Word("number", r)
    OBVIOUS
<1>2. a \in Spoken
    BY <1>1, <1>a, SpokenWords
<1>3. Last(n) = IF r > 0 THEN <<a>> ELSE <<>>
    BY <1>a, <1>r DEF Last
<1> QED
    BY <1>1, <1>2, <1>3, <1>r

\* The words of the crores, none if there are none.
LEMMA CroreWords ==
    ASSUME NEW n \in Nat, NEW S, Spoken \subseteq S, NEW x \in Seq(S)
    PROVE  /\ Crores(x, n) \in Seq(S)
           /\ Crores(x, n) = <<>> <=> n \div W!Crore = 0
<1>a. PICK a : a = W!Word("crore", 0)
    OBVIOUS
<1>1. a \in S
  <2>1. a \in Spoken
      BY <1>a, SpokenWords
  <2> QED
      BY <2>1
<1>2. n \div W!Crore \in Nat
    BY NumberParts
<1>3. Crores(x, n) = IF n \div W!Crore > 0 THEN x \o <<a>> ELSE <<>>
    BY <1>a DEF Crores
<1>4. x \o <<a>> \in Seq(S) /\ x \o <<a>> # <<>>
    BY <1>1
<1> QED
    BY <1>2, <1>3, <1>4

\* All five parts together.
LEMMA Five ==
    ASSUME NEW S, NEW a \in Seq(S), NEW b \in Seq(S), NEW c \in Seq(S), NEW d \in Seq(S),
           NEW e \in Seq(S)
    PROVE  /\ a \o b \o c \o d \o e \in Seq(S)
           /\ a \o b \o c \o d \o e = <<>>
                  <=> a = <<>> /\ b = <<>> /\ c = <<>> /\ d = <<>> /\ e = <<>>
<1>1. PICK ab : ab = a \o b
    OBVIOUS
<1>2. ab \in Seq(S) /\ (ab = <<>> <=> a = <<>> /\ b = <<>>)
    BY <1>1, ConcatProperties, ConcatEqualIffEmpty
<1>3. PICK abc : abc = ab \o c
    OBVIOUS
<1>4. abc \in Seq(S) /\ (abc = <<>> <=> ab = <<>> /\ c = <<>>)
    BY <1>2, <1>3, ConcatProperties, ConcatEqualIffEmpty
<1>5. PICK abcd : abcd = abc \o d
    OBVIOUS
<1>6. abcd \in Seq(S) /\ (abcd = <<>> <=> abc = <<>> /\ d = <<>>)
    BY <1>4, <1>5, ConcatProperties, ConcatEqualIffEmpty
<1>7. abcd \o e \in Seq(S) /\ (abcd \o e = <<>> <=> abcd = <<>> /\ e = <<>>)
    BY <1>6, ConcatProperties, ConcatEqualIffEmpty
<1> QED
    BY <1>1, <1>2, <1>3, <1>4, <1>5, <1>6, <1>7, Zenon

\* The number has words, none when it is 0.
LEMMA BodyWords ==
    ASSUME NEW n \in Nat, NEW S, Spoken \subseteq S, NEW x \in Seq(S)
    PROVE  Body(x, n) \in Seq(S) /\ (Body(x, n) = <<>> <=> n = 0)
<1>1. /\ n \div W!Crore \in Nat /\ (n % W!Crore) \div W!Lakh \in Nat
      /\ (n % W!Lakh) \div W!Thousand \in Nat /\ (n % W!Thousand) \div 100 \in Nat
      /\ n % 100 \in Nat
    BY NumberParts
<1>z. n = 0 <=> /\ n \div W!Crore = 0 /\ (n % W!Crore) \div W!Lakh = 0
                /\ (n % W!Lakh) \div W!Thousand = 0 /\ (n % W!Thousand) \div 100 = 0
                /\ n % 100 = 0
  <2>1. n = 0 => /\ n \div W!Crore = 0 /\ (n % W!Crore) \div W!Lakh = 0
                 /\ (n % W!Lakh) \div W!Thousand = 0 /\ (n % W!Thousand) \div 100 = 0
                 /\ n % 100 = 0
      BY DEF W!Thousand, W!Lakh, W!Crore
  <2>2. ASSUME /\ n \div W!Crore = 0 /\ (n % W!Crore) \div W!Lakh = 0
               /\ (n % W!Lakh) \div W!Thousand = 0 /\ (n % W!Thousand) \div 100 = 0
               /\ n % 100 = 0
        PROVE  n = 0
    <3>1. 0 * W!Crore + 0 * W!Lakh + 0 * W!Thousand + 0 * 100 + 0 = 0
        BY DEF W!Thousand, W!Lakh, W!Crore
    <3> QED
        BY ONLY n \in Nat, <2>2, <3>1, NumberParts
  <2> QED
      BY <2>1, <2>2
<1>s. \A w \in Seq(Spoken) : w \in Seq(S)
    BY SeqMonotonic
<1>a. PICK a : a = Crores(x, n)
    OBVIOUS
<1>b. PICK b : b = Part((n % W!Crore) \div W!Lakh, "lakh")
    OBVIOUS
<1>c. PICK c : c = Part((n % W!Lakh) \div W!Thousand, "thousand")
    OBVIOUS
<1>d. PICK d : d = Part((n % W!Thousand) \div 100, "hundred")
    OBVIOUS
<1>e. PICK e : e = Last(n)
    OBVIOUS
<1>2. a \in Seq(S) /\ (a = <<>> <=> n \div W!Crore = 0)
    BY <1>a, CroreWords, Zenon
<1>3. b \in Seq(S) /\ (b = <<>> <=> (n % W!Crore) \div W!Lakh = 0)
    BY <1>1, <1>b, <1>s, PartWords, Zenon
<1>4. c \in Seq(S) /\ (c = <<>> <=> (n % W!Lakh) \div W!Thousand = 0)
    BY <1>1, <1>c, <1>s, PartWords, Zenon
<1>5. d \in Seq(S) /\ (d = <<>> <=> (n % W!Thousand) \div 100 = 0)
    BY <1>1, <1>d, <1>s, PartWords, Zenon
<1>6. e \in Seq(S) /\ (e = <<>> <=> n % 100 = 0)
    BY <1>e, <1>s, LastWords, Zenon
<1>7. Body(x, n) = a \o b \o c \o d \o e
    BY <1>a, <1>b, <1>c, <1>d, <1>e, Zenon DEF Body
<1>8. /\ a \o b \o c \o d \o e \in Seq(S)
      /\ a \o b \o c \o d \o e = <<>>
             <=> a = <<>> /\ b = <<>> /\ c = <<>> /\ d = <<>> /\ e = <<>>
  <2>1. a \in Seq(S) /\ b \in Seq(S) /\ c \in Seq(S) /\ d \in Seq(S) /\ e \in Seq(S)
      BY <1>2, <1>3, <1>4, <1>5, <1>6
  <2> QED
      BY ONLY <2>1, Five
<1> QED
    BY <1>2, <1>3, <1>4, <1>5, <1>6, <1>7, <1>8, <1>z, Zenon

\* Bengali words are those of the crores and the rest, however many crores there are.
LEMMA Unrolls ==
    ASSUME NEW n \in Nat
    PROVE  /\ W!convertIntegerToBnWords[n]
                  = Body(W!convertIntegerToBnWords[n \div W!Crore], n)
           /\ W!convertIntegerToBnWords[n] \in Seq(Vocabulary)
<1> DEFINE Is(f) == f = [k \in Nat |-> Body(f[k \div W!Crore], k)]
<1>0. Spoken \subseteq Vocabulary /\ <<>> \in Seq(Vocabulary)
    BY DEF Spoken
<1>S. PICK S : S = [Nat -> Seq(Vocabulary)]
    OBVIOUS
<1>b. PICK b : b = [k \in Nat |-> <<>>]
    OBVIOUS
<1>g. PICK g : g = [d \in Nat |-> [F \in S |-> [k \in Nat |-> Body(F[k \div W!Crore], k)]]]
    OBVIOUS
<1>q. ASSUME NEW k \in Nat PROVE k \div W!Crore \in Nat /\ (k \div W!Crore > 0 => k \div W!Crore < k)
    BY NumberParts, Zenon
<1>1. b \in S
    BY <1>0, <1>b, <1>S
<1>2. g \in [Nat -> [S -> S]]
  <2>1. ASSUME NEW F \in S PROVE [k \in Nat |-> Body(F[k \div W!Crore], k)] \in S
    <3>1. ASSUME NEW k \in Nat PROVE Body(F[k \div W!Crore], k) \in Seq(Vocabulary)
      <4>1. F[k \div W!Crore] \in Seq(Vocabulary)
          BY <1>q, <1>S
      <4> QED
          BY <1>0, <4>1, BodyWords, Zenon
    <3> QED
        BY <1>S, <3>1
  <2> QED
      BY <1>g, <2>1
<1>r. PICK r \in [Nat -> S] : Follows(r, b, g)
    BY <1>1, <1>2, Recursion, Zenon
<1>3. ASSUME NEW d \in Nat, NEW k \in Nat
      PROVE  /\ r[d + 1][k] = Body(r[d][k \div W!Crore], k)
             /\ r[d][k] \in Seq(Vocabulary)
  <2>1. r[d] \in S /\ r[d + 1] = g[d][r[d]]
      BY <1>r DEF Follows
  <2>2. g[d][r[d]] = [e \in Nat |-> Body(r[d][e \div W!Crore], e)]
      BY <1>g, <2>1
  <2>3. r[d] \in [Nat -> Seq(Vocabulary)]
      BY <1>S, <2>1
  <2> QED
      BY <2>1, <2>2, <2>3
<1>4. ASSUME NEW k \in Nat, NEW x, NEW y, k \div W!Crore = 0 \/ x = y
      PROVE  Body(x, k) = Body(y, k)
  <2>1. Crores(x, k) = Crores(y, k)
      BY <1>4 DEF Crores
  <2> QED
      BY <2>1, Zenon DEF Body
\* Number k has settled after k + 1 rounds.
<1> DEFINE T == {d \in Nat : \A k \in Nat : k < d => r[d + 1][k] = r[d][k]}
<1>5. \A d \in Nat : d \in T
  <2>1. 0 \in T
      OBVIOUS
  <2>2. ASSUME NEW d \in Nat, d \in T PROVE d + 1 \in T
    <3>1. ASSUME NEW k \in Nat, k < d + 1 PROVE r[(d + 1) + 1][k] = r[d + 1][k]
      <4>q. PICK q \in Nat : q = k \div W!Crore
          BY <1>q
      <4>1. q = 0 \/ r[d + 1][q] = r[d][q]
        <5>1. q > 0 => q < d
            BY <1>q, <3>1, <4>q
        <5>2. q < d => r[d + 1][q] = r[d][q]
            BY <2>2
        <5> QED
            BY <5>1, <5>2
      <4>2. r[d + 1][k] = Body(r[d][q], k)
          BY <1>3, <4>q
      <4>3. r[(d + 1) + 1][k] = Body(r[d + 1][q], k)
        <5>e. PICK e \in Nat : e = d + 1
            OBVIOUS
        <5>1. r[e + 1][k] = Body(r[e][q], k)
            BY <1>3, <4>q, Zenon
        <5> QED
            BY <5>1, <5>e, Zenon
      <4>4. Body(r[d][q], k) = Body(r[d + 1][q], k)
          BY <1>4, <4>1, <4>q
      <4> QED
          BY <4>2, <4>3, <4>4
    <3> QED
        BY <3>1
  <2> HIDE DEF T
  <2> QED
      BY <2>1, <2>2, NatSet
<1>6. ASSUME NEW k \in Nat, NEW d \in Nat PROVE r[(k + 1) + d][k] = r[k + 1][k]
  <2> DEFINE U == {e \in Nat : r[(k + 1) + e][k] = r[k + 1][k]}
  <2>1. 0 \in U
      OBVIOUS
  <2>2. ASSUME NEW e \in Nat, e \in U PROVE e + 1 \in U
    <3>1. (k + 1) + e \in Nat /\ k < (k + 1) + e /\ ((k + 1) + e) + 1 = (k + 1) + (e + 1)
        OBVIOUS
    <3>2. r[((k + 1) + e) + 1][k] = r[(k + 1) + e][k]
        BY <1>5, <3>1
    <3> QED
        BY <2>2, <3>1, <3>2
  <2> HIDE DEF U
  <2>3. d \in U
      BY <2>1, <2>2, NatSet
  <2> QED
      BY <2>3 DEF U
<1>f. PICK f : f = [k \in Nat |-> r[k + 1][k]]
    OBVIOUS
<1>7. ASSUME NEW k \in Nat PROVE f[k] = Body(f[k \div W!Crore], k)
  <2>q. PICK q \in Nat : q = k \div W!Crore
      BY <1>q
  <2>1. f[k] = Body(r[k][q], k) /\ f[q] = r[q + 1][q]
      BY <1>3, <1>f, <2>q
  <2>2. q = 0 \/ r[k][q] = r[q + 1][q]
    <3>1. CASE q > 0
      <4>1. PICK d \in Nat : (q + 1) + d = k
        <5>1. q < k
            BY <1>q, <2>q, <3>1
        <5>2. k - (q + 1) \in Nat /\ (q + 1) + (k - (q + 1)) = k
            BY <5>1
        <5> QED
            BY <5>2
      <4> QED
          BY <1>6, <4>1
    <3> QED
        BY <3>1
  <2>3. Body(r[k][q], k) = Body(f[q], k)
      BY <1>4, <2>1, <2>2, <2>q
  <2> QED
      BY <2>1, <2>3, <2>q
<1>8. Is(f)
    BY <1>7, <1>f
<1>h. PICK h : h = CHOOSE e : Is(e)
    OBVIOUS
<1>9. Is(h)
    BY <1>8, <1>h, Zenon
<1>10. W!convertIntegerToBnWords = h
    BY <1>h, Zenon DEF W!convertIntegerToBnWords, Body, Crores, Last, Part
<1>11. ASSUME NEW k \in Nat PROVE h[k] = Body(h[k \div W!Crore], k)
    BY ONLY k \in Nat, <1>9
\* Strong induction: a number's words are words if those of all lower numbers are.
<1> DEFINE V == {d \in Nat : \A k \in Nat : k < d => h[k] \in Seq(Vocabulary)}
<1>12. \A d \in Nat : d \in V
  <2>1. 0 \in V
      OBVIOUS
  <2>2. ASSUME NEW d \in Nat, d \in V PROVE d + 1 \in V
    <3>1. ASSUME NEW k \in Nat, k < d + 1 PROVE h[k] \in Seq(Vocabulary)
      <4>q. PICK q \in Nat : q = k \div W!Crore
          BY <1>q
      <4>1. CASE q = 0
        <5>1. h[k] = Body(<<>>, k)
            BY <1>11, <1>4, <4>1, <4>q
        <5>2. Body(<<>>, k) \in Seq(Vocabulary)
            BY <1>0, BodyWords, Zenon
        <5> QED
            BY <5>1, <5>2, Zenon
      <4>2. CASE q > 0
        <5>1. q < d
            BY <1>q, <3>1, <4>2, <4>q
        <5>2. h[q] \in Seq(Vocabulary)
            BY <2>2, <5>1
        <5>3. h[k] = Body(h[q], k)
            BY <1>11, <4>q
        <5>4. Body(h[q], k) \in Seq(Vocabulary)
            BY <1>0, <5>2, BodyWords, Zenon
        <5> QED
            BY <5>3, <5>4, Zenon
      <4> QED
          BY <4>1, <4>2
    <3> QED
        BY <3>1
  <2> HIDE DEF V
  <2> QED
      BY <2>1, <2>2, NatSet
<1>13. h[n] \in Seq(Vocabulary)
  <2>e. PICK e \in Nat : e = n + 1
      OBVIOUS
  <2>1. e \in V
      BY <1>12, Zenon
  <2> QED
      BY <2>e, <2>1
<1> QED
    BY <1>10, <1>11, <1>13, Zenon

\* The same for the scales of Bengali.
LEMMA HearThousand ==
    ASSUME NEW sum \in Nat, NEW part \in Nat, NEW at \in Groups, NEW n \in Nat
    PROVE  W!Hear(At(sum, part, at), W!Word("thousand", n)) = At(sum + part * W!Thousand, 0, at)
BY DEF W!Hear, W!Word, At

\* A lakh multiplies what came since the scale before it.
LEMMA HearLakh ==
    ASSUME NEW sum \in Nat, NEW part \in Nat, NEW at \in Groups, NEW n \in Nat
    PROVE  W!Hear(At(sum, part, at), W!Word("lakh", n)) = At(sum + part * W!Lakh, 0, at)
BY DEF W!Hear, W!Word, At

\* A crore multiplies all that came before it.
LEMMA HearCrore ==
    ASSUME NEW sum \in Nat, NEW part \in Nat, NEW at \in Groups, NEW n \in Nat
    PROVE  W!Hear(At(sum, part, at), W!Word("crore", n)) = At((sum + part) * W!Crore, 0, at)
BY DEF W!Hear, W!Word, At

\* What is heard of a scale, and of a number with its scale.
ScaleSaid(sum, number, at, scale, factor) ==
    W!Hear(At(sum, number, at), W!Word(scale, 0)) = At(sum + number * factor, 0, at)
PartSaid(sum, number, at, scale, factor) ==
    W!Read(At(sum, 0, at), Part(number, scale)) = At(sum + number * factor, 0, at)

\* A part whose scale says what it should is heard as its number of them.
LEMMA PartHeard ==
    ASSUME NEW sum \in Nat, NEW number \in Nat, NEW at \in Groups, NEW factor \in Nat,
           NEW scale \in {"hundred", "thousand", "lakh"},
           ScaleSaid(sum, number, at, scale, factor)
    PROVE  PartSaid(sum, number, at, scale, factor)
<1>0. At(sum, 0, at) \in States
    BY AtType
<1>1. CASE number = 0
  <2>1. Part(number, scale) = <<>> /\ sum + number * factor = sum
      BY <1>1 DEF Part
  <2>2. W!Read(At(sum, 0, at), <<>>) = At(sum, 0, at)
      BY <1>0, ReadNothing, Zenon
  <2> QED
      BY <2>1, <2>2, Zenon DEF PartSaid
<1>2. CASE number # 0
  <2>1. PICK a, b : a = W!Word("number", number) /\ b = W!Word(scale, 0)
      OBVIOUS
  <2>2. a \in Vocabulary /\ b \in Vocabulary
      BY <2>1, SpokenWords
  <2>3. Part(number, scale) = <<a, b>>
      BY <1>2, <2>1 DEF Part
  <2>4. W!Hear(At(sum, 0, at), a) = At(sum, 0 + number, at) /\ 0 + number = number
      BY <2>1, HearNumber
  <2>5. W!Read(At(sum, 0, at), <<a, b>>) = W!Hear(W!Hear(At(sum, 0, at), a), b)
      BY <1>0, <2>2, ReadTwo, Zenon
  <2> QED
      BY <2>1, <2>3, <2>4, <2>5, Zenon DEF ScaleSaid, PartSaid
<1> QED
    BY <1>1, <1>2

\* The words x are heard as the number n.
HeardAs(n, x) ==
    \E sum, part \in Nat :
        /\ sum + part = n
        /\ W!Read(W!Silence, x) = At(sum, part, [i \in 1..W!Scales + 1 |-> 0])

\* If the crores are heard right, the number is.
LEMMA BodyHeard ==
    ASSUME NEW n \in Nat, NEW x \in Seq(Vocabulary),
           n \div W!Crore > 0 => HeardAs(n \div W!Crore, x)
    PROVE  HeardAs(n, Body(x, n))
<1>at. PICK at : at = [i \in 1..W!Scales + 1 |-> 0]
    OBVIOUS
<1>0. at \in Groups /\ W!Silence = At(0, 0, at)
    BY <1>at DEF Groups, At, W!Silence
<1>n. PICK nc, nl, nt, nh, nr : /\ nc = n \div W!Crore /\ nl = (n % W!Crore) \div W!Lakh
                                /\ nt = (n % W!Lakh) \div W!Thousand
                                /\ nh = (n % W!Thousand) \div 100 /\ nr = n % 100
    OBVIOUS
<1>f. W!Crore \in Nat /\ W!Lakh \in Nat /\ W!Thousand \in Nat
    BY DEF W!Crore, W!Lakh, W!Thousand
<1>1. /\ nc \in Nat /\ nl \in Nat /\ nt \in Nat /\ nh \in Nat /\ nr \in Nat
      /\ nc * W!Crore + nl * W!Lakh + nt * W!Thousand + nh * 100 + nr = n
    BY ONLY n \in Nat, <1>n, NumberParts
<1>a. PICK a : a = Crores(x, n)
    OBVIOUS
<1>b. PICK b : b = Part(nl, "lakh")
    OBVIOUS
<1>c. PICK c : c = Part(nt, "thousand")
    OBVIOUS
<1>d. PICK d : d = Part(nh, "hundred")
    OBVIOUS
<1>e. PICK e : e = Last(n)
    OBVIOUS
<1>2. Body(x, n) = a \o b \o c \o d \o e
    BY <1>a, <1>b, <1>c, <1>d, <1>e, <1>n, Zenon DEF Body
<1>3. /\ a \in Seq(Vocabulary) /\ b \in Seq(Vocabulary) /\ c \in Seq(Vocabulary)
      /\ d \in Seq(Vocabulary) /\ e \in Seq(Vocabulary)
  <2>1. Spoken \subseteq Vocabulary
      BY DEF Spoken
  <2>2. a \in Seq(Vocabulary)
      BY <1>a, <2>1, CroreWords, Zenon
  <2>3. b \in Seq(Spoken) /\ c \in Seq(Spoken) /\ d \in Seq(Spoken) /\ e \in Seq(Spoken)
      BY <1>1, <1>b, <1>c, <1>d, <1>e, PartWords, LastWords
  <2> QED
      BY <2>1, <2>2, <2>3, SeqMonotonic
<1>S. ASSUME NEW s \in Nat PROVE At(s, 0, at) \in States
    BY <1>0, AtType
<1>4. W!Read(At(0, 0, at), a) = At(nc * W!Crore, 0, at)
  <2>1. CASE nc = 0
    <3>1. a = <<>> /\ nc * W!Crore = 0
        BY <1>a, <1>f, <1>n, <2>1 DEF Crores
    <3>2. W!Read(At(0, 0, at), <<>>) = At(0, 0, at)
        BY <1>S, ReadNothing
    <3> QED
        BY <3>1, <3>2, Zenon
  <2>2. CASE nc > 0
    <3>w. PICK w : w = W!Word("crore", 0)
        OBVIOUS
    <3>1. a = x \o <<w>> /\ w \in Vocabulary
        BY <1>a, <1>n, <2>2, <3>w, SpokenWords DEF Crores
    <3>2. HeardAs(nc, x)
        BY <1>n, <2>2
    <3>3. PICK s \in Nat, p \in Nat : s + p = nc /\ W!Read(At(0, 0, at), x) = At(s, p, at)
        BY <1>0, <1>at, <3>2, Zenon DEF HeardAs
    <3>4. W!Read(At(0, 0, at), x \o <<w>>) = W!Read(At(s, p, at), <<w>>)
      <4>1. <<w>> \in Seq(Vocabulary)
          BY <3>1
      <4>2. At(0, 0, at) \in States
          BY <1>S
      <4>3. W!Read(At(0, 0, at), x \o <<w>>) = W!Read(W!Read(At(0, 0, at), x), <<w>>)
          BY <4>1, <4>2, ReadBoth, Zenon
      <4> QED
          BY <3>3, <4>3, Zenon
    <3>5. W!Read(At(s, p, at), <<w>>) = W!Hear(At(s, p, at), w)
        BY <1>0, <3>1, AtType, ReadOne, Zenon
    <3>6. W!Hear(At(s, p, at), w) = At((s + p) * W!Crore, 0, at)
        BY <1>0, <3>w, HearCrore
    <3> QED
        BY <3>1, <3>3, <3>4, <3>5, <3>6, Zenon
  <2> QED
      BY <1>1, <2>1, <2>2
<1>s. PICK s1, s2, s3, s4 : /\ s1 = nc * W!Crore /\ s2 = s1 + nl * W!Lakh
                            /\ s3 = s2 + nt * W!Thousand /\ s4 = s3 + nh * 100
    OBVIOUS
<1>t. s1 \in Nat /\ s2 \in Nat /\ s3 \in Nat /\ s4 \in Nat /\ s4 + nr = n
    BY ONLY <1>1, <1>s DEF W!Crore, W!Lakh, W!Thousand
<1>5. W!Read(At(s1, 0, at), b) = At(s2, 0, at)
  <2>1. ScaleSaid(s1, nl, at, "lakh", W!Lakh)
      BY <1>0, <1>1, <1>t, HearLakh DEF ScaleSaid
  <2>2. PartSaid(s1, nl, at, "lakh", W!Lakh)
    <3>1. "lakh" \in {"hundred", "thousand", "lakh"}
        OBVIOUS
    <3> QED
        BY <1>0, <1>1, <1>f, <1>t, <2>1, <3>1, PartHeard, Zenon
  <2> QED
      BY <1>b, <1>s, <2>2, Zenon DEF PartSaid
<1>6. W!Read(At(s2, 0, at), c) = At(s3, 0, at)
  <2>1. ScaleSaid(s2, nt, at, "thousand", W!Thousand)
      BY <1>0, <1>1, <1>t, HearThousand DEF ScaleSaid
  <2>2. PartSaid(s2, nt, at, "thousand", W!Thousand)
    <3>1. "thousand" \in {"hundred", "thousand", "lakh"}
        OBVIOUS
    <3> QED
        BY <1>0, <1>1, <1>f, <1>t, <2>1, <3>1, PartHeard, Zenon
  <2> QED
      BY <1>c, <1>s, <2>2, Zenon DEF PartSaid
<1>7. W!Read(At(s3, 0, at), d) = At(s4, 0, at)
  <2>1. ScaleSaid(s3, nh, at, "hundred", 100)
      BY <1>0, <1>1, <1>t, HearHundred DEF ScaleSaid
  <2>2. PartSaid(s3, nh, at, "hundred", 100)
    <3>1. "hundred" \in {"hundred", "thousand", "lakh"} /\ 100 \in Nat
        OBVIOUS
    <3> QED
        BY <1>0, <1>1, <1>t, <2>1, <3>1, PartHeard, Zenon
  <2> QED
      BY <1>d, <1>s, <2>2, Zenon DEF PartSaid
<1>8. W!Read(At(s4, 0, at), e) = At(s4, nr, at)
  <2>1. CASE nr = 0
    <3>1. e = <<>>
        BY <1>e, <1>n, <2>1 DEF Last
    <3>2. W!Read(At(s4, 0, at), <<>>) = At(s4, 0, at)
        BY <1>S, <1>t, ReadNothing
    <3> QED
        BY <2>1, <3>1, <3>2, Zenon
  <2>2. CASE nr > 0
    <3>w. PICK w : w = W!Word("number", nr)
        OBVIOUS
    <3>1. e = <<w>> /\ w \in Vocabulary
        BY <1>1, <1>e, <1>n, <2>2, <3>w, SpokenWords DEF Last
    <3>2. W!Read(At(s4, 0, at), <<w>>) = W!Hear(At(s4, 0, at), w)
        BY <1>S, <1>t, <3>1, ReadOne
    <3>3. W!Hear(At(s4, 0, at), w) = At(s4, 0 + nr, at) /\ 0 + nr = nr
        BY <1>0, <1>1, <1>t, <3>w, HearNumber
    <3> QED
        BY <3>1, <3>2, <3>3, Zenon
  <2> QED
      BY <1>1, <2>1, <2>2
<1>9. W!Read(At(0, 0, at), a \o b \o c \o d \o e) = At(s4, nr, at)
  <2>0. At(0, 0, at) \in States
      BY <1>S
  <2>1. a \o b \in Seq(Vocabulary) /\ W!Read(At(0, 0, at), a \o b) = At(s2, 0, at)
    <3>1. W!Read(At(0, 0, at), a \o b) = W!Read(W!Read(At(0, 0, at), a), b)
        BY <1>3, <2>0, ReadBoth, Zenon
    <3> QED
        BY <1>3, <1>4, <1>5, <1>s, <3>1, ConcatProperties, Zenon
  <2>u. PICK u : u = a \o b
      OBVIOUS
  <2>2. u \o c \in Seq(Vocabulary) /\ W!Read(At(0, 0, at), u \o c) = At(s3, 0, at)
    <3>1. W!Read(At(0, 0, at), u \o c) = W!Read(W!Read(At(0, 0, at), u), c)
        BY <1>3, <2>0, <2>1, <2>u, ReadBoth, Zenon
    <3> QED
        BY <1>3, <1>6, <2>1, <2>u, <3>1, ConcatProperties, Zenon
  <2>v. PICK v : v = u \o c
      OBVIOUS
  <2>3. v \o d \in Seq(Vocabulary) /\ W!Read(At(0, 0, at), v \o d) = At(s4, 0, at)
    <3>1. W!Read(At(0, 0, at), v \o d) = W!Read(W!Read(At(0, 0, at), v), d)
        BY <1>3, <2>0, <2>2, <2>v, ReadBoth, Zenon
    <3> QED
        BY <1>3, <1>7, <2>2, <2>v, <3>1, ConcatProperties, Zenon
  <2>w. PICK w : w = v \o d
      OBVIOUS
  <2>4. W!Read(At(0, 0, at), w \o e) = At(s4, nr, at)
    <3>1. W!Read(At(0, 0, at), w \o e) = W!Read(W!Read(At(0, 0, at), w), e)
        BY <1>3, <2>0, <2>3, <2>w, ReadBoth, Zenon
    <3> QED
        BY <1>8, <2>3, <2>w, <3>1, Zenon
  <2> QED
      BY <2>u, <2>v, <2>w, <2>4, Zenon
<1> QED
    BY <1>0, <1>1, <1>2, <1>9, <1>at, <1>t, Zenon DEF HeardAs

\* The number is heard in its Bengali words, by strong induction.
LEMMA Bengali ==
    ASSUME NEW n \in Nat, NEW w, w = W!convertIntegerToBnWords[n]
    PROVE  w \in Seq(Spoken) /\ (w = <<>> <=> n = 0) /\ W!ReadBn(w) = n
<1>C. PICK C : C = W!convertIntegerToBnWords
    OBVIOUS
<1>u. ASSUME NEW k \in Nat PROVE C[k] = Body(C[k \div W!Crore], k) /\ C[k] \in Seq(Vocabulary)
    BY <1>C, Unrolls, Zenon
<1>q. ASSUME NEW k \in Nat PROVE k \div W!Crore \in Nat /\ (k \div W!Crore > 0 => k \div W!Crore < k)
    BY NumberParts, Zenon
<1> DEFINE Said(k) == C[k] \in Seq(Spoken) /\ HeardAs(k, C[k])
           T == {d \in Nat : \A k \in Nat : k < d => Said(k)}
<1>1. ASSUME NEW k \in Nat, \A q \in Nat : q < k => Said(q) PROVE Said(k)
  <2>q. PICK q \in Nat : q = k \div W!Crore
      BY <1>q
  <2>0. q > 0 => q < k
      BY <1>q, <2>q
  <2> HIDE DEF Said
  <2>1. q > 0 => Said(q)
      BY <1>1, <2>0
  <2>2. C[k] = Body(C[q], k) /\ C[q] \in Seq(Vocabulary)
      BY <1>u, <2>q, Zenon
  <2>3. C[k] \in Seq(Spoken)
    <3>1. CASE q > 0
      <4>1. C[q] \in Seq(Spoken)
          BY <2>1, <3>1 DEF Said
      <4>2. Spoken \subseteq Spoken
          OBVIOUS
      <4> QED
          BY <2>2, <4>1, <4>2, BodyWords, Zenon
    <3>2. CASE ~(q > 0)
      <4>1. <<>> \in Seq(Spoken) /\ Spoken \subseteq Spoken
          OBVIOUS
      <4>2. Body(<<>>, k) \in Seq(Spoken)
          BY <4>1, BodyWords, Zenon
      <4>3. Crores(C[q], k) = Crores(<<>>, k)
          BY <2>q, <3>2, Zenon DEF Crores
      <4>4. Body(C[q], k) = Body(<<>>, k)
          BY <4>3, Zenon DEF Body
      <4> QED
          BY <2>2, <4>2, <4>4, Zenon
    <3> QED
        BY <3>1, <3>2
  <2>4. HeardAs(k, C[k])
    <3>1. q > 0 => HeardAs(q, C[q])
        BY <2>1, Zenon DEF Said
    <3>2. HeardAs(k, Body(C[q], k))
        BY <2>2, <2>q, <3>1, BodyHeard, Zenon
    <3> QED
        BY <2>2, <3>2, Zenon
  <2> QED
      BY <2>3, <2>4 DEF Said
<1>2. \A d \in Nat : d \in T
  <2> HIDE DEF Said
  <2>1. 0 \in T
      OBVIOUS
  <2>2. ASSUME NEW d \in Nat, d \in T PROVE d + 1 \in T
    <3>1. ASSUME NEW k \in Nat, k < d + 1 PROVE Said(k)
      <4>1. \A q \in Nat : q < k => Said(q)
          BY <2>2, <3>1
      <4> QED
          BY <1>1, <4>1, Zenon
    <3> QED
        BY <3>1
  <2> HIDE DEF T
  <2> QED
      BY <2>1, <2>2, NatSet
<1>3. Said(n)
  <2> HIDE DEF Said
  <2>e. PICK e \in Nat : e = n + 1
      OBVIOUS
  <2>1. e \in T
      BY <1>2, Zenon
  <2> QED
      BY <2>e, <2>1
<1>4. w = <<>> <=> n = 0
  <2>1. Spoken \subseteq Vocabulary
      BY DEF Spoken
  <2>2. n \div W!Crore \in Nat
      BY <1>q
  <2>3. C[n \div W!Crore] \in Seq(Vocabulary)
      BY <1>u, <2>2, Zenon
  <2>4. Body(C[n \div W!Crore], n) = <<>> <=> n = 0
      BY <2>1, <2>3, BodyWords, Zenon
  <2> QED
      BY <1>C, <1>u, <2>4, Zenon
<1>5. W!ReadBn(w) = n
  <2>1. HeardAs(n, w)
      BY <1>3, <1>C
  <2>2. PICK s \in Nat, p \in Nat : /\ s + p = n
                                    /\ W!Read(W!Silence, w) = At(s, p, [i \in 1..W!Scales + 1 |-> 0])
      BY <2>1, Zenon DEF HeardAs
  <2>e. PICK e : e = W!Read(W!Silence, w)
      OBVIOUS
  <2>3. e.sum = s /\ e.part = p
      BY <2>2, <2>e DEF At
  <2>4. W!ReadBn(w) = e.sum + e.part
      BY <2>e, Zenon DEF W!ReadBn
  <2> QED
      BY <2>2, <2>3, <2>4
<1> QED
    BY <1>3, <1>4, <1>5, <1>C

\* The words of an integer part or of the hundredths, and the number heard in them.
IntWords(bengali, g) ==
    IF bengali THEN W!convertIntegerToBnWords[W!Value(g)] ELSE W!convertIntegerToEnWords(g)
HeardNumber(bengali, words) ==
    IF bengali THEN W!ReadBn(words) ELSE W!Value(W!ReadEn(words))

\* Both languages together.
LEMMA Conversion ==
    ASSUME NEW bengali \in BOOLEAN, NEW g \in Canonical
    PROVE  /\ IntWords(bengali, g) \in Seq(Vocabulary)
           /\ IntWords(bengali, g) = <<>> <=> g = <<>>
           /\ (\E i \in DOMAIN IntWords(bengali, g) : IntWords(bengali, g)[i].role = "panic")
                  <=> ~bengali /\ Len(g) > W!Scales + 1
           /\ bengali \/ ~(Len(g) > W!Scales + 1) =>
                  HeardNumber(bengali, IntWords(bengali, g)) = W!Value(g)
           /\ ~bengali /\ ~(Len(g) > W!Scales + 1) =>
                  \A i \in 1..W!Scales + 1 :
                      W!ReadEn(IntWords(bengali, g))[i] = IF i <= Len(g) THEN g[i] ELSE 0
<1>0. g \in Chunks /\ g \in Seq(Nat) /\ Len(g) \in Nat
    BY ChunkNat DEF Canonical
<1>w. PICK w : w = IntWords(bengali, g)
    OBVIOUS
<1>1. CASE bengali
  <2>n. PICK n \in Nat : n = W!Value(g)
      BY <1>0, ValueType
  <2>1. w = W!convertIntegerToBnWords[n]
      BY <1>1, <1>w, <2>n, Zenon DEF IntWords
  <2>2. w \in Seq(Spoken) /\ (w = <<>> <=> n = 0) /\ W!ReadBn(w) = n
      BY <2>1, Bengali, Zenon
  <2>3. w \in Seq(Vocabulary) /\ \A i \in DOMAIN w : w[i].role # "panic"
      BY <2>2, SpokenSeq
  <2>4. w = <<>> <=> g = <<>>
      BY <2>2, <2>n, ValueZero
  <2>5. HeardNumber(bengali, w) = W!Value(g)
      BY <1>1, <2>2, <2>n, Zenon DEF HeardNumber
  <2> QED
      BY <1>1, <1>w, <2>3, <2>4, <2>5, Zenon
<1>2. CASE ~bengali
  <2>1. w = W!convertIntegerToEnWords(g)
      BY <1>2, <1>w, Zenon DEF IntWords
  <2>2. /\ w \in Seq(Vocabulary) /\ (w = <<>> <=> g = <<>>)
        /\ (\E i \in DOMAIN w : w[i].role = "panic") <=> Len(g) > W!Scales + 1
        /\ Len(g) <= W!Scales + 1 =>
               W!ReadEn(w) = [i \in 1..W!Scales + 1 |-> IF i <= Len(g) THEN g[i] ELSE 0]
      BY <2>1, English, Zenon
  <2>3. ASSUME ~(Len(g) > W!Scales + 1)
        PROVE  /\ HeardNumber(bengali, w) = W!Value(g)
               /\ \A i \in 1..W!Scales + 1 :
                      W!ReadEn(w)[i] = IF i <= Len(g) THEN g[i] ELSE 0
    <3>1. Len(g) <= W!Scales + 1 /\ W!Scales + 1 \in Nat
        BY <1>0, <2>3 DEF W!Scales
    <3>r. PICK r : r = W!ReadEn(w)
        OBVIOUS
    <3>2. r = [i \in 1..W!Scales + 1 |-> IF i <= Len(g) THEN g[i] ELSE 0]
        BY <2>2, <3>1, <3>r, Zenon
    <3>3. W!Value(r) = W!Value(g)
        BY <1>0, <3>1, <3>2, ValuePadded, Zenon
    <3>4. \A i \in 1..W!Scales + 1 : r[i] = IF i <= Len(g) THEN g[i] ELSE 0
        BY <3>2
    <3>5. HeardNumber(bengali, w) = W!Value(r)
        BY <1>2, <3>r, Zenon DEF HeardNumber
    <3> QED
        BY <3>3, <3>4, <3>5, <3>r, Zenon
  <2> QED
      BY <1>2, <1>w, <2>2, <2>3, Zenon
<1> QED
    BY <1>1, <1>2

\* Units are Taka for all but three currencies, and singular only when they may be.
Singular == {"Dollar", "Euro", "Pound", "Cent"}

\* A unit goes with its amount.
LEMMA UnitsFit ==
    ASSUME NEW currency, NEW bengali \in BOOLEAN, NEW many \in BOOLEAN, NEW manySub \in BOOLEAN,
           NEW u, u = W!Units(currency, bengali, many, manySub)
    PROVE  /\ u[1] = "Taka" <=> bengali \/ currency \notin {"USD", "EUR", "GBP"}
           /\ u[1] \in Singular => ~many
           /\ u[2] \in Singular => ~manySub
<1>1. CASE bengali
    BY <1>1 DEF W!Units, Singular
<1>2. CASE ~bengali /\ currency = "USD"
    BY <1>2 DEF W!Units, Singular
<1>3. CASE ~bengali /\ currency = "EUR"
    BY <1>3 DEF W!Units, Singular
<1>4. CASE ~bengali /\ currency = "GBP"
    BY <1>4 DEF W!Units, Singular
<1>5. CASE ~bengali /\ currency \notin {"USD", "EUR", "GBP"}
    BY <1>5 DEF W!Units, Singular
<1> QED
    BY <1>1, <1>2, <1>3, <1>4, <1>5

\* Hundredths are at most a hundred, none without mills.
LEMMA CentsRange ==
    ASSUME NEW a \in W!Money
    PROVE  /\ W!Cents(a) \in 0..100 /\ W!Cents(a) % 100 \in 0..99
           /\ W!Cents(a) \div 100 = (IF W!Cents(a) >= 100 THEN 1 ELSE 0)
           /\ W!Cents(a) >= 100 => W!Cents(a) % 100 = 0
           /\ W!Cents(a) < 100 => W!Cents(a) % 100 = W!Cents(a)
           /\ a.mills = 0 => W!Cents(a) = 0
<1>m. PICK m : m = a.mills
    OBVIOUS
<1>h. PICK h : h = IF a.mills % 10 = 5 /\ a.low THEN 4 ELSE 5
    OBVIOUS
<1>1. m \in 0..999 /\ h \in {4, 5} /\ (m = 0 => h = 5)
    BY <1>m, <1>h DEF W!Money
<1>c. PICK c : c = (m + h) \div 10
    OBVIOUS
<1>2. W!Cents(a) = c
    BY <1>c, <1>h, <1>m DEF W!Cents
<1>3. c \in 0..100 /\ (m = 0 => c = 0)
    BY <1>1, <1>c
<1>4. /\ c % 100 \in 0..99 /\ c \div 100 = (IF c >= 100 THEN 1 ELSE 0)
      /\ c >= 100 => c % 100 = 0
      /\ c < 100 => c % 100 = c
    BY <1>3
<1> QED
    BY <1>2, <1>3, <1>4, <1>m

\* The words of an amount say it.
LEMMA AmountSaid ==
    ASSUME NEW a \in W!Money
    PROVE  W!WordsSayTheAmount(a, W!NumberToWords(a))
<1>w. PICK w : w = W!NumberToWords(a)
    OBVIOUS
<1>a. PICK b, groups : b = a.bengali /\ groups = a.groups
    OBVIOUS
<1>c. PICK c : c = W!Cents(a)
    OBVIOUS
<1>0. /\ groups \in Canonical /\ groups \in Chunks /\ b \in BOOLEAN /\ a.minus \in BOOLEAN
      /\ Len(groups) \in Nat
    BY <1>a DEF W!Money, Canonical, Chunks, Triple
<1>1. /\ c \in 0..100 /\ c % 100 \in 0..99 /\ c \div 100 = (IF c >= 100 THEN 1 ELSE 0)
      /\ (c >= 100 => c % 100 = 0) /\ (c < 100 => c % 100 = c) /\ (a.mills = 0 => c = 0)
    BY <1>c, CentsRange
<1>g. PICK g : g = IF c >= 100 THEN W!Increment(groups) ELSE groups
    OBVIOUS
<1>d. PICK dec : dec = c % 100
    OBVIOUS
<1>e. PICK d : d = IF dec = 0 THEN <<>> ELSE <<dec>>
    OBVIOUS
<1>high. PICK high : high <=> \/ Len(groups) > W!Scales + 1
                              \/ c >= 100 /\ groups = W!Highest
    OBVIOUS
<1>none. PICK none : none <=> groups = <<>> /\ a.mills = 0
    OBVIOUS
<1>2. /\ g \in Canonical /\ (Len(g) > W!Scales + 1 <=> high)
      /\ W!Value(g) = W!Value(groups) + c \div 100
      /\ g = <<>> <=> groups = <<>> /\ c < 100
  <2>1. CASE c >= 100
    <3>1. /\ g \in Canonical /\ g # <<>> /\ W!Value(g) = W!Value(groups) + 1
          /\ Len(g) > W!Scales + 1 <=> \/ Len(groups) > W!Scales + 1
                                       \/ groups = [i \in 1..W!Scales + 1 |-> 999]
        BY <1>0, <1>g, <2>1, Incremented
    <3>2. W!Highest = [i \in 1..W!Scales + 1 |-> 999]
        BY DEF W!Highest
    <3> QED
        BY <1>1, <1>high, <2>1, <3>1, <3>2
  <2>2. CASE c < 100
    <3>1. g = groups /\ ~(c >= 100) /\ c \div 100 = 0
        BY <1>1, <1>g, <2>2
    <3>2. W!Value(groups) \in Nat
        BY <1>0, ValueType, ChunkNat
    <3> QED
        BY <1>0, <1>high, <2>2, <3>1, <3>2
  <2> QED
      BY <1>1, <2>1, <2>2
<1>3. dec \in 0..99 /\ d \in Canonical /\ W!Value(d) = dec /\ ~(Len(d) > W!Scales + 1)
      /\ (d = <<>> <=> dec = 0)
  <2>1. dec \in Nat /\ dec <= 99
      BY <1>1, <1>d
  <2>2. CASE dec = 0
    <3>1. d = <<>>
        BY <1>e, <2>2
    <3> QED
        BY <2>1, <2>2, <3>1, ValueNothing DEF Canonical, Chunks, W!Scales
  <2>3. CASE dec # 0
    <3>1. d = <<dec>>
        BY <1>e, <2>3
    <3>2. W!Value(<<dec>>) = dec
        BY <2>1, ValueOne
    <3>3. dec \in Triple
        BY <2>1 DEF Triple
    <3>4. d \in Seq(Triple) /\ Len(d) = 1 /\ d[1] = dec
        BY <3>1, <3>3
    <3> QED
        BY <2>1, <2>3, <3>1, <3>2, <3>4 DEF Canonical, Chunks, W!Scales
  <2> QED
      BY <2>2, <2>3
<1>iw. PICK iw, dw : iw = IntWords(b, g) /\ dw = IntWords(b, d)
    OBVIOUS
<1>4. /\ iw \in Seq(Vocabulary) /\ (iw = <<>> <=> g = <<>>)
      /\ (\E i \in DOMAIN iw : iw[i].role = "panic") <=> ~b /\ high
      /\ b \/ ~high => HeardNumber(b, iw) = W!Value(g)
      /\ ~b /\ ~high => \A i \in 1..W!Scales + 1 :
                            W!ReadEn(iw)[i] = IF i <= Len(g) THEN g[i] ELSE 0
    BY <1>0, <1>2, <1>iw, Conversion, Zenon
<1>5. dw \in Seq(Vocabulary) /\ (dw = <<>> <=> dec = 0) /\ HeardNumber(b, dw) = dec
    BY <1>0, <1>3, <1>iw, Conversion, Zenon
<1>6. W!Value(groups) \in Nat
    BY <1>0, ValueType, ChunkNat
\* The six things that are said of the words, for both forms.
<1> DEFINE Right(int, words, minus, main, sub) ==
        /\ (\E i \in DOMAIN int : int[i].role = "panic") <=> ~b /\ high
        /\ minus <=> a.minus /\ ~none
        /\ int \o words = <<>> <=> groups = <<>> /\ c = 0 /\ ~none
        /\ (main = "Taka") <=> b \/ a.currency \notin {"USD", "EUR", "GBP"} \/ none
        /\ groups \in Computed /\ (b \/ ~high) =>
              /\ HeardNumber(b, int) = W!Value(groups) + c \div 100
              /\ HeardNumber(b, words) = c % 100
              /\ main \in Singular => HeardNumber(b, int) <= 1
              /\ sub \in Singular => HeardNumber(b, words) <= 1
        /\ ~b /\ ~high /\ c < 100 =>
              \A i \in 1..W!Scales + 1 :
                  W!ReadEn(int)[i] = IF i <= Len(groups) THEN groups[i] ELSE 0
<1>7. ASSUME Right(w.int, w.dec, w.minus, w.main, w.sub) PROVE W!WordsSayTheAmount(a, w)
    BY <1>7, <1>a, <1>c, <1>high, <1>none, Zenon
    DEF W!WordsSayTheAmount, HeardNumber, Singular
<1>8. CASE none
  <2>z. PICK zero : zero = W!Word("zero", 0)
      OBVIOUS
  <2>1. PICK sub : w = [minus |-> FALSE, int |-> <<zero>>, dec |-> <<>>, main |-> "Taka", sub |-> sub]
      BY <1>8, <1>a, <1>none, <1>w, <2>z, Zenon DEF W!NumberToWords
  <2>2. w.minus = FALSE /\ w.int = <<zero>> /\ w.dec = <<>> /\ w.main = "Taka"
      BY <2>1
  <2>3. groups = <<>> /\ c = 0 /\ ~high /\ W!Value(groups) = 0 /\ Len(groups) = 0
    <3>1. groups = <<>> /\ c = 0
        BY <1>1, <1>8, <1>none
    <3> QED
        BY <1>high, <3>1, ValueNothing DEF W!Scales
  <2>4. zero \in Vocabulary /\ zero.role = "zero"
      BY <2>z, SpokenWords DEF W!Word
  <2>at. PICK at : at = [i \in 1..W!Scales + 1 |-> 0]
      OBVIOUS
  <2>5. W!Silence = At(0, 0, at) /\ at \in Groups /\ W!Silence \in States
      BY <2>at, AtType DEF At, W!Silence, Groups
  <2>6. W!Read(W!Silence, <<zero>>) = W!Silence /\ W!Read(W!Silence, <<>>) = W!Silence
    <3>1. W!Read(W!Silence, <<zero>>) = W!Hear(W!Silence, zero)
        BY <2>4, <2>5, ReadOne, Zenon
    <3>2. W!Hear(W!Silence, zero) = W!Silence
        BY <2>4 DEF W!Hear
    <3> QED
        BY <2>5, <3>1, <3>2, ReadNothing, Zenon
  <2>7. W!Silence.sum = 0 /\ W!Silence.part = 0 /\ W!Silence.at = at
      BY <2>5 DEF At
  <2>8. [at EXCEPT ![1] = 0 + 0] = at
      BY <2>5, <2>at DEF Groups, W!Scales
  <2>9. ASSUME NEW x \in {<<zero>>, <<>>} PROVE W!ReadEn(x) = at /\ W!ReadBn(x) = 0 + 0
    <3>1. W!Read(W!Silence, x) = W!Silence
        BY <2>6
    <3> QED
        BY <2>7, <2>8, <3>1, Zenon DEF W!ReadEn, W!ReadBn
  <2>10. W!Value(at) = 0
    <3>1. at = [i \in 1..W!Scales + 1 |-> IF i <= Len(groups) THEN groups[i] ELSE 0]
        BY <2>3, <2>at
    <3>2. W!Scales + 1 \in Nat /\ Len(groups) <= W!Scales + 1
        BY <2>3 DEF W!Scales
    <3> QED
        BY <1>0, <2>3, <3>1, <3>2, ValuePadded
  <2>11. HeardNumber(b, <<zero>>) = 0 /\ HeardNumber(b, <<>>) = 0
    <3>1. 0 + 0 = 0
        OBVIOUS
    <3> QED
        BY <1>0, <2>9, <2>10, <3>1, Zenon DEF HeardNumber
  <2>12. <<zero>> \o <<>> # <<>> /\ ~\E i \in DOMAIN <<zero>> : <<zero>>[i].role = "panic"
      BY <2>4
  <2>13. \A i \in 1..W!Scales + 1 : W!ReadEn(<<zero>>)[i] = IF i <= Len(groups) THEN groups[i] ELSE 0
    <3>1. W!ReadEn(<<zero>>) = at
        BY <2>9
    <3> QED
        BY <2>3, <2>at, <3>1
  <2>14. 0 <= 1 /\ c % 100 = 0 /\ W!Value(groups) + c \div 100 = 0
      BY <2>3
  <2>15. Right(<<zero>>, <<>>, FALSE, "Taka", w.sub)
      BY <1>8, <2>3, <2>11, <2>12, <2>13, <2>14, Zenon
  <2> HIDE DEF Right
  <2> QED
      BY <1>7, <1>w, <2>2, <2>15, Zenon
<1>9. CASE ~none
  <2>m. PICK many \in BOOLEAN : many <=> g \notin {<<>>, <<1>>}
      OBVIOUS
  <2>s. PICK manySub \in BOOLEAN : manySub <=> dec > 1
      OBVIOUS
  <2>u. PICK u : u = W!Units(a.currency, b, many, manySub)
      OBVIOUS
  <2>0. u = W!Units(a.currency, b, g \notin {<<>>, <<1>>}, dec > 1)
      BY <2>m, <2>s, <2>u
  <2>1. w = [minus |-> a.minus, int |-> iw, dec |-> dw, main |-> u[1], sub |-> u[2]]
    <3>1. w = [minus |-> a.minus,
               int |-> IntWords(a.bengali,
                          IF W!Cents(a) >= 100 THEN W!Increment(a.groups) ELSE a.groups),
               dec |-> IntWords(a.bengali,
                          IF W!Cents(a) % 100 = 0 THEN <<>> ELSE <<W!Cents(a) % 100>>),
               main |-> W!Units(a.currency, a.bengali,
                           (IF W!Cents(a) >= 100 THEN W!Increment(a.groups) ELSE a.groups)
                               \notin {<<>>, <<1>>},
                           W!Cents(a) % 100 > 1)[1],
               sub |-> W!Units(a.currency, a.bengali,
                          (IF W!Cents(a) >= 100 THEN W!Increment(a.groups) ELSE a.groups)
                              \notin {<<>>, <<1>>},
                          W!Cents(a) % 100 > 1)[2]]
        BY <1>9, <1>a, <1>none, <1>w, Zenon DEF W!NumberToWords, IntWords
    <3> QED
        BY <1>a, <1>c, <1>g, <1>d, <1>e, <1>iw, <2>0, <3>1, Zenon
  <2>2. w.minus = a.minus /\ w.int = iw /\ w.dec = dw /\ w.main = u[1] /\ w.sub = u[2]
      BY <2>1
  <2>3. /\ u[1] = "Taka" <=> b \/ a.currency \notin {"USD", "EUR", "GBP"}
        /\ u[1] \in Singular => ~many
        /\ u[2] \in Singular => ~manySub
      BY <1>0, <2>u, UnitsFit
  <2>4. ~many => W!Value(g) <= 1
      BY <2>m, ValueNothing, ValueOne
  <2>5. ~manySub => dec <= 1
      BY <1>3, <2>s
  <2>6. iw \o dw = <<>> <=> groups = <<>> /\ c = 0 /\ ~none
    <3>1. iw \o dw = <<>> <=> iw = <<>> /\ dw = <<>>
        BY <1>4, <1>5, ConcatEqualIffEmpty
    <3>2. dec = 0 /\ c < 100 <=> c = 0
        BY <1>1, <1>d
    <3> QED
        BY <1>2, <1>4, <1>5, <1>9, <3>1, <3>2, Zenon
  <2>7. ~b /\ ~high /\ c < 100 =>
            \A i \in 1..W!Scales + 1 :
                W!ReadEn(iw)[i] = IF i <= Len(groups) THEN groups[i] ELSE 0
    <3>1. c < 100 => g = groups
        BY <1>1, <1>g
    <3> QED
        BY <1>4, <3>1
  <2>8. b \/ ~high =>
            /\ HeardNumber(b, iw) = W!Value(groups) + c \div 100
            /\ HeardNumber(b, dw) = c % 100
            /\ u[1] \in Singular => HeardNumber(b, iw) <= 1
            /\ u[2] \in Singular => HeardNumber(b, dw) <= 1
      BY <1>2, <1>4, <1>5, <1>d, <2>3, <2>4, <2>5
  <2>9. Right(iw, dw, a.minus, u[1], u[2])
      BY <1>0, <1>4, <1>9, <2>3, <2>6, <2>7, <2>8, Zenon
  <2> HIDE DEF Right
  <2> QED
      BY <1>7, <1>w, <2>2, <2>9, Zenon
<1> QED
    BY <1>8, <1>9

\* An amount is said as WordsSayTheAmount states it, however high it is.
THEOREM AmountsSpelled == Spec => []Spelled
<1>1. Init => Spelled
    BY DEF Init, Spelled, Called
<1>2. Spelled /\ [Next]_<<call, result>> => Spelled'
  <2> SUFFICES ASSUME Spelled, [Next]_<<call, result>> PROVE Spelled'
      OBVIOUS
  <2>1. CASE Visit \/ Query \/ Trade
      BY <2>1 DEF Visit, Query, Trade, Calling, Spelled, Called
  <2>2. CASE Spell
      BY <2>2, AmountSaid, CallsAssumption DEF Spell, Calling, Spelled, Called
  <2>3. CASE UNCHANGED <<call, result>>
      BY <2>3 DEF Spelled, Called
  <2> QED
      BY <2>1, <2>2, <2>3 DEF Next
<1> QED
    BY <1>1, <1>2, PTL DEF Spec

------------------------------------------------------------------------------
(* Queries *)

\* Induction over the numbers up to n.
LEMMA UpTo ==
    ASSUME NEW n \in Nat, NEW T, 0 \in T, \A k \in 1..n : k - 1 \in T => k \in T
    PROVE  \A k \in 0..n : k \in T
<1> DEFINE U == {k \in Nat : k <= n => k \in T}
<1>1. 0 \in U
    OBVIOUS
<1>2. ASSUME NEW k \in Nat, k \in U PROVE k + 1 \in U
  <2>1. ASSUME k + 1 <= n PROVE k + 1 \in T
    <3>1. k + 1 \in 1..n /\ (k + 1) - 1 = k /\ k \in T
        BY <1>2, <2>1
    <3> QED
        BY <3>1
  <2> QED
      BY <2>1
<1>3. \A k \in Nat : k \in U
  <2> HIDE DEF U
  <2> QED
      BY <1>1, <1>2, NatSet
<1> QED
    BY <1>3

\* What is left of every beginning of a sequence.
Sifts(u, seq, S) ==
    /\ u[0] = <<>>
    /\ \A k \in 1..Len(seq) : u[k] = IF seq[k] \in S THEN Append(u[k - 1], seq[k]) ELSE u[k - 1]

\* Among is such a way through its sequence.
LEMMA Amongs ==
    ASSUME NEW E, NEW seq \in Seq(E), NEW S
    PROVE  \E u : /\ Sifts(u, seq, S) /\ \A k \in 0..Len(seq) : u[k] \in Seq(E)
                  /\ Q!Among(seq, S) = u[Len(seq)]
<1> DEFINE n == Len(seq)
           Is(u) == u = [i \in 0..n |->
                            IF i = 0 THEN <<>>
                            ELSE IF seq[i] \in S THEN Append(u[i - 1], seq[i]) ELSE u[i - 1]]
<1>1. n \in Nat /\ \A i \in 1..n : seq[i] \in E
    OBVIOUS
<1> HIDE DEF n
<1>V. PICK V : V = Seq(E)
    OBVIOUS
<1>g. PICK g : g = [k \in 1..n |-> [x \in V |-> IF seq[k] \in S THEN Append(x, seq[k]) ELSE x]]
    OBVIOUS
<1>2. g \in [1..n -> [V -> V]]
  <2>1. ASSUME NEW k \in 1..n, NEW x \in V PROVE Append(x, seq[k]) \in V
      BY <1>1, <1>V
  <2> QED
      BY <1>g, <2>1
<1>0. <<>> \in V
    BY <1>V
<1>f. PICK f \in [0..n -> V] : FollowsTo(n, f, <<>>, g)
    BY <1>0, <1>1, <1>2, Steps, Zenon
<1>3. f[0] = <<>> /\ \A k \in 1..n : f[k] = g[k][f[k - 1]]
    BY <1>f DEF FollowsTo
<1>4. ASSUME NEW k \in 1..n
      PROVE  f[k] = IF seq[k] \in S THEN Append(f[k - 1], seq[k]) ELSE f[k - 1]
  <2>1. k - 1 \in 0..n
      BY <1>1
  <2>2. f[k - 1] \in V /\ f[k] = g[k][f[k - 1]]
      BY <1>f, <1>3, <2>1
  <2> QED
      BY <1>g, <2>2
<1>5. Is(f)
  <2> DEFINE Step(i) == IF seq[i] \in S THEN Append(f[i - 1], seq[i]) ELSE f[i - 1]
  <2>1. \A i \in 0..n : f[i] = IF i = 0 THEN <<>> ELSE Step(i)
    <3> SUFFICES ASSUME NEW i \in 0..n PROVE f[i] = IF i = 0 THEN <<>> ELSE Step(i)
        OBVIOUS
    <3>1. ASSUME i # 0 PROVE f[i] = Step(i)
      <4>1. i \in 1..n
          BY <1>1, <3>1
      <4> QED
          BY <1>4, <4>1, Zenon
    <3> HIDE DEF Step
    <3> QED
        BY <1>3, <3>1
  <2> HIDE DEF Step
  <2>2. f = [i \in 0..n |-> IF i = 0 THEN <<>> ELSE Step(i)]
      BY ONLY f \in [0..n -> V], <2>1
  <2> QED
      BY <2>2, Zenon DEF Step
<1>u. PICK u : u = CHOOSE e : Is(e)
    OBVIOUS
<1>6. Is(u)
    BY <1>5, <1>u, Zenon
<1>7. Q!Among(seq, S) = u[n]
    BY <1>u, Zenon DEF Q!Among, n
<1>8. u[0] = <<>>
    BY <1>1, <1>6
<1>9. ASSUME NEW k \in 1..n
      PROVE  u[k] = IF seq[k] \in S THEN Append(u[k - 1], seq[k]) ELSE u[k - 1]
  <2>1. k \in 0..n /\ k # 0
      BY <1>1
  <2> QED
      BY ONLY <2>1, <1>6
<1> DEFINE T == {k \in 0..n : u[k] \in V}
<1>10. \A k \in 0..n : k \in T
  <2>1. 0 \in T
      BY <1>0, <1>1, <1>8
  <2>2. ASSUME NEW k \in 1..n, k - 1 \in T PROVE k \in T
    <3>1. u[k - 1] \in V /\ seq[k] \in E
        BY <1>1, <2>2
    <3>2. Append(u[k - 1], seq[k]) \in V
        BY ONLY <1>V, <3>1
    <3> QED
        BY <1>1, <1>9, <3>1, <3>2
  <2> HIDE DEF T
  <2> QED
      BY <1>1, <2>1, <2>2, UpTo
<1>11. \A k \in 0..n : u[k] \in Seq(E)
    BY <1>10, <1>V
<1> QED
    BY <1>7, <1>8, <1>9, <1>11 DEF n, Sifts

\* What is left of a sequence is a sequence of its elements.
LEMMA AmongType ==
    ASSUME NEW E, NEW seq \in Seq(E), NEW S
    PROVE  Q!Among(seq, S) \in Seq(E)
<1>1. PICK u : /\ Sifts(u, seq, S) /\ \A k \in 0..Len(seq) : u[k] \in Seq(E)
               /\ Q!Among(seq, S) = u[Len(seq)]
    BY Amongs, Zenon
<1>2. Len(seq) \in 0..Len(seq)
    OBVIOUS
<1> QED
    BY <1>1, <1>2, Zenon

Clauses == [boolean : {"AND", "OR"}, op : {"none", "=", ">="}, value : Int, inValues : Seq(Int)]
Builders == [wheres : Seq(Clauses), count : BOOLEAN, orderBy : BOOLEAN, limitN : Int,
             offsetN : Int]
Conditions == {c \in Q!Links : c.call \in {"Where", "OrWhere", "WhereIn"}}

\* The condition that a call of the chain adds.
Clause(c) ==
    [boolean |-> IF c.call = "OrWhere" THEN "OR" ELSE "AND",
     op |-> IF c.call = "WhereIn" THEN "none" ELSE c.op,
     value |-> IF c.call = "WhereIn" THEN 0 ELSE c.n,
     inValues |-> IF c.call = "WhereIn" THEN c.values ELSE <<>>]

\* The kinds of calls.
LEMMA LinkKinds ==
    ASSUME NEW c \in Q!Links
    PROVE  \/ c.call \in {"Where", "OrWhere"} /\ c.op \in {"=", ">="} /\ c.n \in Int
           \/ c.call = "WhereIn" /\ c.values \in Seq(Int)
           \/ c.call = "OrderBy"
           \/ c.call \in {"Limit", "Offset"} /\ c.n \in Int
BY DEF Q!Links

\* The condition of a call is one of the conditions of a builder.
LEMMA ClauseType ==
    ASSUME NEW c \in Conditions
    PROVE  Clause(c) \in Clauses
<1>1. c \in Q!Links /\ c.call \in {"Where", "OrWhere", "WhereIn"}
    BY DEF Conditions
<1>2. CASE c.call \in {"Where", "OrWhere"}
  <2>1. c.op \in {"=", ">="} /\ c.n \in Int
      BY <1>1, <1>2, LinkKinds
  <2> QED
      BY <1>2, <2>1 DEF Clause, Clauses
<1>3. CASE c.call = "WhereIn"
  <2>v. PICK v \in Seq(Int) : v = c.values
      BY <1>1, <1>3, LinkKinds
  <2>1. Clause(c) = [boolean |-> "AND", op |-> "none", value |-> 0, inValues |-> v]
      BY <1>3, <2>v DEF Clause
  <2> QED
      BY ONLY <2>1, <2>v DEF Clauses
<1> QED
    BY <1>1, <1>2, <1>3

\* What a call changes.
LEMMA CallSets ==
    ASSUME NEW q \in Builders, NEW c \in Q!Links, NEW r, r = Q!Call(q, c)
    PROVE  /\ r \in Builders
           /\ r.wheres = IF c \in Conditions THEN Append(q.wheres, Clause(c)) ELSE q.wheres
           /\ r.count = q.count
           /\ r.orderBy = IF c.call = "OrderBy" THEN TRUE ELSE q.orderBy
           /\ r.limitN = IF c.call = "Limit" THEN c.n ELSE q.limitN
           /\ r.offsetN = IF c.call = "Offset" THEN c.n ELSE q.offsetN
<1>0. /\ q.wheres \in Seq(Clauses) /\ q.count \in BOOLEAN /\ q.orderBy \in BOOLEAN
      /\ q.limitN \in Int /\ q.offsetN \in Int
    BY DEF Builders
<1>1. CASE c.call \in {"Where", "OrWhere", "WhereIn"}
  <2>1. c \in Conditions
      BY <1>1 DEF Conditions
  <2>w. PICK w : w = Clause(c)
      OBVIOUS
  <2>2. w \in Clauses
      BY <2>1, <2>w, ClauseType
  <2>3. Q!Call(q, c) = [q EXCEPT !.wheres = Append(@, w)]
      BY <1>1, <2>w DEF Clause, Q!Call
  <2>a. PICK a : a = Append(q.wheres, w)
      OBVIOUS
  <2>4. a \in Seq(Clauses)
      BY ONLY <1>0, <2>2, <2>a
  <2>5. r = [q EXCEPT !.wheres = a]
      BY <2>3, <2>a
  <2>6. r \in Builders /\ r.wheres = a /\ r.count = q.count /\ r.orderBy = q.orderBy
        /\ r.limitN = q.limitN /\ r.offsetN = q.offsetN
      BY <2>4, <2>5 DEF Builders
  <2> QED
      BY <1>1, <2>1, <2>6, <2>a, <2>w
<1>2. CASE c.call = "OrderBy"
  <2>1. c \notin Conditions
      BY <1>2 DEF Conditions
  <2>2. r = [q EXCEPT !.orderBy = TRUE]
      BY <1>2 DEF Q!Call
  <2> QED
      BY <1>2, <2>1, <2>2 DEF Builders
<1>3. CASE c.call = "Limit"
  <2>1. c \notin Conditions /\ c.n \in Int
      BY <1>3, LinkKinds DEF Conditions
  <2>2. r = [q EXCEPT !.limitN = c.n]
      BY <1>3 DEF Q!Call
  <2> QED
      BY <1>3, <2>1, <2>2 DEF Builders
<1>4. CASE c.call = "Offset"
  <2>1. c \notin Conditions /\ c.n \in Int
      BY <1>4, LinkKinds DEF Conditions
  <2>2. r = [q EXCEPT !.offsetN = c.n]
      BY <1>4 DEF Q!Call
  <2> QED
      BY <1>4, <2>1, <2>2 DEF Builders
<1> QED
    BY <1>1, <1>2, <1>3, <1>4, LinkKinds

\* A builder after every call of a chain.
Builds(a, chain) ==
    /\ a[0] = Q!NewQuery /\ \A k \in 0..Len(chain) : a[k] \in Builders
    /\ \A k \in 1..Len(chain) : a[k] = Q!Call(a[k - 1], chain[k])

\* The builder of an empty chain.
LEMMA NewType == Q!NewQuery \in Builders
BY DEF Q!NewQuery, Builders

\* Chain is such a way through its calls.
LEMMA Chains ==
    ASSUME NEW chain \in Seq(Q!Links)
    PROVE  \E a : Builds(a, chain) /\ Q!Chain(chain) = a[Len(chain)]
<1> DEFINE n == Len(chain)
           Is(a) == a = [i \in 0..n |-> IF i = 0 THEN Q!NewQuery ELSE Q!Call(a[i - 1], chain[i])]
<1>1. n \in Nat /\ \A i \in 1..n : chain[i] \in Q!Links
    OBVIOUS
<1> HIDE DEF n
<1>V. PICK V : V = Builders
    OBVIOUS
<1>b. PICK b : b = Q!NewQuery
    OBVIOUS
<1>g. PICK g : g = [k \in 1..n |-> [x \in V |-> Q!Call(x, chain[k])]]
    OBVIOUS
<1>2. g \in [1..n -> [V -> V]]
  <2>1. ASSUME NEW k \in 1..n, NEW x \in V PROVE Q!Call(x, chain[k]) \in V
      BY <1>1, <1>V, CallSets
  <2> QED
      BY <1>g, <2>1
<1>0. b \in V
    BY <1>V, <1>b, NewType
<1>f. PICK f \in [0..n -> V] : FollowsTo(n, f, b, g)
    BY <1>0, <1>1, <1>2, Steps, Zenon
<1>3. f[0] = b /\ \A k \in 1..n : f[k] = g[k][f[k - 1]]
    BY <1>f DEF FollowsTo
<1>4. ASSUME NEW k \in 1..n PROVE f[k] = Q!Call(f[k - 1], chain[k])
  <2>1. k - 1 \in 0..n
      BY <1>1
  <2>2. f[k - 1] \in V /\ f[k] = g[k][f[k - 1]]
      BY <1>f, <1>3, <2>1
  <2> QED
      BY <1>g, <2>2
<1>5. Is(f)
    BY <1>1, <1>b, <1>f, <1>3, <1>4
<1>a. PICK a : a = CHOOSE e : Is(e)
    OBVIOUS
<1>6. Is(a)
    BY <1>5, <1>a, Zenon
<1>7. Q!Chain(chain) = a[n]
    BY <1>a, Zenon DEF Q!Chain, n
<1>8. a[0] = Q!NewQuery
    BY <1>1, <1>6
<1>9. ASSUME NEW k \in 1..n PROVE a[k] = Q!Call(a[k - 1], chain[k])
  <2>1. k \in 0..n /\ k # 0
      BY <1>1
  <2> QED
      BY ONLY <2>1, <1>6
<1> DEFINE T == {k \in 0..n : a[k] \in V}
<1>10. \A k \in 0..n : k \in T
  <2>1. 0 \in T
      BY <1>0, <1>1, <1>b, <1>8
  <2>2. ASSUME NEW k \in 1..n, k - 1 \in T PROVE k \in T
    <3>1. a[k - 1] \in V /\ chain[k] \in Q!Links
        BY <1>1, <2>2
    <3>2. Q!Call(a[k - 1], chain[k]) \in V
        BY <1>V, <3>1, CallSets
    <3> QED
        BY <1>1, <1>9, <3>2
  <2> HIDE DEF T
  <2> QED
      BY <1>1, <2>1, <2>2, UpTo
<1>11. \A k \in 0..n : a[k] \in Builders
    BY <1>10, <1>V
<1> QED
    BY <1>7, <1>8, <1>9, <1>11 DEF n, Builds

\* The conditions of a builder are those of the chain so far.
Collects(q, conds) ==
    /\ Len(q.wheres) = Len(conds)
    /\ \A i \in 1..Len(conds) : conds[i] \in Conditions /\ q.wheres[i] = Clause(conds[i])

\* Every call keeps the conditions of the builder those of the chain.
LEMMA ChainConditions ==
    ASSUME NEW chain \in Seq(Q!Links), NEW a, Builds(a, chain),
           NEW u, Sifts(u, chain, Conditions), \A k \in 0..Len(chain) : u[k] \in Seq(Q!Links)
    PROVE  \A k \in 0..Len(chain) : Collects(a[k], u[k])
<1> DEFINE n == Len(chain)
           T == {k \in 0..n : Collects(a[k], u[k])}
<1>1. n \in Nat /\ \A i \in 1..n : chain[i] \in Q!Links
    OBVIOUS
<1>2. 0 \in T
  <2>1. a[0].wheres = <<>> /\ u[0] = <<>>
      BY DEF Builds, Sifts, Q!NewQuery
  <2> QED
      BY <1>1, <2>1 DEF Collects
<1>3. ASSUME NEW k \in 1..n, k - 1 \in T PROVE k \in T
  <2>p. PICK p : p = a[k - 1]
      OBVIOUS
  <2>v. PICK v : v = u[k - 1]
      OBVIOUS
  <2>c. PICK c : c = chain[k]
      OBVIOUS
  <2>r. PICK r : r = a[k]
      OBVIOUS
  <2>1. p \in Builders /\ v \in Seq(Q!Links) /\ c \in Q!Links /\ Collects(p, v)
      BY <1>1, <1>3, <2>p, <2>v, <2>c DEF Builds
  <2>2. r = Q!Call(p, c)
      BY <2>p, <2>c, <2>r DEF Builds
  <2>3. u[k] = IF c \in Conditions THEN Append(v, c) ELSE v
      BY <2>v, <2>c DEF Sifts
  <2>4. r.wheres = IF c \in Conditions THEN Append(p.wheres, Clause(c)) ELSE p.wheres
      BY <2>1, <2>2, CallSets
  <2>5. CASE c \notin Conditions
      BY <1>1, <2>1, <2>3, <2>4, <2>5, <2>r DEF Collects
  <2>6. CASE c \in Conditions
    <3>w. PICK w : w = Clause(c)
        OBVIOUS
    <3>1. w \in Clauses /\ p.wheres \in Seq(Clauses)
        BY <2>1, <2>6, <3>w, ClauseType DEF Builders
    <3>2. u[k] = Append(v, c) /\ r.wheres = Append(p.wheres, w)
        BY <2>3, <2>4, <2>6, <3>w
    <3>3. Len(p.wheres) = Len(v)
          /\ \A i \in 1..Len(v) : v[i] \in Conditions /\ p.wheres[i] = Clause(v[i])
        BY <2>1 DEF Collects
    <3>s. PICK s : s = p.wheres
        OBVIOUS
    <3>t. PICK t : t = u[k]
        OBVIOUS
    <3>x. PICK x : x = r.wheres
        OBVIOUS
    <3>4. Len(x) = Len(t) /\ Len(t) = Len(v) + 1
        BY ONLY <2>1, <3>1, <3>2, <3>3, <3>s, <3>t, <3>x
    <3>5. ASSUME NEW i \in 1..Len(t) PROVE t[i] \in Conditions /\ x[i] = Clause(t[i])
      <4>0. Len(v) \in Nat /\ s \in Seq(Clauses) /\ Len(s) = Len(v) /\ t = Append(v, c)
            /\ x = Append(s, w) /\ v \in Seq(Q!Links)
          BY ONLY <2>1, <3>1, <3>2, <3>3, <3>s, <3>t, <3>x
      <4>1. CASE i = Len(v) + 1
        <5>1. t[i] = c /\ x[i] = w
            BY ONLY <4>0, <4>1
        <5> QED
            BY <2>6, <3>w, <5>1
      <4>2. CASE i # Len(v) + 1
        <5>1. i \in 1..Len(v)
            BY <3>4, <4>0, <4>2
        <5>2. t[i] = v[i] /\ x[i] = s[i]
            BY ONLY <4>0, <5>1
        <5> QED
            BY <3>3, <3>s, <5>1, <5>2
      <4> QED
          BY <4>1, <4>2
    <3> QED
        BY <1>1, <2>r, <3>4, <3>5, <3>t, <3>x DEF Collects
  <2> QED
      BY <2>5, <2>6
<1> HIDE DEF T
<1>4. \A k \in 0..n : k \in T
    BY <1>1, <1>2, <1>3, UpTo
<1> QED
    BY <1>4 DEF T

\* What the last such call set, up to the k-th.
LastSet(v, name, chain, k) ==
    \/ v = 0 /\ \A i \in 1..k : chain[i].call # name
    \/ \E i \in 1..k : /\ chain[i].call = name /\ v = chain[i].n
                       /\ \A j \in i + 1..k : chain[j].call # name

\* The rest of a builder.
Sets(q, chain, k) ==
    /\ q.count = FALSE /\ q.orderBy \in BOOLEAN
    /\ q.orderBy <=> \E i \in 1..k : chain[i].call = "OrderBy"
    /\ LastSet(q.limitN, "Limit", chain, k)
    /\ LastSet(q.offsetN, "Offset", chain, k)

\* A call sets the number or leaves it.
LEMMA LastSetStep ==
    ASSUME NEW v, NEW w, NEW name, NEW chain, NEW k \in Nat, k # 0,
           LastSet(v, name, chain, k - 1),
           w = IF chain[k].call = name THEN chain[k].n ELSE v
    PROVE  LastSet(w, name, chain, k)
<1>1. CASE chain[k].call = name
  <2>1. k \in 1..k /\ k + 1..k = {}
      OBVIOUS
  <2> QED
      BY <1>1, <2>1 DEF LastSet
<1>2. CASE chain[k].call # name
  <2>1. w = v
      BY <1>2
  <2>2. CASE v = 0 /\ \A i \in 1..k - 1 : chain[i].call # name
    <3>1. \A i \in 1..k : chain[i].call # name
      <4> TAKE i \in 1..k
      <4>1. i = k \/ i \in 1..k - 1
          OBVIOUS
      <4> QED
          BY <1>2, <2>2, <4>1
    <3> QED
        BY <2>1, <2>2, <3>1 DEF LastSet
  <2>3. ASSUME NEW i \in 1..k - 1, chain[i].call = name, v = chain[i].n,
               \A j \in i + 1..k - 1 : chain[j].call # name
        PROVE  LastSet(w, name, chain, k)
    <3>1. \A j \in i + 1..k : chain[j].call # name
      <4> TAKE j \in i + 1..k
      <4>1. j = k \/ j \in i + 1..k - 1
          OBVIOUS
      <4> QED
          BY <1>2, <2>3, <4>1
    <3>2. i \in 1..k
        OBVIOUS
    <3> QED
        BY <2>1, <2>3, <3>1, <3>2 DEF LastSet
  <2> QED
      BY <2>2, <2>3 DEF LastSet
<1> QED
    BY <1>1, <1>2

\* Every call keeps the settings of the builder those of the chain.
LEMMA ChainSettings ==
    ASSUME NEW chain \in Seq(Q!Links), NEW a, Builds(a, chain)
    PROVE  \A k \in 0..Len(chain) : Sets(a[k], chain, k)
<1> DEFINE n == Len(chain)
           T == {k \in 0..n : Sets(a[k], chain, k)}
<1>1. n \in Nat /\ \A i \in 1..n : chain[i] \in Q!Links
    OBVIOUS
<1>2. 0 \in T
  <2>1. a[0].count = FALSE /\ a[0].orderBy = FALSE /\ a[0].limitN = 0 /\ a[0].offsetN = 0
      BY DEF Builds, Q!NewQuery
  <2>2. 1..0 = {}
      OBVIOUS
  <2>3. ~\E i \in 1..0 : chain[i].call = "OrderBy"
      BY <2>2
  <2>4. LastSet(0, "Limit", chain, 0) /\ LastSet(0, "Offset", chain, 0)
      BY ONLY <2>2 DEF LastSet
  <2>5. Sets(a[0], chain, 0)
      BY ONLY <2>1, <2>3, <2>4 DEF Sets
  <2> QED
      BY <1>1, <2>5
<1>3. ASSUME NEW k \in 1..n, k - 1 \in T PROVE k \in T
  <2>p. PICK p : p = a[k - 1]
      OBVIOUS
  <2>c. PICK c : c = chain[k]
      OBVIOUS
  <2>r. PICK r : r = a[k]
      OBVIOUS
  <2>1. p \in Builders /\ c \in Q!Links /\ Sets(p, chain, k - 1)
      BY <1>1, <1>3, <2>p, <2>c DEF Builds
  <2>2. r = Q!Call(p, c)
      BY <2>p, <2>c, <2>r DEF Builds
  <2>3. /\ r.count = p.count /\ r.orderBy = IF c.call = "OrderBy" THEN TRUE ELSE p.orderBy
        /\ r.limitN = IF c.call = "Limit" THEN c.n ELSE p.limitN
        /\ r.offsetN = IF c.call = "Offset" THEN c.n ELSE p.offsetN
      BY <2>1, <2>2, CallSets
  <2>k. k \in Nat /\ k # 0 /\ k \in 0..n
      BY <1>1
  <2>4. LastSet(r.limitN, "Limit", chain, k)
      BY <2>1, <2>3, <2>c, <2>k, LastSetStep DEF Sets
  <2>5. LastSet(r.offsetN, "Offset", chain, k)
      BY <2>1, <2>3, <2>c, <2>k, LastSetStep DEF Sets
  <2>6. r.orderBy \in BOOLEAN /\ (r.orderBy <=> \E i \in 1..k : chain[i].call = "OrderBy")
    <3>1. p.orderBy \in BOOLEAN /\ (p.orderBy <=> \E i \in 1..k - 1 : chain[i].call = "OrderBy")
        BY <2>1 DEF Sets
    <3>2. \A i \in 1..k : i = k \/ i \in 1..k - 1
        BY <2>k
    <3>3. 1..k - 1 \subseteq 1..k /\ k \in 1..k
        BY <2>k
    <3> QED
        BY <2>3, <2>c, <3>1, <3>2, <3>3
  <2>7. r.count = FALSE
      BY <2>1, <2>3 DEF Sets
  <2> QED
      BY <2>4, <2>5, <2>6, <2>7, <2>k, <2>r DEF Sets
<1> HIDE DEF T
<1>4. \A k \in 0..n : k \in T
    BY <1>1, <1>2, <1>3, UpTo
<1> QED
    BY <1>4 DEF T

\* The highest of a set that has one.
LEMMA MaxIs ==
    ASSUME NEW S, NEW m \in S, S \subseteq Int, \A x \in S : x <= m
    PROVE  Q!Max(S) = m
<1> DEFINE Is(x) == x \in S /\ \A y \in S : x >= y
<1>1. Is(m)
    OBVIOUS
<1>2. \A x : Is(x) => x = m
    OBVIOUS
<1> QED
    BY <1>1, <1>2, Zenon DEF Q!Max

\* What was set last is what the chain gives.
LEMMA GivenIs ==
    ASSUME NEW chain \in Seq(Q!Links), NEW v, NEW name \in {"Limit", "Offset"},
           LastSet(v, name, chain, Len(chain))
    PROVE  v = Q!Given(chain, name) /\ v \in Int
<1> DEFINE at == {i \in DOMAIN chain : chain[i].call = name}
<1>1. DOMAIN chain = 1..Len(chain) /\ Len(chain) \in Nat /\ \A i \in 1..Len(chain) : chain[i] \in Q!Links
    OBVIOUS
<1>2. CASE v = 0 /\ \A i \in 1..Len(chain) : chain[i].call # name
  <2>1. at = {}
      BY <1>1, <1>2
  <2> QED
      BY <1>2, <2>1 DEF Q!Given
<1>3. ASSUME NEW i \in 1..Len(chain), chain[i].call = name, v = chain[i].n,
             \A j \in i + 1..Len(chain) : chain[j].call # name
      PROVE  v = Q!Given(chain, name) /\ v \in Int
  <2>1. i \in at
      BY <1>1, <1>3
  <2>2. \A x \in at : x \in Int /\ x <= i
    <3> SUFFICES ASSUME NEW x \in 1..Len(chain), chain[x].call = name, x > i PROVE FALSE
        BY <1>1
    <3> QED
        BY <1>3
  <2> HIDE DEF at
  <2>3. Q!Max(at) = i
      BY <2>1, <2>2, MaxIs
  <2>4. v = Q!Given(chain, name)
      BY <1>3, <2>1, <2>3 DEF at, Q!Given
  <2>5. v \in Int
      BY <1>1, <1>3, LinkKinds
  <2> QED
      BY <2>4, <2>5
<1> QED
    BY <1>2, <1>3 DEF LastSet

\* What a chain makes.
LEMMA ChainMakes ==
    ASSUME NEW chain \in Seq(Q!Links), NEW q, q = Q!Chain(chain),
           NEW conds, conds = Q!Among(chain, Conditions)
    PROVE  /\ q \in Builders /\ conds \in Seq(Conditions) /\ Collects(q, conds)
           /\ q.count = FALSE
           /\ q.orderBy <=> \E i \in DOMAIN chain : chain[i].call = "OrderBy"
           /\ q.limitN = Q!Given(chain, "Limit") /\ q.offsetN = Q!Given(chain, "Offset")
<1>a. PICK a : Builds(a, chain) /\ q = a[Len(chain)]
    BY Chains, Zenon
<1>u. PICK u : /\ Sifts(u, chain, Conditions) /\ \A k \in 0..Len(chain) : u[k] \in Seq(Q!Links)
               /\ conds = u[Len(chain)]
    BY Amongs, Zenon
<1>1. Len(chain) \in 0..Len(chain) /\ DOMAIN chain = 1..Len(chain)
    OBVIOUS
<1>2. q \in Builders
    BY <1>a, <1>1 DEF Builds
<1>3. Collects(q, conds) /\ conds \in Seq(Q!Links)
    BY <1>a, <1>u, <1>1, ChainConditions, Zenon
<1>4. Sets(q, chain, Len(chain))
    BY <1>a, <1>1, ChainSettings, Zenon
<1>5. conds \in Seq(Conditions)
  <2>1. \A i \in 1..Len(conds) : conds[i] \in Conditions
      BY <1>3 DEF Collects
  <2> QED
      BY <1>3, <2>1
<1>6. q.limitN = Q!Given(chain, "Limit") /\ q.offsetN = Q!Given(chain, "Offset")
  <2>1. LastSet(q.limitN, "Limit", chain, Len(chain)) /\ LastSet(q.offsetN, "Offset", chain, Len(chain))
      BY <1>4 DEF Sets
  <2>2. "Limit" \in {"Limit", "Offset"} /\ "Offset" \in {"Limit", "Offset"}
      OBVIOUS
  <2> QED
      BY <2>1, <2>2, GivenIs, Zenon
<1> QED
    BY <1>1, <1>2, <1>3, <1>4, <1>5, <1>6 DEF Sets

\* Where, going through the conditions, an alternative before has held, and where the
\* present one holds so far.
Joins(some, all, where, holds) ==
    /\ 0 \notin some /\ 0 \in all
    /\ \A k \in 1..Len(where) :
          IF k > 1 /\ where[k].boolean = "OR"
          THEN (k \in some <=> k - 1 \in some \/ k - 1 \in all) /\ (k \in all <=> k \in holds)
          ELSE (k \in some <=> k - 1 \in some) /\ (k \in all <=> k - 1 \in all /\ k \in holds)

Pairs == [some : BOOLEAN, all : BOOLEAN]
JoinStep(b, where, holds, i) ==
    IF i > 1 /\ where[i].boolean = "OR"
    THEN [some |-> b.some \/ b.all, all |-> i \in holds]
    ELSE [b EXCEPT !.all = @ /\ i \in holds]

\* What a step of Join makes of what is known.
LEMMA JoinStepIs ==
    ASSUME NEW b \in Pairs, NEW where, NEW holds, NEW i, NEW r, r = JoinStep(b, where, holds, i)
    PROVE  /\ r \in Pairs
           /\ IF i > 1 /\ where[i].boolean = "OR"
              THEN (r.some = TRUE <=> b.some = TRUE \/ b.all = TRUE) /\ (r.all = TRUE <=> i \in holds)
              ELSE (r.some = TRUE <=> b.some = TRUE) /\ (r.all = TRUE <=> b.all = TRUE /\ i \in holds)
<1>1. b = [some |-> b.some, all |-> b.all] /\ b.some \in BOOLEAN /\ b.all \in BOOLEAN
    BY DEF Pairs
<1>2. CASE i > 1 /\ where[i].boolean = "OR"
  <2>1. r = [some |-> b.some \/ b.all, all |-> i \in holds]
      BY <1>2, Zenon DEF JoinStep
  <2>a. PICK x \in BOOLEAN : x <=> b.some = TRUE \/ b.all = TRUE
      BY Zenon
  <2>b. PICK y \in BOOLEAN : y <=> i \in holds
      BY Zenon
  <2>d. (b.some \/ b.all) = x /\ (i \in holds) = y
      BY <1>1, <2>a, <2>b, Zenon
  <2>c. r = [some |-> x, all |-> y]
      BY <2>1, <2>d, Zenon
  <2>2. r.some = x /\ r.all = y
      BY ONLY <2>c
  <2>3. r \in Pairs
      BY ONLY <2>c, x \in BOOLEAN, y \in BOOLEAN DEF Pairs
  <2> QED
      BY <1>1, <1>2, <2>a, <2>b, <2>2, <2>3, Zenon
<1>3. CASE ~(i > 1 /\ where[i].boolean = "OR")
  <2>1. r = [b EXCEPT !.all = @ /\ i \in holds]
      BY <1>3, Zenon DEF JoinStep
  <2>2. r.some = b.some /\ r.all = (b.all /\ i \in holds)
      BY <1>1, <2>1, Zenon DEF Pairs
  <2>3. r \in Pairs
      BY <1>1, <2>1, Zenon DEF Pairs
  <2> QED
      BY <1>1, <1>3, <2>2, <2>3, Zenon
<1> QED
    BY <1>2, <1>3

\* A step of Join ends in such a pair.
LEMMA JoinStepType ==
    ASSUME NEW b \in Pairs, NEW where, NEW holds, NEW i
    PROVE  JoinStep(b, where, holds, i) \in Pairs
BY JoinStepIs, Zenon

\* Join is such a way through its conditions.
LEMMA JoinSteps ==
    ASSUME NEW E, NEW where \in Seq(E), NEW holds
    PROVE  \E some, all : /\ Joins(some, all, where, holds)
                          /\ Q!Join(where, holds) <=> Len(where) \in some \/ Len(where) \in all
<1> DEFINE n == Len(where)
           Is(a) == a = [i \in 0..n |->
                            IF i = 0 THEN [some |-> FALSE, all |-> TRUE]
                            ELSE JoinStep(a[i - 1], where, holds, i)]
<1>1. n \in Nat
    OBVIOUS
<1> HIDE DEF n
<1>b. PICK b : b = [some |-> FALSE, all |-> TRUE]
    OBVIOUS
<1>g. PICK g : g = [k \in 1..n |-> [x \in Pairs |-> JoinStep(x, where, holds, k)]]
    OBVIOUS
<1>2. g \in [1..n -> [Pairs -> Pairs]]
  <2>1. ASSUME NEW k \in 1..n, NEW x \in Pairs PROVE JoinStep(x, where, holds, k) \in Pairs
      BY JoinStepIs, Zenon
  <2> QED
      BY <1>g, <2>1, Zenon
<1>0. b \in Pairs
    BY <1>b DEF Pairs
<1>f. PICK f \in [0..n -> Pairs] : FollowsTo(n, f, b, g)
    BY <1>0, <1>1, <1>2, Steps, Zenon
<1>3. f[0] = b /\ \A k \in 1..n : f[k] = g[k][f[k - 1]]
    BY <1>f DEF FollowsTo
<1>4. ASSUME NEW k \in 1..n PROVE f[k] = JoinStep(f[k - 1], where, holds, k)
  <2>1. k - 1 \in 0..n
      BY <1>1
  <2>2. f[k - 1] \in Pairs /\ f[k] = g[k][f[k - 1]]
      BY <1>f, <1>3, <2>1
  <2> QED
      BY <1>g, <2>2
<1>5. Is(f)
  <2>1. \A i \in 0..n : f[i] = IF i = 0 THEN [some |-> FALSE, all |-> TRUE]
                                ELSE JoinStep(f[i - 1], where, holds, i)
    <3> SUFFICES ASSUME NEW i \in 0..n
                 PROVE  f[i] = IF i = 0 THEN [some |-> FALSE, all |-> TRUE]
                               ELSE JoinStep(f[i - 1], where, holds, i)
        OBVIOUS
    <3>1. i = 0 \/ i \in 1..n
        BY <1>1
    <3>2. 0 \notin 1..n
        OBVIOUS
    <3> QED
        BY <1>3, <1>4, <1>b, <3>1, <3>2, Zenon
  <2> QED
      BY <1>f, <2>1, Zenon
<1>a. PICK a : a = CHOOSE e : Is(e)
    OBVIOUS
<1>6. Is(a)
    BY <1>5, <1>a, Zenon
<1>7. Q!Join(where, holds) = (a[n].some \/ a[n].all)
    BY <1>a, Zenon DEF Q!Join, JoinStep, n
<1>8. a[0] = b
    BY <1>1, <1>6, <1>b
<1>9. ASSUME NEW k \in 1..n PROVE a[k] = JoinStep(a[k - 1], where, holds, k)
  <2>1. k \in 0..n /\ k # 0
      BY <1>1
  <2> QED
      BY ONLY <2>1, <1>6
<1> DEFINE T == {k \in 0..n : a[k] \in Pairs}
<1>10. \A k \in 0..n : k \in T
  <2>1. 0 \in T
      BY <1>0, <1>1, <1>8
  <2>2. ASSUME NEW k \in 1..n, k - 1 \in T PROVE k \in T
    <3>1. a[k - 1] \in Pairs
        BY <2>2
    <3>2. JoinStep(a[k - 1], where, holds, k) \in Pairs
        BY ONLY <3>1, JoinStepType, Zenon
    <3>3. a[k] \in Pairs
        BY <1>9, <3>2, Zenon
    <3>4. k \in 0..n
        BY <1>1
    <3> QED
        BY <3>3, <3>4, Zenon
  <2> HIDE DEF T
  <2> QED
      BY <1>1, <2>1, <2>2, UpTo
<1>11. \A k \in 0..n : a[k] \in Pairs
    BY <1>10
<1>s. PICK some : some = {k \in 0..n : a[k].some = TRUE}
    OBVIOUS
<1>l. PICK all : all = {k \in 0..n : a[k].all = TRUE}
    OBVIOUS
<1>12. 0 \notin some /\ 0 \in all
    BY <1>1, <1>8, <1>b, <1>s, <1>l
<1>13. ASSUME NEW k \in 1..n
       PROVE  IF k > 1 /\ where[k].boolean = "OR"
              THEN (k \in some <=> k - 1 \in some \/ k - 1 \in all) /\ (k \in all <=> k \in holds)
              ELSE (k \in some <=> k - 1 \in some) /\ (k \in all <=> k - 1 \in all /\ k \in holds)
  <2>1. k \in 0..n /\ k - 1 \in 0..n /\ a[k - 1] \in Pairs
      BY <1>1, <1>11
  <2>2. k \in some <=> a[k].some = TRUE
      BY <1>s, <2>1
  <2>3. k \in all <=> a[k].all = TRUE
      BY <1>l, <2>1
  <2>4. k - 1 \in some <=> a[k - 1].some = TRUE
      BY <1>s, <2>1
  <2>5. k - 1 \in all <=> a[k - 1].all = TRUE
      BY <1>l, <2>1
  <2>6. IF k > 1 /\ where[k].boolean = "OR"
        THEN /\ a[k].some = TRUE <=> a[k - 1].some = TRUE \/ a[k - 1].all = TRUE
             /\ a[k].all = TRUE <=> k \in holds
        ELSE /\ a[k].some = TRUE <=> a[k - 1].some = TRUE
             /\ a[k].all = TRUE <=> a[k - 1].all = TRUE /\ k \in holds
      BY <1>9, <2>1, JoinStepIs, Zenon
  <2> QED
      BY <2>2, <2>3, <2>4, <2>5, <2>6, Zenon
<1>14. Q!Join(where, holds) <=> n \in some \/ n \in all
  <2>1. n \in 0..n /\ a[n] \in Pairs
      BY <1>1, <1>11
  <2>2. a[n].some \in BOOLEAN /\ a[n].all \in BOOLEAN
      BY <2>1, Zenon DEF Pairs
  <2>3. (n \in some <=> a[n].some = TRUE) /\ (n \in all <=> a[n].all = TRUE)
      BY <1>s, <1>l, <2>1
  <2> QED
      BY <1>7, <2>2, <2>3, Zenon
<1> QED
    BY <1>12, <1>13, <1>14, Zenon DEF n, Joins

\* The conditions of the alternative that starts at s.
Within(starts, s, j) == j >= s /\ \A t \in starts : t > s => j < t
AllHold(starts, s, k, holds) == \A j \in 1..k : Within(starts, s, j) => j \in holds

\* The alternative that starts at l is present at k, and what Join knows then.
Present(starts, l, k) == l \in starts /\ l <= k /\ \A t \in starts : t > l => t > k
Known(some, all, starts, holds, l, k) ==
    /\ Present(starts, l, k)
    /\ k \in all <=> \A j \in l..k : j \in holds
    /\ k \in some <=> \E s \in starts : s < l /\ AllHold(starts, s, k, holds)

\* An alternative that ended before k + 1 has no condition there.
LEMMA EndedHold ==
    ASSUME NEW starts, starts \subseteq Nat \ {0}, NEW k \in Nat, NEW holds,
           NEW s \in starts, NEW l \in starts, s < l, l <= k + 1
    PROVE  AllHold(starts, s, k + 1, holds) <=> AllHold(starts, s, k, holds)
<1>1. ~Within(starts, s, k + 1)
    BY DEF Within
<1>2. ASSUME NEW j \in 1..k + 1 PROVE j \in 1..k \/ j = k + 1
    OBVIOUS
<1>3. 1..k \subseteq 1..k + 1
    OBVIOUS
<1> QED
    BY <1>1, <1>2, <1>3, Zenon DEF AllHold

\* The present alternative goes on to k.
LEMMA PresentHold ==
    ASSUME NEW starts, starts \subseteq Nat \ {0}, NEW k \in Nat, NEW holds,
           NEW l, Present(starts, l, k)
    PROVE  AllHold(starts, l, k, holds) <=> \A j \in l..k : j \in holds
<1>1. l \in Nat \ {0} /\ l <= k
    BY DEF Present
<1>2. ASSUME NEW j \in 1..k PROVE Within(starts, l, j) <=> j \in l..k
  <2>1. \A t \in starts : t > l => j < t
      BY DEF Present
  <2> QED
      BY <1>1, <2>1 DEF Within
<1>3. l..k \subseteq 1..k
    BY <1>1
<1> QED
    BY <1>2, <1>3, Zenon DEF AllHold

\* What Join knows at k it knows at k + 1, of the alternative that is present then.
LEMMA KnownStep ==
    ASSUME NEW starts, starts \subseteq Nat \ {0}, NEW k \in Nat, NEW holds, NEW some, NEW all,
           NEW l, Known(some, all, starts, holds, l, k),
           IF k + 1 \in starts
           THEN /\ k + 1 \in some <=> k \in some \/ k \in all
                /\ k + 1 \in all <=> k + 1 \in holds
           ELSE /\ k + 1 \in some <=> k \in some
                /\ k + 1 \in all <=> k \in all /\ k + 1 \in holds
    PROVE  \E m : Known(some, all, starts, holds, m, k + 1)
<1>0. Present(starts, l, k) /\ l \in starts /\ l \in Nat /\ l <= k /\ k + 1 \in Nat
    BY DEF Known, Present
<1>1. k \in all <=> \A j \in l..k : j \in holds
    BY DEF Known
<1>2. k \in some <=> \E s \in starts : s < l /\ AllHold(starts, s, k, holds)
    BY DEF Known
<1>3. CASE k + 1 \in starts
  <2>1. Present(starts, k + 1, k + 1)
      BY <1>3 DEF Present
  <2>2. k + 1 \in all <=> \A j \in k + 1..k + 1 : j \in holds
      BY <1>3
  <2>3. ASSUME NEW s \in starts
        PROVE  s < k + 1 /\ AllHold(starts, s, k + 1, holds)
               <=> s <= l /\ AllHold(starts, s, k, holds)
    <3>1. s < k + 1 <=> s <= l
      <4>1. s > l => s > k
          BY <1>0 DEF Present
      <4> QED
          BY <1>0, <4>1
    <3>2. s < k + 1 => (AllHold(starts, s, k + 1, holds) <=> AllHold(starts, s, k, holds))
      <4> SUFFICES ASSUME s < k + 1
                   PROVE  AllHold(starts, s, k + 1, holds) <=> AllHold(starts, s, k, holds)
          OBVIOUS
      <4>1. k + 1 <= k + 1
          OBVIOUS
      <4> QED
          BY <1>3, <4>1, EndedHold, Zenon
    <3> QED
        BY <3>1, <3>2, Zenon
  <2>4. k \in all <=> AllHold(starts, l, k, holds)
      BY <1>0, <1>1, PresentHold, Zenon
  <2>5. \A s \in starts : s <= l <=> s < l \/ s = l
      BY <1>0
  <2>6. k + 1 \in some <=> \E s \in starts : s < k + 1 /\ AllHold(starts, s, k + 1, holds)
    <3>1. k + 1 \in some <=> k \in some \/ k \in all
        BY <1>3
    <3>2. k \in some \/ k \in all <=> \E s \in starts : s <= l /\ AllHold(starts, s, k, holds)
        BY <1>0, <1>2, <2>4, <2>5, Zenon
    <3> QED
        BY <2>3, <3>1, <3>2, Zenon
  <2> QED
      BY <2>1, <2>2, <2>6, Zenon DEF Known
<1>4. CASE k + 1 \notin starts
  <2>1. Present(starts, l, k + 1)
    <3>1. ASSUME NEW t \in starts, t > l PROVE t > k + 1
      <4>1. t > k /\ t # k + 1 /\ t \in Nat
          BY <1>0, <1>4, <3>1 DEF Present
      <4> QED
          BY <4>1
    <3> QED
        BY <1>0, <3>1 DEF Present
  <2>2. k + 1 \in all <=> \A j \in l..k + 1 : j \in holds
    <3>1. \A j : j \in l..k + 1 <=> j \in l..k \/ j = k + 1
        BY <1>0
    <3>2. k + 1 \in all <=> k \in all /\ k + 1 \in holds
        BY <1>4
    <3> QED
        BY <1>1, <3>1, <3>2, Zenon
  <2>3. ASSUME NEW s \in starts, s < l
        PROVE  AllHold(starts, s, k + 1, holds) <=> AllHold(starts, s, k, holds)
    <3>1. l <= k + 1
        BY <1>0
    <3> QED
        BY <1>0, <2>3, <3>1, EndedHold, Zenon
  <2>4. k + 1 \in some <=> k \in some
      BY <1>4
  <2>5. k + 1 \in some <=> \E s \in starts : s < l /\ AllHold(starts, s, k + 1, holds)
      BY <1>2, <2>3, <2>4, Zenon
  <2> QED
      BY <2>1, <2>2, <2>5, Zenon DEF Known
<1> QED
    BY <1>3, <1>4

Starts(where) == {1} \cup {i \in DOMAIN where : where[i].boolean = "OR"}

\* A WHERE clause holds when one of the alternatives between its ORs does.
LEMMA JoinMeans ==
    ASSUME NEW E, NEW where \in Seq(E), NEW holds, NEW starts, starts = Starts(where)
    PROVE  Q!Join(where, holds) <=> \E s \in starts : AllHold(starts, s, Len(where), holds)
<1>n. PICK n \in Nat : n = Len(where) /\ DOMAIN where = 1..n
    OBVIOUS
<1>a. PICK some, all : Joins(some, all, where, holds) /\ (Q!Join(where, holds) <=> n \in some \/ n \in all)
    BY <1>n, JoinSteps, Zenon
<1>0. starts \subseteq Nat \ {0} /\ 1 \in starts /\ \A s \in starts : s = 1 \/ s <= n
    BY <1>n DEF Starts
<1>1. CASE n = 0
  <2>1. 0 \in all
      BY <1>a DEF Joins
  <2>2. AllHold(starts, 1, n, holds)
      BY <1>1 DEF AllHold
  <2> QED
      BY <1>0, <1>1, <1>a, <1>n, <2>1, <2>2, Zenon
<1>2. CASE n # 0
  <2>1. ASSUME NEW k \in 1..n
        PROVE  IF k > 1 /\ k \in starts
               THEN (k \in some <=> k - 1 \in some \/ k - 1 \in all) /\ (k \in all <=> k \in holds)
               ELSE (k \in some <=> k - 1 \in some) /\ (k \in all <=> k - 1 \in all /\ k \in holds)
    <3>1. k > 1 => (k \in starts <=> where[k].boolean = "OR")
        BY <1>n DEF Starts
    <3> QED
        BY <1>a, <1>n, <3>1 DEF Joins
  <2> DEFINE T == {k \in 0..n : k = 0 \/ \E l : Known(some, all, starts, holds, l, k)}
  <2>2. 0 \in T
      OBVIOUS
  <2>3. ASSUME NEW k \in 1..n, k - 1 \in T PROVE k \in T
    <3>k. PICK p \in Nat : p = k - 1 /\ k = p + 1
        OBVIOUS
    <3>1. CASE p = 0
      <4>1. k = 1 /\ ~(k > 1)
          BY <3>1, <3>k
      <4>2. 0 \notin some /\ 0 \in all
          BY <1>a DEF Joins
      <4>3. 1 \notin some /\ (1 \in all <=> 1 \in holds)
          BY <2>1, <3>1, <3>k, <4>1, <4>2
      <4>4. Present(starts, 1, 1)
          BY <1>0 DEF Present
      <4>5. ~\E s \in starts : s < 1
          BY <1>0
      <4>6. \A j : j \in 1..1 <=> j = 1
          OBVIOUS
      <4>7. Known(some, all, starts, holds, 1, 1)
          BY <4>3, <4>4, <4>5, <4>6, Zenon DEF Known
      <4>8. k \in 0..n
          OBVIOUS
      <4> QED
          BY <4>1, <4>7, <4>8, Zenon
    <3>2. CASE p # 0
      <4>1. PICK l : Known(some, all, starts, holds, l, p)
          BY <2>3, <3>2, <3>k
      <4>2. k > 1
          BY <3>2, <3>k
      <4>3. IF p + 1 \in starts
            THEN /\ p + 1 \in some <=> p \in some \/ p \in all
                 /\ p + 1 \in all <=> p + 1 \in holds
            ELSE /\ p + 1 \in some <=> p \in some
                 /\ p + 1 \in all <=> p \in all /\ p + 1 \in holds
        <5>1. IF k > 1 /\ k \in starts
              THEN (k \in some <=> k - 1 \in some \/ k - 1 \in all) /\ (k \in all <=> k \in holds)
              ELSE (k \in some <=> k - 1 \in some) /\ (k \in all <=> k - 1 \in all /\ k \in holds)
            BY <2>1
        <5>2. p + 1 = k /\ k - 1 = p
            BY <3>k
        <5> QED
            BY ONLY <4>2, <5>1, <5>2
      <4>4. \E m : Known(some, all, starts, holds, m, p + 1)
          BY <1>0, <4>1, <4>3, KnownStep, Zenon
      <4>5. k \in 0..n
          OBVIOUS
      <4>6. \E m : Known(some, all, starts, holds, m, k)
          BY ONLY <3>k, <4>4, Zenon
      <4> QED
          BY <4>5, <4>6, Zenon
    <3> QED
        BY <3>1, <3>2
  <2> HIDE DEF T
  <2>4. \A k \in 0..n : k \in T
      BY <2>2, <2>3, UpTo
  <2>5. PICK l : Known(some, all, starts, holds, l, n)
    <3>1. n \in T
        BY <2>4
    <3> QED
        BY <1>2, <3>1 DEF T
  <2>6. Present(starts, l, n)
      BY <2>5 DEF Known
  <2>7. n \in all <=> AllHold(starts, l, n, holds)
    <3>1. n \in all <=> \A j \in l..n : j \in holds
        BY <2>5 DEF Known
    <3> QED
        BY <1>0, <2>6, <3>1, PresentHold, Zenon
  <2>8. n \in some <=> \E s \in starts : s < l /\ AllHold(starts, s, n, holds)
      BY <2>5 DEF Known
  <2>9. l \in starts /\ \A s \in starts : s < l \/ s = l
    <3>0. l \in starts /\ l \in Nat \ {0} /\ l <= n
        BY <1>0, <2>6 DEF Present
    <3>1. ASSUME NEW s \in starts, s > l PROVE FALSE
      <4>1. s > n
          BY <2>6, <3>1 DEF Present
      <4>2. s \in Nat /\ (s = 1 \/ s <= n)
          BY <1>0
      <4> QED
          BY <3>0, <3>1, <4>1, <4>2
    <3> QED
        BY <1>0, <3>0, <3>1
  <2>10. n \in some \/ n \in all <=> \E s \in starts : AllHold(starts, s, n, holds)
      BY <2>7, <2>8, <2>9, Zenon
  <2> QED
      BY <1>a, <1>n, <2>10, Zenon
<1> QED
    BY <1>1, <1>2

\* A condition has as many arguments as placeholders.
LEMMA ArgumentsFit ==
    ASSUME NEW w \in Clauses
    PROVE  /\ Q!Arguments(w) \in Seq(Int) /\ Q!Holes(w) \in Nat \ {0}
           /\ Len(Q!Arguments(w)) = Q!Holes(w)
<1>1. w.value \in Int /\ w.inValues \in Seq(Int)
    BY DEF Clauses
<1>2. CASE w.inValues = <<>>
  <2>v. PICK v \in Int : v = w.value
      BY <1>1
  <2>1. Q!Arguments(w) = <<v>> /\ Q!Holes(w) = 1
      BY <1>2, <2>v DEF Q!Arguments, Q!Holes
  <2> QED
      BY ONLY <2>1, v \in Int
<1>3. CASE w.inValues # <<>>
  <2>v. PICK v \in Seq(Int) : v = w.inValues
      BY <1>1
  <2>1. Q!Arguments(w) = v /\ Q!Holes(w) = Len(v) /\ v # <<>>
      BY <1>3, <2>v DEF Q!Arguments, Q!Holes
  <2> QED
      BY ONLY <2>1, v \in Seq(Int)
<1> QED
    BY <1>2, <1>3

Texts == [boolean : {"AND", "OR"}, op : {"none", "=", ">=", "IN"}, holes : Seq(Nat)]
BuiltWheres == [text : Seq(Texts), args : Seq(Int), paramIdx : Nat]

\* A condition written.
LEMMA ConditionType ==
    ASSUME NEW w \in Clauses, NEW dialect, NEW index \in Nat
    PROVE  Q!Condition(w, dialect, index) \in Texts
<1>1. w.boolean \in {"AND", "OR"} /\ w.op \in {"none", "=", ">="} /\ Q!Holes(w) \in Nat
    BY ArgumentsFit DEF Clauses
<1>h. PICK h : h = [j \in 1..Q!Holes(w) |-> Q!Placeholder(dialect, index + j - 1)]
    OBVIOUS
<1>2. h \in Seq(Nat)
  <2>1. \A j \in 1..Q!Holes(w) : Q!Placeholder(dialect, index + j - 1) \in Nat
      BY DEF Q!Placeholder
  <2>2. h \in [1..Q!Holes(w) -> Nat]
      BY <1>h, <2>1
  <2> QED
      BY <1>1, <2>2
<1>3. Q!Condition(w, dialect, index)
      = [boolean |-> w.boolean, op |-> IF w.inValues = <<>> THEN w.op ELSE "IN", holes |-> h]
    BY <1>h, Zenon DEF Q!Condition
<1> QED
    BY <1>1, <1>2, <1>3 DEF Texts

BuildStep(b, w, dialect) ==
    [text |-> Append(b.text, Q!Condition(w, dialect, b.paramIdx)),
     args |-> b.args \o Q!Arguments(w),
     paramIdx |-> b.paramIdx + Q!Holes(w)]

\* A step of buildWhere ends in such a clause.
LEMMA BuildStepType ==
    ASSUME NEW b \in BuiltWheres, NEW w \in Clauses, NEW dialect
    PROVE  BuildStep(b, w, dialect) \in BuiltWheres
<1>1. b.text \in Seq(Texts) /\ b.args \in Seq(Int) /\ b.paramIdx \in Nat
    BY DEF BuiltWheres
<1>c. PICK c : c = Q!Condition(w, dialect, b.paramIdx)
    OBVIOUS
<1>2. c \in Texts
    BY <1>1, <1>c, ConditionType
<1>a. PICK a \in Seq(Int) : a = Q!Arguments(w)
    BY ArgumentsFit
<1>h. PICK h \in Nat : h = Q!Holes(w)
    BY ArgumentsFit
<1>u. PICK u \in Seq(Texts) : u = b.text
    BY <1>1
<1>v. PICK v \in Seq(Int) : v = b.args
    BY <1>1
<1>2t. Append(u, c) \in Seq(Texts)
    BY ONLY <1>2, u \in Seq(Texts)
<1>2x. v \o a \in Seq(Int)
    BY ONLY v \in Seq(Int), a \in Seq(Int)
<1>t. PICK t \in Seq(Texts) : t = Append(b.text, c)
    BY <1>2t, <1>u, Zenon
<1>x. PICK x \in Seq(Int) : x = b.args \o a
    BY <1>2x, <1>v, Zenon
<1>p. PICK p \in Nat : p = b.paramIdx + h
    BY ONLY <1>1, h \in Nat
<1>4. BuildStep(b, w, dialect) = [text |-> t, args |-> x, paramIdx |-> p]
    BY <1>a, <1>c, <1>h, <1>t, <1>x, <1>p, Zenon DEF BuildStep
<1> QED
    BY ONLY <1>4, t \in Seq(Texts), x \in Seq(Int), p \in Nat DEF BuiltWheres

\* The clause after every condition.
Writes(to, wheres, dialect, start) ==
    /\ to[0] = [text |-> <<>>, args |-> <<>>, paramIdx |-> start]
    /\ \A k \in 0..Len(wheres) : to[k] \in BuiltWheres
    /\ \A k \in 1..Len(wheres) : to[k] = BuildStep(to[k - 1], wheres[k], dialect)

\* buildWhere is such a way through the conditions of its builder.
LEMMA WhereBuilt ==
    ASSUME NEW q \in Builders, NEW dialect, NEW start \in Nat
    PROVE  \E to : /\ Writes(to, q.wheres, dialect, start)
                   /\ Q!buildWhere(q, dialect, start) = to[Len(q.wheres)]
<1> DEFINE n == Len(q.wheres)
           Is(a) == a = [i \in 0..n |->
                            IF i = 0 THEN [text |-> <<>>, args |-> <<>>, paramIdx |-> start]
                            ELSE BuildStep(a[i - 1], q.wheres[i], dialect)]
<1>1. n \in Nat /\ \A i \in 1..n : q.wheres[i] \in Clauses
    BY DEF Builders
<1> HIDE DEF n
<1>V. PICK V : V = BuiltWheres
    OBVIOUS
<1>b. PICK b : b = [text |-> <<>>, args |-> <<>>, paramIdx |-> start]
    OBVIOUS
<1>g. PICK g : g = [k \in 1..n |-> [x \in V |-> BuildStep(x, q.wheres[k], dialect)]]
    OBVIOUS
<1>2. g \in [1..n -> [V -> V]]
  <2>1. ASSUME NEW k \in 1..n, NEW x \in V PROVE BuildStep(x, q.wheres[k], dialect) \in V
      BY <1>1, <1>V, BuildStepType
  <2> QED
      BY <1>g, <2>1
<1>0. b \in V
    BY <1>b, <1>V DEF BuiltWheres
<1>f. PICK f \in [0..n -> V] : FollowsTo(n, f, b, g)
    BY <1>0, <1>1, <1>2, Steps, Zenon
<1>3. f[0] = b /\ \A k \in 1..n : f[k] = g[k][f[k - 1]]
    BY <1>f DEF FollowsTo
<1>4. ASSUME NEW k \in 1..n PROVE f[k] = BuildStep(f[k - 1], q.wheres[k], dialect)
  <2>1. k - 1 \in 0..n
      BY <1>1
  <2>2. f[k - 1] \in V /\ f[k] = g[k][f[k - 1]]
      BY <1>f, <1>3, <2>1
  <2> QED
      BY <1>g, <2>2
<1>5. Is(f)
  <2>1. \A i \in 0..n : f[i] = IF i = 0 THEN [text |-> <<>>, args |-> <<>>, paramIdx |-> start]
                                ELSE BuildStep(f[i - 1], q.wheres[i], dialect)
    <3> SUFFICES ASSUME NEW i \in 0..n
                 PROVE  f[i] = IF i = 0 THEN [text |-> <<>>, args |-> <<>>, paramIdx |-> start]
                               ELSE BuildStep(f[i - 1], q.wheres[i], dialect)
        OBVIOUS
    <3>1. i = 0 \/ i \in 1..n
        BY <1>1
    <3>2. 0 \notin 1..n
        OBVIOUS
    <3> QED
        BY <1>3, <1>4, <1>b, <3>1, <3>2, Zenon
  <2> QED
      BY <1>f, <2>1, Zenon
<1>a. PICK a : a = CHOOSE e : Is(e)
    OBVIOUS
<1>6. Is(a)
    BY <1>5, <1>a, Zenon
<1>7. Q!buildWhere(q, dialect, start) = a[n]
    BY <1>a, Zenon DEF Q!buildWhere, BuildStep, n
<1>8. a[0] = b
    BY <1>1, <1>6, <1>b
<1>9. ASSUME NEW k \in 1..n PROVE a[k] = BuildStep(a[k - 1], q.wheres[k], dialect)
  <2>1. k \in 0..n /\ k # 0
      BY <1>1
  <2> QED
      BY ONLY <2>1, <1>6
<1> DEFINE T == {k \in 0..n : a[k] \in V}
<1>10. \A k \in 0..n : k \in T
  <2>1. 0 \in T
      BY <1>0, <1>1, <1>8
  <2>2. ASSUME NEW k \in 1..n, k - 1 \in T PROVE k \in T
    <3>1. a[k - 1] \in V /\ q.wheres[k] \in Clauses
        BY <1>1, <2>2
    <3>2. BuildStep(a[k - 1], q.wheres[k], dialect) \in V
        BY <1>V, <3>1, BuildStepType
    <3> QED
        BY <1>1, <1>9, <3>2
  <2> HIDE DEF T
  <2> QED
      BY <1>1, <2>1, <2>2, UpTo
<1>11. \A k \in 0..n : a[k] \in BuiltWheres
    BY <1>10, <1>V
<1> QED
    BY <1>7, <1>8, <1>9, <1>11, <1>b, Zenon DEF n, Writes

\* The first k conditions with their placeholders, numbered from start on, and their
\* arguments: those of the i-th follow the first pos[i - 1].
Placed(b, pos, wheres, dialect, start, k) ==
    /\ Len(b.text) = k /\ Len(b.args) = pos[k] /\ b.paramIdx = start + pos[k]
    /\ \A i \in 1..k : b.text[i] = Q!Condition(wheres[i], dialect, start + pos[i - 1])
    /\ \A i \in 1..k : \A j \in 1..Q!Holes(wheres[i]) :
          /\ pos[i - 1] + j \in 1..pos[k]
          /\ b.args[pos[i - 1] + j] = Q!Arguments(wheres[i])[j]

Positions(pos, wheres) ==
    /\ pos[0] = 0 /\ \A k \in 0..Len(wheres) : pos[k] \in Nat
    /\ \A k \in 1..Len(wheres) : pos[k] = pos[k - 1] + Q!Holes(wheres[k])

\* The next condition is placed after those before it.
LEMMA PlacedStep ==
    ASSUME NEW wheres \in Seq(Clauses), NEW dialect, NEW start \in Nat,
           NEW pos, Positions(pos, wheres), NEW k \in 1..Len(wheres),
           NEW b \in BuiltWheres, Placed(b, pos, wheres, dialect, start, k - 1),
           NEW r, r = BuildStep(b, wheres[k], dialect)
    PROVE  Placed(r, pos, wheres, dialect, start, k)
<1>w. PICK w \in Clauses : w = wheres[k]
    OBVIOUS
<1>h. PICK h \in Nat \ {0} : h = Q!Holes(w)
    BY ArgumentsFit
<1>a. PICK a \in Seq(Int) : a = Q!Arguments(w) /\ Len(a) = h
    BY <1>h, ArgumentsFit
<1>u. PICK u \in Seq(Texts) : u = b.text
    BY DEF BuiltWheres
<1>v. PICK v \in Seq(Int) : v = b.args
    BY DEF BuiltWheres
<1>0. k - 1 \in 0..Len(wheres)
    OBVIOUS
<1>p. PICK p \in Nat : p = pos[k - 1]
    BY ONLY <1>0, Positions(pos, wheres) DEF Positions
<1>1. pos[k] = p + h /\ k \in Nat /\ k - 1 \in Nat
    BY <1>h, <1>p, <1>w DEF Positions
<1>2. Len(u) = k - 1 /\ Len(v) = p /\ b.paramIdx = start + p
    BY <1>p, <1>u, <1>v DEF Placed
<1>c. PICK c : c = Q!Condition(w, dialect, start + p)
    OBVIOUS
<1>r. r = [text |-> Append(u, c), args |-> v \o a, paramIdx |-> start + p + h]
    BY <1>2, <1>a, <1>c, <1>h, <1>u, <1>v, <1>w, Zenon DEF BuildStep
<1>3. r.text = Append(u, c) /\ r.args = v \o a /\ r.paramIdx = start + p + h
    BY ONLY <1>r, Zenon
<1>ct. c \in Texts
    BY <1>c, ConditionType
<1>4a. Len(Append(u, c)) = Len(u) + 1 /\ Len(v \o a) = Len(v) + Len(a)
    BY ONLY <1>ct, u \in Seq(Texts), v \in Seq(Int), a \in Seq(Int)
<1>4. Len(Append(u, c)) = k /\ Len(v \o a) = p + h
    BY <1>1, <1>2, <1>a, <1>4a
<1>5. ASSUME NEW i \in 1..k
      PROVE  Append(u, c)[i] = Q!Condition(wheres[i], dialect, start + pos[i - 1])
  <2>1. CASE i = k
    <3>1. Append(u, c)[i] = c
        BY <1>1, <1>2, <2>1
    <3> QED
        BY <1>c, <1>p, <1>w, <2>1, <3>1
  <2>2. CASE i # k
    <3>1. i \in 1..k - 1
        BY <1>1, <2>2
    <3>2. Append(u, c)[i] = u[i]
        BY <1>2, <3>1
    <3> QED
        BY <1>u, <3>1, <3>2 DEF Placed
  <2> QED
      BY <2>1, <2>2
<1>6. ASSUME NEW i \in 1..k, NEW j \in 1..Q!Holes(wheres[i])
      PROVE  /\ pos[i - 1] + j \in 1..p + h
             /\ (v \o a)[pos[i - 1] + j] = Q!Arguments(wheres[i])[j]
  <2>1. CASE i = k
    <3>1. j \in 1..h /\ pos[i - 1] = p
        BY <1>h, <1>p, <1>w, <2>1
    <3>2. p + j \in 1..p + h
        BY <3>1
    <3>3. (v \o a)[p + j] = a[j]
      <4>1. p + j \in 1..Len(v) + Len(a) /\ ~(p + j <= Len(v)) /\ (p + j) - Len(v) = j
          BY <1>2, <1>a, <3>1
      <4> QED
          BY ONLY <4>1, v \in Seq(Int), a \in Seq(Int), ConcatProperties
    <3> QED
        BY <1>a, <1>w, <2>1, <3>1, <3>2, <3>3
  <2>2. CASE i # k
    <3>1. i \in 1..k - 1
        BY <1>1, <2>2
    <3>2. pos[i - 1] + j \in 1..p /\ v[pos[i - 1] + j] = Q!Arguments(wheres[i])[j]
        BY <1>p, <1>v, <3>1 DEF Placed
    <3>x. PICK x \in 1..p : x = pos[i - 1] + j
        BY <3>2
    <3>3. x \in 1..p + h /\ (v \o a)[x] = v[x]
        BY ONLY <1>2, v \in Seq(Int), a \in Seq(Int), x \in 1..p, p \in Nat, h \in Nat \ {0}
    <3> QED
        BY <3>2, <3>3, <3>x
  <2> QED
      BY <2>1, <2>2
<1>7. Len(r.text) = k /\ Len(r.args) = pos[k] /\ r.paramIdx = start + pos[k]
    BY <1>1, <1>3, <1>4
<1>8. \A i \in 1..k : r.text[i] = Q!Condition(wheres[i], dialect, start + pos[i - 1])
    BY <1>3, <1>5, Zenon
<1>9. \A i \in 1..k : \A j \in 1..Q!Holes(wheres[i]) :
         /\ pos[i - 1] + j \in 1..pos[k]
         /\ r.args[pos[i - 1] + j] = Q!Arguments(wheres[i])[j]
    BY <1>1, <1>3, <1>6, Zenon
<1> QED
    BY <1>7, <1>8, <1>9, Zenon DEF Placed

\* What buildWhere makes.
LEMMA WherePlaced ==
    ASSUME NEW q \in Builders, NEW dialect, NEW start \in Nat,
           NEW b, b = Q!buildWhere(q, dialect, start)
    PROVE  \E pos : /\ Positions(pos, q.wheres)
                    /\ Placed(b, pos, q.wheres, dialect, start, Len(q.wheres))
                    /\ b \in BuiltWheres
<1>w. PICK wheres \in Seq(Clauses) : wheres = q.wheres
    BY DEF Builders
<1>n. PICK n \in Nat : n = Len(wheres)
    OBVIOUS
<1>t. PICK to : Writes(to, wheres, dialect, start) /\ b = to[n]
    BY <1>w, <1>n, WhereBuilt, Zenon
<1>0. /\ to[0] = [text |-> <<>>, args |-> <<>>, paramIdx |-> start]
      /\ \A k \in 0..n : to[k] \in BuiltWheres
      /\ \A k \in 1..n : to[k] = BuildStep(to[k - 1], wheres[k], dialect)
    BY <1>n, <1>t DEF Writes
<1>p. PICK pos : pos = [k \in 0..n |-> Len(to[k].args)]
    OBVIOUS
<1>1. \A k \in 0..n : pos[k] \in Nat
  <2> TAKE k \in 0..n
  <2>1. to[k].args \in Seq(Int)
      BY <1>0 DEF BuiltWheres
  <2> QED
      BY <1>p, <2>1
<1>2. pos[0] = 0
    BY <1>0, <1>p
<1>3. ASSUME NEW k \in 1..n PROVE pos[k] = pos[k - 1] + Q!Holes(wheres[k])
  <2>v. PICK v \in Seq(Int) : v = to[k - 1].args
    <3>1. to[k - 1] \in BuiltWheres
        BY <1>0
    <3> QED
        BY <3>1 DEF BuiltWheres
  <2>c. PICK w \in Clauses : w = wheres[k]
      BY <1>n
  <2>a. PICK a \in Seq(Int) : a = Q!Arguments(w) /\ Len(a) = Q!Holes(w)
      BY ArgumentsFit
  <2>r. to[k] = [text |-> Append(to[k - 1].text, Q!Condition(w, dialect, to[k - 1].paramIdx)),
                 args |-> v \o a, paramIdx |-> to[k - 1].paramIdx + Q!Holes(w)]
    <3>1. to[k] = BuildStep(to[k - 1], w, dialect)
        BY <1>0, <2>c
    <3> QED
        BY ONLY <3>1, <2>a, <2>v, Zenon DEF BuildStep
  <2>x. PICK x : x = to[k]
      OBVIOUS
  <2>y. PICK y : y = v \o a
      OBVIOUS
  <2>1. x.args = y
      BY ONLY <2>r, <2>x, <2>y
  <2>2. Len(v \o a) = Len(v) + Len(a)
      BY ONLY v \in Seq(Int), a \in Seq(Int)
  <2>3. k - 1 \in 0..n /\ k \in 0..n
      OBVIOUS
  <2> QED
      BY <1>p, <2>1, <2>2, <2>3, <2>a, <2>c, <2>v, <2>x, <2>y
<1>4. Positions(pos, wheres)
    BY <1>1, <1>2, <1>3, <1>n DEF Positions
<1> DEFINE T == {k \in 0..n : Placed(to[k], pos, wheres, dialect, start, k)}
<1>5. 0 \in T
  <2>1. 1..0 = {} /\ start + 0 = start
      OBVIOUS
  <2>2. to[0].text = <<>> /\ to[0].args = <<>> /\ to[0].paramIdx = start
      BY <1>0
  <2>3. Len(to[0].text) = 0 /\ Len(to[0].args) = pos[0] /\ to[0].paramIdx = start + pos[0]
      BY <1>2, <2>1, <2>2
  <2>4. Placed(to[0], pos, wheres, dialect, start, 0)
      BY ONLY <2>1, <2>3 DEF Placed
  <2> QED
      BY <2>4
<1>6. ASSUME NEW k \in 1..n, k - 1 \in T PROVE k \in T
  <2>1. to[k - 1] \in BuiltWheres /\ to[k] = BuildStep(to[k - 1], wheres[k], dialect)
      BY <1>0
  <2>2. Placed(to[k - 1], pos, wheres, dialect, start, k - 1)
      BY <1>6
  <2>3. k \in 1..Len(wheres)
      BY <1>n
  <2>4. Placed(to[k], pos, wheres, dialect, start, k)
      BY <1>4, <2>1, <2>2, <2>3, PlacedStep, Zenon
  <2>5. k \in 0..n
      OBVIOUS
  <2> QED
      BY <2>4, <2>5
<1> HIDE DEF T
<1>7. \A k \in 0..n : k \in T
    BY <1>5, <1>6, UpTo
<1>8. n \in 0..n
    OBVIOUS
<1>9. Placed(b, pos, wheres, dialect, start, n) /\ b \in BuiltWheres
    BY <1>0, <1>7, <1>8, <1>t DEF T
<1> QED
    BY <1>4, <1>9, <1>n, <1>w, Zenon

\* A condition that is written.
Written(c, w, dialect, index) ==
    /\ c.boolean = w.boolean /\ c.op = IF w.inValues = <<>> THEN w.op ELSE "IN"
    /\ Len(c.holes) = Q!Holes(w) /\ DOMAIN c.holes = 1..Q!Holes(w)
    /\ \A j \in 1..Q!Holes(w) :
          c.holes[j] = IF dialect = "postgres" THEN index + j - 1 ELSE 0

\* Condition writes the parts of a condition.
LEMMA ConditionFields ==
    ASSUME NEW w \in Clauses, NEW dialect, NEW index \in Nat
    PROVE  Written(Q!Condition(w, dialect, index), w, dialect, index)
<1>c. PICK c : c = Q!Condition(w, dialect, index)
    OBVIOUS
<1>h. PICK h : h = [j \in 1..Q!Holes(w) |-> Q!Placeholder(dialect, index + j - 1)]
    OBVIOUS
<1>o. PICK o : o = IF w.inValues = <<>> THEN w.op ELSE "IN"
    OBVIOUS
<1>b. PICK b : b = w.boolean
    OBVIOUS
<1>1. c = [boolean |-> b, op |-> o, holes |-> h]
    BY <1>c, <1>h, <1>o, <1>b, Zenon DEF Q!Condition
<1>2. c.boolean = b /\ c.op = o /\ c.holes = h
    BY ONLY <1>1
<1>3. c \in Texts
    BY <1>c, ConditionType
<1>4. Q!Holes(w) \in Nat
    BY ArgumentsFit
<1>5. DOMAIN h = 1..Q!Holes(w)
    BY <1>h
<1>6. h \in Seq(Nat)
    BY <1>2, <1>3 DEF Texts
<1>7. Len(h) = Q!Holes(w)
    BY ONLY <1>4, <1>5, <1>6
<1>8. \A j \in 1..Q!Holes(w) : h[j] = IF dialect = "postgres" THEN index + j - 1 ELSE 0
    BY <1>h DEF Q!Placeholder
<1> QED
    BY <1>2, <1>5, <1>7, <1>8, <1>b, <1>c, <1>o DEF Written

\* A statement with a clause that buildWhere made, after the values of new columns.
Carries(s, b, data) ==
    /\ s.where = b.text /\ s.args = data \o b.args /\ Len(s.sets) = Len(data)

After(data, start) == start = Len(data) + 1
Tested(w) == {Q!Arguments(w)[j] : j \in 1..Q!Holes(w)}

\* The placeholders of a condition stand for its arguments.
LEMMA ValuesAre ==
    ASSUME NEW wheres \in Seq(Clauses), NEW dialect, NEW data \in Seq(Int),
           NEW start, After(data, start), NEW pos, Positions(pos, wheres),
           NEW b \in BuiltWheres, Placed(b, pos, wheres, dialect, start, Len(wheres)),
           NEW s, Carries(s, b, data), NEW i \in 1..Len(wheres)
    PROVE  Q!Values(s, i) = Tested(wheres[i])
<1>n. PICK n \in Nat : n = Len(wheres)
    OBVIOUS
<1>d. PICK d \in Nat : d = Len(data)
    OBVIOUS
<1>0. start = d + 1 /\ start \in Nat
    BY <1>d DEF After
<1>w. /\ s.where = b.text /\ s.args = data \o b.args /\ Len(s.sets) = d
      /\ Len(b.text) = n
    BY <1>d, <1>n DEF Carries, Placed
<1>p. /\ pos[0] = 0 /\ \A k \in 0..n : pos[k] \in Nat
      /\ \A k \in 1..n : pos[k] = pos[k - 1] + Q!Holes(wheres[k])
    BY <1>n DEF Positions
<1>c. ASSUME NEW k \in 1..n
      PROVE  /\ Len(s.where[k].holes) = Q!Holes(wheres[k])
             /\ DOMAIN s.where[k].holes = 1..Q!Holes(wheres[k])
             /\ \A j \in 1..Q!Holes(wheres[k]) : s.where[k].holes[j]
                   = IF dialect = "postgres" THEN start + pos[k - 1] + j - 1 ELSE 0
  <2>c. PICK w \in Clauses : w = wheres[k]
      BY <1>n
  <2>x. PICK x \in Nat : x = start + pos[k - 1]
    <3>1. k - 1 \in 0..n
        OBVIOUS
    <3>2. pos[k - 1] \in Nat
        BY ONLY <1>p, <3>1
    <3> QED
        BY ONLY <1>0, <3>2
  <2>1. s.where[k] = Q!Condition(w, dialect, x)
      BY <1>n, <1>w, <2>c, <2>x DEF Placed
  <2>2. /\ Len(s.where[k].holes) = Q!Holes(w) /\ DOMAIN s.where[k].holes = 1..Q!Holes(w)
        /\ \A j \in 1..Q!Holes(w) :
              s.where[k].holes[j] = IF dialect = "postgres" THEN x + j - 1 ELSE 0
    <3>1. Written(s.where[k], w, dialect, x)
        BY <2>1, ConditionFields, Zenon
    <3> QED
        BY ONLY <3>1, Zenon DEF Written
  <2> QED
      BY ONLY <2>2, <2>c, <2>x
<1> DEFINE Is(f) == f = [k \in 0..Len(s.where) |->
                            IF k = 0 THEN Len(s.sets) ELSE f[k - 1] + Len(s.where[k].holes)]
<1>l. Len(s.where) = n
    BY <1>w
<1>1. Is([k \in 0..n |-> d + pos[k]])
  <2>f. PICK f : f = [k \in 0..n |-> d + pos[k]]
      OBVIOUS
  <2>1. ASSUME NEW k \in 0..n
        PROVE  f[k] = IF k = 0 THEN Len(s.sets) ELSE f[k - 1] + Len(s.where[k].holes)
    <3>1. CASE k = 0
        BY <1>p, <1>w, <2>f, <3>1
    <3>2. CASE k # 0
      <4>1. k \in 1..n /\ k - 1 \in 0..n
          BY <3>2
      <4>2. Len(s.where[k].holes) = Q!Holes(wheres[k]) /\ pos[k] = pos[k - 1] + Q!Holes(wheres[k])
          BY <1>c, <1>p, <4>1
      <4>h. PICK h \in Nat : h = Q!Holes(wheres[k])
          BY <1>n, <4>1, ArgumentsFit
      <4>3. f[k] = d + pos[k] /\ f[k - 1] = d + pos[k - 1] /\ pos[k - 1] \in Nat
          BY <1>p, <2>f, <4>1
      <4> QED
          BY <3>2, <4>2, <4>3, <4>h
    <3> QED
        BY <3>1, <3>2
  <2>2. f = [k \in 0..n |-> IF k = 0 THEN Len(s.sets) ELSE f[k - 1] + Len(s.where[k].holes)]
      BY <2>f, <2>1, Zenon
  <2> QED
      BY <1>l, <2>2, <2>f, Zenon
<1>s. PICK seen : seen = CHOOSE f : Is(f)
    OBVIOUS
<1>2. Is(seen)
    BY <1>1, <1>s, Zenon
<1>3. Q!Values(s, i)
      = {Q!Bound(s, s.where[i].holes[j], seen[i - 1] + j) : j \in DOMAIN s.where[i].holes}
    BY <1>s, Zenon DEF Q!Values
<1>4. seen[0] = d /\ \A k \in 1..n : seen[k] = seen[k - 1] + Len(s.where[k].holes)
  <2>1. seen[0] = d
      BY <1>2, <1>l, <1>w
  <2>2. ASSUME NEW k \in 1..n PROVE seen[k] = seen[k - 1] + Len(s.where[k].holes)
    <3>1. k \in 0..Len(s.where) /\ k # 0
        BY <1>l
    <3> QED
        BY ONLY <3>1, <1>2
  <2> QED
      BY <2>1, <2>2
<1> HIDE DEF Is
<1> DEFINE T == {k \in 0..n : seen[k] = d + pos[k]}
<1>5. \A k \in 0..n : k \in T
  <2>1. 0 \in T
      BY <1>4, <1>p
  <2>2. ASSUME NEW k \in 1..n, k - 1 \in T PROVE k \in T
    <3>h. PICK h \in Nat : h = Q!Holes(wheres[k])
        BY <1>n, ArgumentsFit
    <3>1. seen[k] = seen[k - 1] + h /\ pos[k] = pos[k - 1] + h /\ pos[k - 1] \in Nat
        BY <1>4, <1>c, <1>p, <3>h
    <3>2. seen[k - 1] = d + pos[k - 1] /\ k \in 0..n
        BY <2>2
    <3> QED
        BY <3>1, <3>2
  <2> HIDE DEF T
  <2> QED
      BY <2>1, <2>2, UpTo
<1>x. PICK p \in Nat : p = pos[i - 1]
    BY <1>n, <1>p
<1>6. seen[i - 1] = d + p
  <2>1. i - 1 \in 0..n
      BY <1>n
  <2> QED
      BY <1>5, <1>x, <2>1
<1>h. PICK h \in Nat : h = Q!Holes(wheres[i])
  <2>1. wheres[i] \in Clauses
      OBVIOUS
  <2> QED
      BY <2>1, ArgumentsFit
<1>7. ASSUME NEW j \in 1..h
      PROVE  Q!Bound(s, s.where[i].holes[j], seen[i - 1] + j) = Q!Arguments(wheres[i])[j]
  <2>1. s.where[i].holes[j] = IF dialect = "postgres" THEN start + p + j - 1 ELSE 0
      BY <1>c, <1>h, <1>n, <1>x
  <2>2. (IF s.where[i].holes[j] = 0 THEN seen[i - 1] + j ELSE s.where[i].holes[j]) = d + (p + j)
    <3>j. PICK x \in Nat : x = j
        OBVIOUS
    <3>o. PICK hole : hole = s.where[i].holes[j]
        OBVIOUS
    <3>1. hole = IF dialect = "postgres" THEN d + 1 + p + x - 1 ELSE 0
        BY <1>0, <2>1, <3>j, <3>o
    <3>2. (IF hole = 0 THEN d + p + x ELSE hole) = d + (p + x)
        BY ONLY <3>1, d \in Nat, p \in Nat, x \in Nat
    <3>3. seen[i - 1] + j = d + p + x
        BY <1>6, <3>j
    <3> QED
        BY ONLY <3>2, <3>3, <3>j, <3>o, Zenon
  <2>3. p + j \in 1..Len(b.args) /\ b.args[p + j] = Q!Arguments(wheres[i])[j]
      BY <1>h, <1>n, <1>x DEF Placed
  <2>v. PICK v \in Seq(Int) : v = b.args
      BY DEF BuiltWheres
  <2>x. PICK x \in Nat : x = p + j /\ x \in 1..Len(v)
      BY <2>3, <2>v
  <2>4. (data \o v)[d + x] = v[x]
    <3>1. d + x \in 1..Len(data) + Len(v) /\ ~(d + x <= Len(data)) /\ (d + x) - Len(data) = x
        BY <1>d, <2>x
    <3> QED
        BY ONLY <3>1, data \in Seq(Int), v \in Seq(Int), ConcatProperties
  <2>5. Q!Bound(s, s.where[i].holes[j], seen[i - 1] + j) = s.args[d + x]
      BY <2>2, <2>x, Zenon DEF Q!Bound
  <2> QED
      BY <1>w, <2>3, <2>4, <2>5, <2>v, <2>x
<1>8. DOMAIN s.where[i].holes = 1..h
    BY <1>c, <1>h, <1>n
<1> QED
    BY <1>3, <1>7, <1>8, <1>h, Zenon DEF Tested

\* Whether a row satisfies a condition of the chain.
Satisfies(c, row) ==
    IF c.call = "WhereIn" THEN row \in Q!ToSet(c.values)
    ELSE IF c.op = "=" THEN row = c.n ELSE row >= c.n

OpOf(w) == IF w.inValues = <<>> THEN w.op ELSE "IN"
Empty(c) == c.call = "WhereIn" /\ c.values = <<>>

\* A condition is tested with the values of its call.
LEMMA ComparesRight ==
    ASSUME NEW c \in Conditions, ~Empty(c), NEW row \in Int
    PROVE  /\ Q!Compare(OpOf(Clause(c)), row, Tested(Clause(c))) <=> Satisfies(c, row)
           /\ OpOf(Clause(c)) # "none"
<1>w. PICK w : w = Clause(c)
    OBVIOUS
<1>t. PICK t : t = OpOf(w) /\ t = IF w.inValues = <<>> THEN w.op ELSE "IN"
    BY DEF OpOf
<1>V. PICK V : V = Tested(w) /\ V = {Q!Arguments(w)[j] : j \in 1..Q!Holes(w)}
    BY Zenon DEF Tested
<1> SUFFICES (Q!Compare(t, row, V) <=> Satisfies(c, row)) /\ t # "none"
    BY <1>V, <1>t, <1>w, Zenon
<1>0. c \in Q!Links /\ c.call \in {"Where", "OrWhere", "WhereIn"}
    BY DEF Conditions
<1>1. CASE c.call = "WhereIn"
  <2>v. PICK v \in Seq(Int) : v = c.values /\ v # <<>>
      BY <1>0, <1>1, LinkKinds DEF Empty
  <2>1. w.inValues = v
      BY <1>1, <1>w, <2>v DEF Clause
  <2>2. t = "IN" /\ Q!Arguments(w) = v /\ Q!Holes(w) = Len(v)
      BY <1>t, <2>1, <2>v DEF Q!Arguments, Q!Holes
  <2>3. DOMAIN v = 1..Len(v)
      OBVIOUS
  <2>4. V = Q!ToSet(v)
      BY <1>V, <2>2, <2>3, Zenon DEF Q!ToSet
  <2>5. Q!Compare(t, row, V) <=> row \in V
      BY <2>2 DEF Q!Compare
  <2>6. Satisfies(c, row) <=> row \in Q!ToSet(v)
      BY <1>1, <2>v, Zenon DEF Satisfies
  <2> QED
      BY <2>2, <2>4, <2>5, <2>6
<1>2. CASE c.call # "WhereIn"
  <2>1. c.op \in {"=", ">="} /\ c.n \in Int
      BY <1>0, <1>2, LinkKinds
  <2>n. PICK n \in Int : n = c.n
      BY <2>1
  <2>2. w.inValues = <<>> /\ w.op = c.op /\ w.value = n
      BY <1>2, <1>w, <2>n DEF Clause
  <2>3. t = c.op /\ Q!Arguments(w) = <<n>> /\ Q!Holes(w) = 1
      BY <1>t, <2>2 DEF Q!Arguments, Q!Holes
  <2>4. V = {n}
      BY <1>V, <2>3
  <2>5. CASE c.op = "="
    <3>1. Q!Compare(t, row, V) <=> row \in {n}
        BY <2>3, <2>4, <2>5 DEF Q!Compare
    <3>2. Satisfies(c, row) <=> row = n
        BY <1>2, <2>5, <2>n DEF Satisfies
    <3> QED
        BY <2>3, <2>5, <3>1, <3>2
  <2>6. CASE c.op = ">="
    <3>1. Q!Compare(t, row, V) <=> \A v \in {n} : row >= v
        BY <2>3, <2>4, <2>6 DEF Q!Compare
    <3>2. Satisfies(c, row) <=> row >= n
        BY <1>2, <2>6, <2>n DEF Satisfies
    <3> QED
        BY <2>3, <2>6, <3>1, <3>2
  <2> QED
      BY <2>1, <2>5, <2>6
<1> QED
    BY <1>1, <1>2

EmptyIn(chain) == \E i \in DOMAIN chain : Empty(chain[i])

\* What is left of a sequence.
Leaves(r, seq, S) ==
    /\ \A i \in 1..Len(r) : r[i] \in S /\ \E k \in 1..Len(seq) : r[i] = seq[k]
    /\ \A k \in 1..Len(seq) : seq[k] \in S => \E i \in 1..Len(r) : r[i] = seq[k]

\* Elements that are left were there.
LEMMA AmongIn ==
    ASSUME NEW E, NEW seq \in Seq(E), NEW S
    PROVE  Leaves(Q!Among(seq, S), seq, S)
<1> DEFINE n == Len(seq)
<1>1. PICK u : /\ Sifts(u, seq, S) /\ \A k \in 0..n : u[k] \in Seq(E) /\ Q!Among(seq, S) = u[n]
    BY Amongs
<1>2. n \in Nat
    OBVIOUS
<1>3. u[0] = <<>> /\ \A k \in 1..n : u[k] = IF seq[k] \in S THEN Append(u[k - 1], seq[k]) ELSE u[k - 1]
    BY <1>1 DEF Sifts
<1> DEFINE In(k) == /\ \A i \in 1..Len(u[k]) : u[k][i] \in S /\ \E j \in 1..k : u[k][i] = seq[j]
                    /\ \A j \in 1..k : seq[j] \in S => \E i \in 1..Len(u[k]) : u[k][i] = seq[j]
           T == {k \in 0..n : In(k)}
<1> HIDE DEF n
<1>4. 0 \in T
    BY <1>2, <1>3
<1>5. ASSUME NEW k \in 1..n, k - 1 \in T PROVE k \in T
  <2>v. PICK v \in Seq(E) : v = u[k - 1]
      BY <1>1, <1>2
  <2>p. PICK p \in Nat : p = k - 1 /\ k = p + 1
      BY <1>2
  <2>e. PICK e \in E : e = seq[k]
      BY <1>2 DEF n
  <2>x. PICK x : x = u[k]
      OBVIOUS
  <2>1. /\ \A i \in 1..Len(v) : v[i] \in S /\ \E j \in 1..p : v[i] = seq[j]
        /\ \A j \in 1..p : seq[j] \in S => \E i \in 1..Len(v) : v[i] = seq[j]
      BY <1>5, <2>v, <2>p
  <2>2. x = IF e \in S THEN Append(v, e) ELSE v
      BY <1>3, <2>v, <2>e, <2>x
  <2>j. \A j : j \in 1..k <=> j \in 1..p \/ j = k
      BY <2>p
  <2>3. CASE e \notin S
    <3>1. x = v
        BY <2>2, <2>3
    <3>2. /\ \A i \in 1..Len(x) : x[i] \in S /\ \E j \in 1..k : x[i] = seq[j]
          /\ \A j \in 1..k : seq[j] \in S => \E i \in 1..Len(x) : x[i] = seq[j]
        BY ONLY <3>1, <2>1, <2>3, <2>e, <2>j, Zenon
    <3>3. In(k)
        BY <2>x, <3>2, Zenon
    <3>4. k \in 0..n
        BY <1>2
    <3> QED
        BY <3>3, <3>4, Zenon
  <2>4. CASE e \in S
    <3>1. x = Append(v, e)
        BY <2>2, <2>4
    <3>l. PICK l \in Nat : l = Len(v)
        OBVIOUS
    <3>2. Len(x) = l + 1 /\ x[l + 1] = e /\ \A i \in 1..l : x[i] = v[i]
        BY ONLY <3>1, <3>l, v \in Seq(E), e \in E, l \in Nat
    <3>3. \A i : i \in 1..Len(x) <=> i \in 1..Len(v) \/ i = l + 1
        BY <3>2, <3>l
    <3>4. \A i \in 1..Len(v) : x[i] = v[i]
        BY <3>2, <3>l
    <3>5. \A i \in 1..Len(x) : x[i] \in S /\ \E j \in 1..k : x[i] = seq[j]
      <4> TAKE i \in 1..Len(x)
      <4>1. CASE i \in 1..Len(v)
        <5>1. v[i] \in S /\ \E j \in 1..p : v[i] = seq[j]
            BY ONLY <2>1, <4>1
        <5>2. x[i] = v[i]
            BY ONLY <3>4, <4>1
        <5> QED
            BY ONLY <2>j, <5>1, <5>2, Zenon
      <4>2. CASE i = l + 1
        <5>1. x[i] = seq[k] /\ k \in 1..k
            BY <2>e, <2>j, <3>2, <4>2
        <5> QED
            BY <2>4, <2>e, <5>1
      <4> QED
          BY <3>3, <4>1, <4>2
    <3>6. \A j \in 1..k : seq[j] \in S => \E i \in 1..Len(x) : x[i] = seq[j]
        BY ONLY <2>1, <2>e, <2>j, <3>2, <3>3, <3>4, Zenon
    <3>7. In(k)
        BY <2>x, <3>5, <3>6, Zenon
    <3>8. k \in 0..n
        BY <1>2
    <3> QED
        BY <3>7, <3>8, Zenon
  <2> QED
      BY <2>3, <2>4
<1>6. \A k \in 0..n : k \in T
  <2> HIDE DEF T
  <2> QED
      BY <1>2, <1>4, <1>5, UpTo
<1>7. In(n)
    BY <1>2, <1>6
<1> QED
    BY <1>1, <1>7 DEF n, Leaves

\* A statement with a clause that buildWhere made of a builder.
Made(s, q, dialect, data) == Carries(s, Q!buildWhere(q, dialect, Len(data) + 1), data)

\* A statement with the conditions of a chain.
Says(s, conds) ==
    /\ s.where \in Seq(Texts) /\ Len(s.where) = Len(conds)
    /\ \A i \in 1..Len(conds) :
          /\ s.where[i].boolean = "OR" <=> conds[i].call = "OrWhere"
          /\ s.where[i].op = "none" <=> Empty(conds[i])
          /\ ~Empty(conds[i]) =>
                \A row \in Int : Q!Compare(s.where[i].op, row, Q!Values(s, i))
                                 <=> Satisfies(conds[i], row)

\* A statement made of a chain has the conditions of the chain.
LEMMA Statement ==
    ASSUME NEW conds \in Seq(Conditions), NEW q \in Builders, Collects(q, conds),
           NEW dialect, NEW data \in Seq(Int), NEW s, Made(s, q, dialect, data)
    PROVE  Says(s, conds)
<1>w. PICK wheres \in Seq(Clauses) : wheres = q.wheres
    BY DEF Builders
<1>n. PICK n \in Nat : n = Len(conds) /\ n = Len(wheres) /\ n = Len(q.wheres)
    BY <1>w DEF Collects
<1>s. PICK start \in Nat : start = Len(data) + 1
    OBVIOUS
<1>b. PICK b : b = Q!buildWhere(q, dialect, start)
    OBVIOUS
<1>0. Carries(s, b, data) /\ After(data, start)
    BY <1>b, <1>s, Zenon DEF Made, After
<1>p. PICK pos : /\ Positions(pos, wheres) /\ Placed(b, pos, wheres, dialect, start, n)
                 /\ b \in BuiltWheres
  <2>1. PICK pos : /\ Positions(pos, q.wheres)
                   /\ Placed(b, pos, q.wheres, dialect, start, Len(q.wheres)) /\ b \in BuiltWheres
      BY <1>b, WherePlaced
  <2> QED
      BY <1>n, <1>w, <2>1, Zenon
<1>1. s.where = b.text /\ b.text \in Seq(Texts) /\ Len(b.text) = n
    BY <1>0, <1>p DEF Carries, BuiltWheres, Placed
<1>2. ASSUME NEW i \in 1..n
      PROVE  /\ s.where[i].boolean = "OR" <=> conds[i].call = "OrWhere"
             /\ s.where[i].op = "none" <=> Empty(conds[i])
             /\ ~Empty(conds[i]) =>
                   \A row \in Int : Q!Compare(s.where[i].op, row, Q!Values(s, i))
                                    <=> Satisfies(conds[i], row)
  <2>c. PICK c \in Conditions : c = conds[i]
    <3>1. i \in 1..Len(conds)
        BY <1>n
    <3>2. conds[i] \in Conditions
        BY ONLY <3>1, conds \in Seq(Conditions)
    <3> QED
        BY <3>2
  <2>w. PICK w \in Clauses : w = wheres[i] /\ w = Clause(c)
      BY <1>n, <1>w, <2>c DEF Collects
  <2>x. PICK x \in Nat : x = start + pos[i - 1]
    <3>1. i - 1 \in 0..Len(wheres)
        BY <1>n
    <3>2. pos[i - 1] \in Nat
        BY ONLY <1>p, <3>1 DEF Positions
    <3> QED
        BY <3>2
  <2>t. PICK t : t = s.where[i]
      OBVIOUS
  <2>1. t = Q!Condition(w, dialect, x)
      BY <1>1, <1>p, <2>t, <2>w, <2>x DEF Placed
  <2>2. Written(t, w, dialect, x)
      BY <2>1, ConditionFields, Zenon
  <2>o. PICK o : o = OpOf(w) /\ o = IF w.inValues = <<>> THEN w.op ELSE "IN"
      BY Zenon DEF OpOf
  <2>3. t.boolean = w.boolean /\ t.op = o
      BY <2>2, <2>o DEF Written
  <2>4. t.boolean = "OR" <=> c.call = "OrWhere"
      BY <2>3, <2>w DEF Clause
  <2>5. Q!Values(s, i) = Tested(w)
    <3>1. i \in 1..Len(wheres)
        BY <1>n
    <3>2. Placed(b, pos, wheres, dialect, start, Len(wheres))
        BY <1>n, <1>p
    <3> QED
        BY <1>0, <1>p, <2>w, <3>1, <3>2, ValuesAre, Zenon
  <2>6. CASE Empty(c)
    <3>1. o = "none"
        BY <2>6, <2>o, <2>w DEF Clause, Empty
    <3> QED
        BY <2>3, <2>4, <2>6, <2>c, <2>t, <3>1
  <2>7. CASE ~Empty(c)
    <3>1. ASSUME NEW row \in Int
          PROVE  (Q!Compare(o, row, Tested(w)) <=> Satisfies(c, row)) /\ o # "none"
        BY <2>7, <2>o, <2>w, ComparesRight, Zenon
    <3>2. o # "none"
      <4>1. 0 \in Int
          OBVIOUS
      <4> QED
          BY <3>1, <4>1
    <3>3. \A row \in Int : Q!Compare(t.op, row, Q!Values(s, i)) <=> Satisfies(c, row)
        BY <2>3, <2>5, <3>1, Zenon
    <3> QED
        BY <2>3, <2>4, <2>7, <2>c, <2>t, <3>2, <3>3, Zenon
  <2> QED
      BY <2>6, <2>7
<1> QED
    BY <1>1, <1>2, <1>n, Zenon DEF Says

\* A statement with an empty WhereIn is one without an operator somewhere.
LEMMA EmptyInShows ==
    ASSUME NEW chain \in Seq(Q!Links), NEW conds \in Seq(Conditions),
           Leaves(conds, chain, Conditions), NEW s, Says(s, conds)
    PROVE  (\E i \in DOMAIN s.where : s.where[i].op = "none") <=> EmptyIn(chain)
<1>n. PICK n \in Nat : n = Len(conds)
    OBVIOUS
<1>1. /\ s.where \in Seq(Texts) /\ Len(s.where) = n
      /\ \A i \in 1..n : s.where[i].op = "none" <=> Empty(conds[i])
    BY <1>n DEF Says
<1>2. DOMAIN s.where = 1..n /\ DOMAIN chain = 1..Len(chain)
    BY <1>1
<1>3. /\ \A i \in 1..n : \E k \in 1..Len(chain) : conds[i] = chain[k]
      /\ \A k \in 1..Len(chain) : chain[k] \in Conditions => \E i \in 1..n : conds[i] = chain[k]
    BY <1>n, Zenon DEF Leaves
<1>4. ASSUME NEW k \in 1..Len(chain), Empty(chain[k]) PROVE chain[k] \in Conditions
    BY <1>4 DEF Conditions, Empty
<1>5. ASSUME NEW i \in 1..n, s.where[i].op = "none" PROVE EmptyIn(chain)
  <2>1. PICK k \in 1..Len(chain) : conds[i] = chain[k]
      BY <1>3
  <2> QED
      BY <1>1, <1>2, <1>5, <2>1 DEF EmptyIn
<1>6. ASSUME NEW k \in 1..Len(chain), Empty(chain[k])
      PROVE  \E i \in 1..n : s.where[i].op = "none"
  <2>1. PICK i \in 1..n : conds[i] = chain[k]
      BY <1>3, <1>4, <1>6
  <2> QED
      BY <1>1, <1>6, <2>1
<1> QED
    BY <1>2, <1>5, <1>6 DEF EmptyIn

\* A statement finds the rows its chain wants.
LEMMA MatchesWanted ==
    ASSUME NEW chain \in Seq(Q!Links), NEW conds \in Seq(Conditions),
           conds = Q!Among(chain, Conditions), ~EmptyIn(chain), NEW s, Says(s, conds),
           NEW row \in Int
    PROVE  Q!Matches(s, row) <=> Q!Wanted(chain, row)
<1>n. PICK n \in Nat : n = Len(conds)
    OBVIOUS
<1>1. /\ s.where \in Seq(Texts) /\ Len(s.where) = n
      /\ \A i \in 1..n :
            /\ s.where[i].boolean = "OR" <=> conds[i].call = "OrWhere"
            /\ ~Empty(conds[i]) =>
                  \A x \in Int : Q!Compare(s.where[i].op, x, Q!Values(s, i))
                                 <=> Satisfies(conds[i], x)
    BY <1>n, Zenon DEF Says
<1>2. DOMAIN s.where = 1..n /\ DOMAIN chain = 1..Len(chain) /\ DOMAIN conds = 1..n
    BY <1>1, <1>n
<1>3. \A i \in 1..n : \E k \in 1..Len(chain) : conds[i] = chain[k]
  <2>1. Leaves(Q!Among(chain, Conditions), chain, Conditions)
      BY AmongIn, Zenon
  <2>2. Leaves(conds, chain, Conditions)
      BY <2>1
  <2> QED
      BY <1>n, <2>2, Zenon DEF Leaves
<1>4. ASSUME NEW i \in 1..n
      PROVE  Q!Compare(s.where[i].op, row, Q!Values(s, i)) <=> Satisfies(conds[i], row)
  <2>k. PICK k \in 1..Len(chain) : conds[i] = chain[k]
      BY <1>3
  <2>1. ~Empty(conds[i])
      BY <1>2, <2>k, Zenon DEF EmptyIn
  <2> QED
      BY <1>1, <2>1, Zenon
<1>H. PICK H : H = {i \in DOMAIN s.where : Q!Compare(s.where[i].op, row, Q!Values(s, i))}
    OBVIOUS
<1>5. \A i \in 1..n : i \in H <=> Satisfies(conds[i], row)
    BY <1>2, <1>4, <1>H, Zenon
<1>6. Q!Matches(s, row) <=> Q!Join(s.where, H)
    BY <1>H, Zenon DEF Q!Matches
<1>s. PICK starts : starts = {1} \cup {i \in DOMAIN conds : conds[i].call = "OrWhere"}
    OBVIOUS
<1>7. starts = Starts(s.where)
  <2>1. {i \in DOMAIN conds : conds[i].call = "OrWhere"}
        = {i \in DOMAIN s.where : s.where[i].boolean = "OR"}
      BY <1>1, <1>2, Zenon
  <2> QED
      BY <1>s, <2>1, Zenon DEF Starts
<1>8. Q!Join(s.where, H) <=> \E a \in starts : AllHold(starts, a, n, H)
    BY <1>1, <1>7, JoinMeans
<1>9. conds = Q!Among(chain, {c \in Q!Links : c.call \in {"Where", "OrWhere", "WhereIn"}})
    BY Zenon DEF Conditions
<1>10. Q!Wanted(chain, row)
       <=> \E a \in starts : \A i \in DOMAIN conds :
              i >= a /\ (\A t \in starts : t > a => i < t) => Satisfies(conds[i], row)
  <2> DEFINE holds(c) == IF c.call = "WhereIn" THEN row \in Q!ToSet(c.values)
                         ELSE IF c.op = "=" THEN row = c.n ELSE row >= c.n
  <2>1. Q!Wanted(chain, row)
        <=> \E a \in {1} \cup {i \in DOMAIN conds : conds[i].call = "OrWhere"} :
               \A i \in DOMAIN conds :
                  i >= a /\ (\A t \in {1} \cup {j \in DOMAIN conds : conds[j].call = "OrWhere"} :
                                t > a => i < t) => holds(conds[i])
      BY ONLY <1>9, Zenon DEF Q!Wanted
  <2>2. \A c : holds(c) <=> Satisfies(c, row)
      BY ONLY Zenon DEF Satisfies
  <2> HIDE DEF holds
  <2> QED
      BY ONLY <1>s, <2>1, <2>2, Zenon
<1>11. ASSUME NEW a \in starts
       PROVE  AllHold(starts, a, n, H)
              <=> \A i \in DOMAIN conds :
                     i >= a /\ (\A t \in starts : t > a => i < t) => Satisfies(conds[i], row)
    BY <1>2, <1>5, Zenon DEF AllHold, Within
<1> QED
    BY <1>6, <1>8, <1>10, <1>11, Zenon

\* The rows of a table that a chain wants.
Wants(chain, rows) == Q!Among(rows, {row \in Q!ToSet(rows) : Q!Wanted(chain, row)})

\* The rows that match a statement are those the chain wants.
LEMMA FoundWanted ==
    ASSUME NEW chain \in Seq(Q!Links), NEW conds \in Seq(Conditions),
           conds = Q!Among(chain, Conditions), ~EmptyIn(chain), NEW s, Says(s, conds),
           NEW rows \in Seq(Int)
    PROVE  Q!Found(s, rows) = Wants(chain, rows)
<1>1. \A row \in Q!ToSet(rows) : row \in Int
  <2>1. DOMAIN rows = 1..Len(rows) /\ \A i \in 1..Len(rows) : rows[i] \in Int
      OBVIOUS
  <2> QED
      BY <2>1, Zenon DEF Q!ToSet
<1>2. \A row \in Q!ToSet(rows) : Q!Matches(s, row) <=> Q!Wanted(chain, row)
    BY <1>1, MatchesWanted
<1>3. {row \in Q!ToSet(rows) : Q!Matches(s, row)} = {row \in Q!ToSet(rows) : Q!Wanted(chain, row)}
    BY <1>2, Zenon
<1> QED
    BY <1>3, Zenon DEF Q!Found, Wants

\* What a statement with the conditions of a chain does.
Obeys(s, chain) ==
    /\ (\E i \in DOMAIN s.where : s.where[i].op = "none") <=> EmptyIn(chain)
    /\ ~EmptyIn(chain) => \A rows \in Seq(Int) : Q!Found(s, rows) = Wants(chain, rows)

\* The builder of a chain, but for its settings.
BuilderOf(q, chain) == q \in Builders /\ q.wheres = Q!Chain(chain).wheres

\* A statement made of a chain fails, or finds what the chain wants.
LEMMA StatementObeys ==
    ASSUME NEW chain \in Seq(Q!Links), NEW q, BuilderOf(q, chain), NEW dialect,
           NEW data \in Seq(Int), NEW s, Made(s, q, dialect, data)
    PROVE  Obeys(s, chain)
<1>m. PICK m, conds : m = Q!Chain(chain) /\ conds = Q!Among(chain, Conditions)
    OBVIOUS
<1>1. conds \in Seq(Conditions) /\ Collects(m, conds)
    BY <1>m, ChainMakes
<1>2. q \in Builders /\ Collects(q, conds)
    BY <1>1, <1>m DEF Collects, BuilderOf
<1>3. Says(s, conds)
    BY <1>1, <1>2, Statement, Zenon
<1>4. Leaves(conds, chain, Conditions)
  <2>1. Leaves(Q!Among(chain, Conditions), chain, Conditions)
      BY AmongIn, Zenon
  <2> QED
      BY <1>m, <2>1
<1>5. (\E i \in DOMAIN s.where : s.where[i].op = "none") <=> EmptyIn(chain)
    BY <1>1, <1>3, <1>4, EmptyInShows, Zenon
<1>6. ASSUME ~EmptyIn(chain), NEW rows \in Seq(Int) PROVE Q!Found(s, rows) = Wants(chain, rows)
    BY <1>1, <1>3, <1>6, <1>m, FoundWanted
<1> QED
    BY <1>5, <1>6, Zenon DEF Obeys

\* The clause that buildWhere makes.
LEMMA ClauseMade ==
    ASSUME NEW q \in Builders, NEW dialect, NEW start \in Nat
    PROVE  Q!buildWhere(q, dialect, start) \in BuiltWheres
<1> QED
    BY WherePlaced

\* A SELECT.
LEMMA Selects ==
    ASSUME NEW q \in Builders, NEW dialect
    PROVE  /\ Made(Q!buildSelect(q, dialect), q, dialect, <<>>)
           /\ Q!buildSelect(q, dialect).count = q.count
           /\ Q!buildSelect(q, dialect).orderBy = q.orderBy
           /\ Q!buildSelect(q, dialect).limitN = Q!Positive(q.limitN)
           /\ Q!buildSelect(q, dialect).offsetN = Q!Positive(q.offsetN)
<1>b. PICK b : b = Q!buildWhere(q, dialect, 1)
    OBVIOUS
<1>1. b \in BuiltWheres
    BY <1>b, ClauseMade
<1>a. PICK a \in Seq(Int) : a = b.args
    BY <1>1 DEF BuiltWheres
<1>x. PICK x, y : x = Q!Positive(q.limitN) /\ y = Q!Positive(q.offsetN)
    OBVIOUS
<1>s. PICK s : s = Q!buildSelect(q, dialect)
    OBVIOUS
<1>2. s = [kind |-> "SELECT", sets |-> <<>>, where |-> b.text, args |-> b.args,
           count |-> q.count, orderBy |-> q.orderBy, limitN |-> x, offsetN |-> y]
    BY <1>b, <1>s, <1>x, Zenon DEF Q!buildSelect
<1>3. /\ s.sets = <<>> /\ s.where = b.text /\ s.args = b.args /\ s.count = q.count
      /\ s.orderBy = q.orderBy /\ s.limitN = x /\ s.offsetN = y
    BY ONLY <1>2
<1>4. <<>> \o a = a /\ Len(<<>>) = 0 /\ Len(<<>>) + 1 = 1
    OBVIOUS
<1>5. Carries(s, b, <<>>)
    BY <1>3, <1>4, <1>a DEF Carries
<1>6. Made(s, q, dialect, <<>>)
    BY <1>4, <1>5, <1>b DEF Made
<1> QED
    BY <1>3, <1>6, <1>s, <1>x

\* A statement that changes rows.
Plain(s) == s.count = FALSE /\ s.orderBy = FALSE /\ s.limitN = 0 /\ s.offsetN = 0
Writing(s, q, dialect, data) ==
    /\ Made(s, q, dialect, data) /\ Plain(s)
    /\ s.sets = [i \in DOMAIN data |-> Q!Placeholder(dialect, i)]

\* buildUpdate makes such a statement.
LEMMA Updates ==
    ASSUME NEW q \in Builders, NEW dialect, NEW data \in Seq(Int)
    PROVE  Writing(Q!buildUpdate(q, dialect, data), q, dialect, data)
<1>n. PICK n \in Nat : n = Len(data) + 1
    OBVIOUS
<1>b. PICK b : b = Q!buildWhere(q, dialect, n)
    OBVIOUS
<1>a. PICK a : a = data \o b.args
    OBVIOUS
<1>s. PICK s : s = Q!buildUpdate(q, dialect, data)
    OBVIOUS
<1>x. PICK x : x = [i \in DOMAIN data |-> Q!Placeholder(dialect, i)]
    OBVIOUS
<1>2. s = [kind |-> "UPDATE", sets |-> x, where |-> b.text, args |-> a,
           count |-> FALSE, orderBy |-> FALSE, limitN |-> 0, offsetN |-> 0]
    BY <1>a, <1>b, <1>n, <1>s, <1>x, Zenon DEF Q!buildUpdate
<1>3. /\ s.sets = x /\ s.where = b.text /\ s.args = a /\ s.count = FALSE
      /\ s.orderBy = FALSE /\ s.limitN = 0 /\ s.offsetN = 0
    BY ONLY <1>2
<1>4. Len(x) = Len(data)
  <2>1. DOMAIN data = 1..Len(data) /\ Len(data) \in Nat
      OBVIOUS
  <2> QED
      BY <1>x, <2>1
<1>5. Carries(s, b, data)
    BY <1>3, <1>4, <1>a DEF Carries
<1>6. Made(s, q, dialect, data)
    BY <1>5, <1>b, <1>n, Zenon DEF Made
<1> QED
    BY <1>3, <1>6, <1>s, <1>x, Zenon DEF Plain, Writing

\* A DELETE.
LEMMA Deletes ==
    ASSUME NEW q \in Builders, NEW dialect
    PROVE  /\ Made(Q!buildDelete(q, dialect), [q EXCEPT !.orderBy = FALSE], dialect, <<>>)
           /\ Plain(Q!buildDelete(q, dialect))
<1>p. PICK p : p = [q EXCEPT !.orderBy = FALSE]
    OBVIOUS
<1>0. <<>> \in Seq(Int)
    OBVIOUS
<1>1. p \in Builders
    BY <1>p DEF Builders
<1>u. PICK u : u = Q!buildUpdate(p, dialect, <<>>)
    OBVIOUS
<1>2. /\ Made(u, p, dialect, <<>>) /\ u.count = FALSE /\ u.orderBy = FALSE
      /\ u.limitN = 0 /\ u.offsetN = 0
  <2>1. Writing(Q!buildUpdate(p, dialect, <<>>), p, dialect, <<>>)
      BY ONLY <1>0, <1>1, Updates, Zenon
  <2>2. Writing(u, p, dialect, <<>>)
      BY ONLY <1>u, <2>1, Zenon
  <2> QED
      BY ONLY <2>2, Zenon DEF Plain, Writing
<1>s. PICK s : s = Q!buildDelete(q, dialect)
    OBVIOUS
<1>3. s = [u EXCEPT !.kind = "DELETE"]
    BY <1>p, <1>s, <1>u, Zenon DEF Q!buildDelete
<1>b. PICK b, a, x : /\ b = Q!buildWhere(p, dialect, Len(<<>>) + 1) /\ a = <<>> \o b.args
                     /\ x = [i \in DOMAIN <<>> |-> Q!Placeholder(dialect, i)]
    OBVIOUS
<1>4. u = [kind |-> "UPDATE", sets |-> x, where |-> b.text, args |-> a,
           count |-> FALSE, orderBy |-> FALSE, limitN |-> 0, offsetN |-> 0]
    BY <1>b, <1>u, Zenon DEF Q!buildUpdate
<1>5. /\ s.where = u.where /\ s.args = u.args /\ s.sets = u.sets /\ s.count = u.count
      /\ s.orderBy = u.orderBy /\ s.limitN = u.limitN /\ s.offsetN = u.offsetN
    BY ONLY <1>3, <1>4
<1>6. Made(s, p, dialect, <<>>)
    BY <1>2, <1>5, Zenon DEF Made, Carries
<1> QED
    BY <1>2, <1>5, <1>6, <1>p, <1>s, Zenon DEF Plain

\* What a database answers to a change.
LEMMA Executes ==
    ASSUME NEW chain, NEW s, Obeys(s, chain), Plain(s), NEW dialect, NEW rows \in Seq(Int)
    PROVE  /\ EmptyIn(chain) => Q!exec(s, dialect, rows) = Q!Error
           /\ ~EmptyIn(chain) =>
                 Q!exec(s, dialect, rows)
                 = [ok |-> TRUE, rows |-> Wants(chain, rows),
                    data |-> [i \in DOMAIN s.sets |-> Q!Bound(s, s.sets[i], i)]]
<1>1. s.count = FALSE /\ ~(s.offsetN > 0)
    BY DEF Plain
<1>2. Q!Refuses(dialect, s) <=> EmptyIn(chain)
    BY <1>1, Zenon DEF Q!Refuses, Obeys
<1>3. ~EmptyIn(chain) => Q!Found(s, rows) = Wants(chain, rows)
    BY Zenon DEF Obeys
<1> QED
    BY <1>2, <1>3, Zenon DEF Q!exec

\* Whether a database refuses a SELECT.
SelectRefused(chain, dialect, limit, offset, sorted) ==
    \/ EmptyIn(chain)
    \/ dialect # "postgres" /\ offset > 0 /\ limit = 0
    \/ dialect = "postgres" /\ sorted

\* What Get gives.
LEMMA Gets ==
    ASSUME NEW chain \in Seq(Q!Links), NEW q, BuilderOf(q, chain), NEW dialect,
           NEW rows \in Seq(Int), NEW limit, limit = Q!Positive(q.limitN),
           NEW offset, offset = Q!Positive(q.offsetN)
    PROVE  /\ SelectRefused(chain, dialect, limit, offset, q.count = TRUE /\ q.orderBy = TRUE) =>
                 Q!Get(q, dialect, rows) = Q!Error
           /\ ~SelectRefused(chain, dialect, limit, offset, q.count = TRUE /\ q.orderBy = TRUE) =>
                 Q!Get(q, dialect, rows)
                 = [ok |-> TRUE,
                    rows |-> Q!Slice(IF q.count = TRUE THEN <<Len(Wants(chain, rows))>>
                                     ELSE Wants(chain, rows), offset, limit)]
<1>0. q \in Builders /\ <<>> \in Seq(Int)
    BY DEF BuilderOf
<1>s. PICK s : s = Q!buildSelect(q, dialect)
    OBVIOUS
<1>1. /\ Made(s, q, dialect, <<>>) /\ s.count = q.count /\ s.orderBy = q.orderBy
      /\ s.limitN = limit /\ s.offsetN = offset
  <2>1. q \in Builders
      BY <1>0
  <2> QED
      BY <1>s, <2>1, Selects, Zenon
<1>2. Obeys(s, chain)
    BY <1>0, <1>1, StatementObeys, Zenon
<1>b. PICK b \in BOOLEAN, o \in BOOLEAN : b = q.count /\ o = q.orderBy
    BY <1>0 DEF Builders
<1>3. s.count = b /\ s.orderBy = o
    BY <1>1, <1>b
<1>4. Q!Refuses(dialect, s)
      <=> SelectRefused(chain, dialect, limit, offset, q.count = TRUE /\ q.orderBy = TRUE)
  <2>1. Q!Refuses(dialect, s)
        <=> \/ \E i \in DOMAIN s.where : s.where[i].op = "none"
            \/ dialect # "postgres" /\ offset > 0 /\ limit = 0
            \/ dialect = "postgres" /\ b /\ o
      BY <1>1, <1>3, Zenon DEF Q!Refuses
  <2>2. b /\ o <=> q.count = TRUE /\ q.orderBy = TRUE
      BY <1>b, Zenon
  <2>3. (\E i \in DOMAIN s.where : s.where[i].op = "none") <=> EmptyIn(chain)
      BY <1>2, Zenon DEF Obeys
  <2> QED
      BY <2>1, <2>2, <2>3, Zenon DEF SelectRefused
<1>5. Q!Get(q, dialect, rows) = IF Q!Refuses(dialect, s) THEN Q!Error
                                ELSE [ok |-> TRUE, rows |-> Q!Answer(s, rows)]
    BY <1>s, Zenon DEF Q!Get, Q!queryRows
<1>6. ASSUME ~SelectRefused(chain, dialect, limit, offset, q.count = TRUE /\ q.orderBy = TRUE)
      PROVE  Q!Answer(s, rows) = Q!Slice(IF q.count = TRUE THEN <<Len(Wants(chain, rows))>>
                                         ELSE Wants(chain, rows), offset, limit)
  <2>1. ~EmptyIn(chain)
      BY <1>6, Zenon DEF SelectRefused
  <2>2. Q!Found(s, rows) = Wants(chain, rows)
      BY <1>2, <2>1, Zenon DEF Obeys
  <2>3. Q!Answer(s, rows) = Q!Slice(IF b THEN <<Len(Wants(chain, rows))>>
                                    ELSE Wants(chain, rows), offset, limit)
      BY <1>1, <1>3, <2>2, Zenon DEF Q!Answer
  <2> QED
      BY <1>b, <2>3, Zenon
<1> QED
    BY <1>4, <1>5, <1>6, Zenon

Sorted(chain) == \E i \in DOMAIN chain : chain[i].call = "OrderBy"

\* The builder of a chain.
LEMMA ChainFollows ==
    ASSUME NEW chain \in Seq(Q!Links), NEW q, q = Q!Chain(chain)
    PROVE  /\ BuilderOf(q, chain) /\ q.count = FALSE /\ (q.orderBy = TRUE <=> Sorted(chain))
           /\ q.limitN = Q!Given(chain, "Limit") /\ q.offsetN = Q!Given(chain, "Offset")
<1>1. /\ q \in Builders /\ q.count = FALSE
      /\ q.orderBy <=> \E i \in DOMAIN chain : chain[i].call = "OrderBy"
      /\ q.limitN = Q!Given(chain, "Limit") /\ q.offsetN = Q!Given(chain, "Offset")
    BY ChainMakes
<1>o. PICK o \in BOOLEAN : o = q.orderBy
    BY <1>1 DEF Builders
<1>2. o <=> Sorted(chain)
    BY <1>1, <1>o, Zenon DEF Sorted
<1>3. q.orderBy = TRUE <=> Sorted(chain)
    BY ONLY <1>2, <1>o, Zenon
<1> QED
    BY <1>1, <1>3 DEF BuilderOf

Gotten(r, chain, dialect, rows, q, limit, offset) ==
    /\ SelectRefused(chain, dialect, limit, offset, q.count = TRUE /\ q.orderBy = TRUE) => r = Q!Error
    /\ ~SelectRefused(chain, dialect, limit, offset, q.count = TRUE /\ q.orderBy = TRUE) =>
          r = [ok |-> TRUE,
               rows |-> Q!Slice(IF q.count = TRUE THEN <<Len(Wants(chain, rows))>>
                                ELSE Wants(chain, rows), offset, limit)]

\* Gets, in one formula.
LEMMA GetGives ==
    ASSUME NEW chain \in Seq(Q!Links), NEW q, BuilderOf(q, chain), NEW dialect,
           NEW rows \in Seq(Int)
    PROVE  Gotten(Q!Get(q, dialect, rows), chain, dialect, rows, q, Q!Positive(q.limitN),
                  Q!Positive(q.offsetN))
<1>x. PICK limit, offset : limit = Q!Positive(q.limitN) /\ offset = Q!Positive(q.offsetN)
    OBVIOUS
<1>r. PICK r : r = Q!Get(q, dialect, rows)
    OBVIOUS
<1>1. Gotten(r, chain, dialect, rows, q, limit, offset)
    BY <1>r, <1>x, Gets DEF Gotten
<1> QED
    BY <1>1, <1>r, <1>x, Zenon

\* What rows a SELECT shows.
Shows(r, chain, dialect, rows, limit, offset) ==
    LET refused == EmptyIn(chain) \/ (dialect # "postgres" /\ offset > 0 /\ limit = 0)
    IN  /\ refused => r = Q!Error
        /\ ~refused => r = [ok |-> TRUE, rows |-> Q!Slice(Wants(chain, rows), offset, limit)]

\* Get shows the rows of a chain that does not count.
LEMMA RowsShown ==
    ASSUME NEW chain \in Seq(Q!Links), NEW q, BuilderOf(q, chain), q.count = FALSE, NEW dialect,
           NEW rows \in Seq(Int)
    PROVE  Shows(Q!Get(q, dialect, rows), chain, dialect, rows, Q!Positive(q.limitN),
                 Q!Positive(q.offsetN))
<1>x. PICK limit, offset : limit = Q!Positive(q.limitN) /\ offset = Q!Positive(q.offsetN)
    OBVIOUS
<1>r. PICK r : r = Q!Get(q, dialect, rows)
    OBVIOUS
<1>1. Gotten(r, chain, dialect, rows, q, limit, offset)
    BY <1>r, <1>x, GetGives, Zenon
<1>2. SelectRefused(chain, dialect, limit, offset, q.count = TRUE /\ q.orderBy = TRUE)
      <=> EmptyIn(chain) \/ (dialect # "postgres" /\ offset > 0 /\ limit = 0)
    BY Zenon DEF SelectRefused
<1>3. Shows(r, chain, dialect, rows, limit, offset)
    BY <1>1, <1>2, Zenon DEF Gotten, Shows
<1> QED
    BY <1>3, <1>r, <1>x

\* The smaller of two numbers.
LEMMA MinIs ==
    ASSUME NEW a \in Int, NEW b \in Int
    PROVE  Q!Min({a, b}) = IF a <= b THEN a ELSE b
<1> DEFINE S == {a, b}
           Is(x) == x \in S /\ \A y \in S : x <= y
<1>1. PICK m : m = IF a <= b THEN a ELSE b
    OBVIOUS
<1>2. Is(m)
    BY <1>1
<1>3. \A x : Is(x) => x = m
    BY <1>1
<1>4. Q!Min(S) = CHOOSE x : Is(x)
    BY Zenon DEF Q!Min
<1>5. Is(CHOOSE x : Is(x))
  <2> HIDE DEF Is
  <2> QED
      BY ONLY <1>2, Zenon
<1> QED
    BY <1>1, <1>3, <1>4, <1>5

\* A row of a count.
LEMMA OneRow ==
    ASSUME NEW n \in Nat, NEW offset \in Nat
    PROVE  Q!Slice(<<n>>, offset, 1) = IF offset > 0 THEN <<>> ELSE <<n>>
<1>1. Len(<<n>>) = 1
    OBVIOUS
<1>2. Q!Min({1, offset + 1}) = 1
    BY MinIs
<1>3. Q!Slice(<<n>>, offset, 1) = SubSeq(<<n>>, offset + 1, 1)
    BY <1>1, <1>2 DEF Q!Slice
<1>4. CASE offset > 0
    BY <1>3, <1>4
<1>5. CASE offset = 0
  <2>p. PICK t : t = <<n>>
      OBVIOUS
  <2>t. t = <<n>> /\ t \in Seq(Nat) /\ Len(t) = 1
      BY ONLY <2>p, n \in Nat
  <2>u. PICK u : u = SubSeq(t, 1, 1)
      OBVIOUS
  <2>2. u \in Seq(Nat) /\ Len(u) = 1 /\ u[1] = t[1]
      BY ONLY <2>t, <2>u, SubSeqProperties
  <2>3. u = t
      BY ONLY <2>t, <2>2
  <2>1. SubSeq(<<n>>, 1, 1) = <<n>>
      BY ONLY <2>t, <2>u, <2>3
  <2> QED
      BY <1>3, <1>5, <2>1
<1> QED
    BY <1>4, <1>5

\* What a count gives.
Counts(r, chain, dialect, rows, offset) ==
    LET refused == EmptyIn(chain) \/ (dialect = "postgres" /\ Sorted(chain))
    IN  /\ refused => r = Q!Error
        /\ ~refused => r = [ok |-> TRUE,
                            count |-> IF offset > 0 THEN 0 ELSE Len(Wants(chain, rows))]

\* What a chain wants is a sequence of rows.
LEMMA WantsType ==
    ASSUME NEW chain, NEW rows \in Seq(Int)
    PROVE  Wants(chain, rows) \in Seq(Int)
BY AmongType, Zenon DEF Wants

\* A limit or offset that is written is a number from 0 on.
LEMMA PositiveIs ==
    ASSUME NEW n \in Int
    PROVE  Q!Positive(n) \in Nat /\ (n >= 0 => Q!Positive(n) = n)
BY DEF Q!Positive

\* Count counts the rows that the chain wants, unless it has an offset.
LEMMA CountShown ==
    ASSUME NEW chain \in Seq(Q!Links), NEW q, BuilderOf(q, chain),
           q.orderBy = TRUE <=> Sorted(chain), NEW dialect, NEW rows \in Seq(Int)
    PROVE  Counts(Q!Count(q, dialect, rows), chain, dialect, rows, Q!Positive(q.offsetN))
<1>0. q \in Builders
    BY DEF BuilderOf
<1>m. PICK m : m = [q EXCEPT !.count = TRUE]
    OBVIOUS
<1>p. PICK p : p = [m EXCEPT !.limitN = 1]
    OBVIOUS
<1>1. /\ p \in Builders /\ p.wheres = q.wheres /\ p.count = TRUE /\ p.orderBy = q.orderBy
      /\ p.limitN = 1 /\ p.offsetN = q.offsetN
  <2>1. /\ m \in Builders /\ m.wheres = q.wheres /\ m.count = TRUE /\ m.orderBy = q.orderBy
        /\ m.limitN = q.limitN /\ m.offsetN = q.offsetN
      BY ONLY <1>0, <1>m DEF Builders
  <2>m. m \in Builders /\ 1 \in Int
      BY <2>1
  <2>2. p \in Builders
      BY ONLY <2>m, <1>p DEF Builders
  <2>3. p.wheres = m.wheres /\ p.offsetN = m.offsetN
      BY ONLY <2>1, <1>p DEF Builders
  <2>4. p.count = m.count
      BY ONLY <2>1, <1>p DEF Builders
  <2>5. p.orderBy = m.orderBy
      BY ONLY <2>1, <1>p DEF Builders
  <2>6. p.limitN = 1
      BY ONLY <2>1, <1>p DEF Builders
  <2> QED
      BY ONLY <2>1, <2>2, <2>3, <2>4, <2>5, <2>6
<1>2. BuilderOf(p, chain)
    BY <1>1 DEF BuilderOf
<1>r. PICK r : r = Q!Get(p, dialect, rows)
    OBVIOUS
<1>3. Q!Count(q, dialect, rows) = Q!CountOf(r)
    BY <1>m, <1>p, <1>r, Zenon DEF Q!Count, Q!First
<1>w. PICK w \in Seq(Int) : w = Wants(chain, rows)
    BY WantsType
<1>n. PICK n \in Nat : n = Len(w)
    OBVIOUS
<1>o. PICK offset \in Nat : offset = Q!Positive(q.offsetN) /\ offset = Q!Positive(p.offsetN)
    BY <1>0, <1>1, PositiveIs DEF Builders
<1>4. Q!Positive(p.limitN) = 1
    BY <1>1 DEF Q!Positive
<1>5. Gotten(r, chain, dialect, rows, p, 1, offset)
    BY <1>2, <1>4, <1>o, <1>r, GetGives, Zenon
<1>6. SelectRefused(chain, dialect, 1, offset, p.count = TRUE /\ p.orderBy = TRUE)
      <=> EmptyIn(chain) \/ (dialect = "postgres" /\ Sorted(chain))
  <2>1. 1 # 0
      OBVIOUS
  <2> QED
      BY <1>1, <2>1, Zenon DEF SelectRefused
<1>7. CASE EmptyIn(chain) \/ (dialect = "postgres" /\ Sorted(chain))
  <2>1. r = Q!Error
      BY <1>5, <1>6, <1>7, Zenon DEF Gotten
  <2>2. ~r.ok
      BY <2>1 DEF Q!Error
  <2>3. Q!CountOf(r) = Q!Error
      BY <2>2, Zenon DEF Q!CountOf
  <2> QED
      BY <1>3, <1>7, <1>o, <2>3, Zenon DEF Counts
<1>8. CASE ~(EmptyIn(chain) \/ (dialect = "postgres" /\ Sorted(chain)))
  <2>1. r = [ok |-> TRUE, rows |-> Q!Slice(<<n>>, offset, 1)]
      BY <1>1, <1>5, <1>6, <1>8, <1>n, <1>w, Zenon DEF Gotten
  <2>2. r.ok /\ r.rows = IF offset > 0 THEN <<>> ELSE <<n>>
    <3>1. r.ok = TRUE /\ r.rows = Q!Slice(<<n>>, offset, 1)
        BY <2>1
    <3> QED
        BY <3>1, OneRow
  <2>3. Q!CountOf(r) = [ok |-> TRUE, count |-> IF r.rows = <<>> THEN 0 ELSE r.rows[1]]
      BY <2>2, Zenon DEF Q!CountOf
  <2>4. (IF r.rows = <<>> THEN 0 ELSE r.rows[1]) = IF offset > 0 THEN 0 ELSE n
      BY <2>2
  <2>5. Q!CountOf(r) = [ok |-> TRUE, count |-> IF offset > 0 THEN 0 ELSE n]
      BY <2>3, <2>4, Zenon
  <2> QED
      BY <1>3, <1>8, <1>n, <1>o, <1>w, <2>5, Zenon DEF Counts
<1> QED
    BY <1>7, <1>8

RowsPart(rows, from, n) == SubSeq(rows, from + 1, Q!Min({Len(rows), from + n}))

\* The rows a SELECT answers with.
LEMMA SliceIs ==
    ASSUME NEW rows \in Seq(Int), NEW offset \in Nat, NEW n \in Nat
    PROVE  Q!Slice(rows, offset, n) = RowsPart(rows, offset, IF n = 0 THEN Len(rows) ELSE n)
<1>l. PICK l \in Nat : l = Len(rows)
    OBVIOUS
<1>1. CASE n = 0
  <2>1. Q!Slice(rows, offset, n) = SubSeq(rows, offset + 1, l)
      BY <1>1, <1>l DEF Q!Slice
  <2>2. Q!Min({l, offset + l}) = l
      BY MinIs
  <2>3. RowsPart(rows, offset, l) = SubSeq(rows, offset + 1, l)
      BY <1>l, <2>2, Zenon DEF RowsPart
  <2> QED
      BY <1>1, <1>l, <2>1, <2>3, Zenon
<1>2. CASE n > 0
  <2>1. n # 0
      BY <1>2
  <2> QED
      BY <1>2, <2>1, Zenon DEF Q!Slice, RowsPart
<1> QED
    BY <1>1, <1>2

\* What QueriesExplained says of a chain, its call and its result, by parts.
Settled(c, r, chain, offset, limit) ==
    r.ok <=> /\ ~EmptyIn(chain)
             /\ ~(c.end = "Get" /\ offset > 0 /\ limit = 0 /\ c.dialect # "postgres")
             /\ ~(c.end \in {"Count", "Paginate"} /\ Sorted(chain) /\ c.dialect = "postgres")

AnswerFits(c, r, offset, limit, all) ==
    /\ r.ok /\ c.end \in {"Update", "Delete"} => r.rows = all
    /\ r.ok /\ c.end = "Update" => r.data = <<7, 8>>
    /\ r.ok /\ c.end = "Get" =>
          r.rows = RowsPart(all, offset, IF limit = 0 THEN Len(all) ELSE limit)
    /\ r.ok /\ c.end = "First" => r.rows = RowsPart(all, offset, 1)
    /\ r.ok /\ c.end \in {"Count", "Paginate"} => r.count = IF offset > 0 THEN 0 ELSE Len(all)

Paged(c, r, offset, all, then) ==
    /\ r.rows = RowsPart(then, (r.current - 1) * r.per, r.per)
    /\ r.last >= 1 /\ r.count <= r.last * r.per
    /\ r.last > 1 => r.count > (r.last - 1) * r.per
    /\ offset = 0 /\ c.before = c.after =>
          /\ r.rows # <<>> <=> r.current <= r.last /\ r.count > 0
          /\ r.to <= r.count
          /\ r.rows = IF r.from = 0 THEN <<>> ELSE SubSeq(all, r.from, r.to)

\* The parts make the whole.
LEMMA ExplainedBy ==
    ASSUME NEW c, NEW r, NEW chain, chain = c.chain,
           NEW offset, offset = Q!Positive(Q!Given(chain, "Offset")),
           NEW limit, limit = Q!Positive(Q!Given(chain, "Limit")),
           NEW all, all = Wants(chain, c.before),
           Settled(c, r, chain, offset, limit), AnswerFits(c, r, offset, limit, all),
           r.ok /\ c.end = "Paginate" => Paged(c, r, offset, all, Wants(chain, c.after))
    PROVE  Q!QueriesExplained(c, r)
<1>1. EmptyIn(chain) <=> \E i \in DOMAIN c.chain :
                            c.chain[i].call = "WhereIn" /\ c.chain[i].values = <<>>
    BY Zenon DEF EmptyIn, Empty
<1>2. Sorted(chain) <=> \E i \in DOMAIN c.chain : c.chain[i].call = "OrderBy"
    BY Zenon DEF Sorted
<1>3. /\ offset = Q!Positive(Q!Given(c.chain, "Offset"))
      /\ limit = Q!Positive(Q!Given(c.chain, "Limit"))
      /\ all = Wants(c.chain, c.before)
    BY Zenon
<1> DEFINE E == \E i \in DOMAIN c.chain : c.chain[i].call = "WhereIn" /\ c.chain[i].values = <<>>
           S == \E i \in DOMAIN c.chain : c.chain[i].call = "OrderBy"
           o == Q!Positive(Q!Given(c.chain, "Offset"))
           l == Q!Positive(Q!Given(c.chain, "Limit"))
           a == Wants(c.chain, c.before)
           t == Wants(c.chain, c.after)
<1>4. Q!QueriesExplained(c, r)
      <=> /\ r.ok <=> /\ ~E /\ ~(c.end = "Get" /\ o > 0 /\ l = 0 /\ c.dialect # "postgres")
                      /\ ~(c.end \in {"Count", "Paginate"} /\ S /\ c.dialect = "postgres")
          /\ r.ok /\ c.end \in {"Update", "Delete"} => r.rows = a
          /\ r.ok /\ c.end = "Update" => r.data = <<7, 8>>
          /\ r.ok /\ c.end = "Get" => r.rows = RowsPart(a, o, IF l = 0 THEN Len(a) ELSE l)
          /\ r.ok /\ c.end = "First" => r.rows = RowsPart(a, o, 1)
          /\ r.ok /\ c.end \in {"Count", "Paginate"} =>
                r.count = IF o > 0 THEN 0 ELSE Len(a)
          /\ r.ok /\ c.end = "Paginate" => Paged(c, r, o, a, t)
    BY ONLY Zenon DEF Q!QueriesExplained, RowsPart, Paged, Wants
<1>5. Settled(c, r, chain, o, l) /\ AnswerFits(c, r, o, l, a)
      /\ (r.ok /\ c.end = "Paginate" => Paged(c, r, o, a, t))
    BY <1>3, Zenon
<1> HIDE DEF o, l, a, t
<1>6. r.ok <=> /\ ~E /\ ~(c.end = "Get" /\ o > 0 /\ l = 0 /\ c.dialect # "postgres")
               /\ ~(c.end \in {"Count", "Paginate"} /\ S /\ c.dialect = "postgres")
    BY <1>1, <1>2, <1>5, Zenon DEF Settled
<1> QED
    BY <1>4, <1>5, <1>6, Zenon DEF AnswerFits

\* What an update or a delete gives.
LEMMA RunsChange ==
    ASSUME NEW chain \in Seq(Q!Links), NEW q, BuilderOf(q, chain), NEW dialect,
           NEW data \in Seq(Int), NEW s, Made(s, q, dialect, data), Plain(s),
           NEW rows \in Seq(Int), NEW r, r = Q!exec(s, dialect, rows)
    PROVE  /\ r.ok <=> ~EmptyIn(chain)
           /\ r.ok => /\ r.rows = Wants(chain, rows)
                      /\ r.data = [i \in DOMAIN s.sets |-> Q!Bound(s, s.sets[i], i)]
<1>1. Obeys(s, chain)
    BY StatementObeys, Zenon
<1>d. PICK d : d = [i \in DOMAIN s.sets |-> Q!Bound(s, s.sets[i], i)]
    OBVIOUS
<1>w. PICK w : w = Wants(chain, rows)
    OBVIOUS
<1>2. /\ EmptyIn(chain) => r = Q!Error
      /\ ~EmptyIn(chain) => r = [ok |-> TRUE, rows |-> w, data |-> d]
    BY <1>1, <1>d, <1>w, Executes, Zenon
<1>3. CASE EmptyIn(chain)
  <2>1. r.ok = FALSE
      BY <1>2, <1>3 DEF Q!Error
  <2> QED
      BY <1>3, <2>1, Zenon
<1>4. CASE ~EmptyIn(chain)
  <2>1. r.ok = TRUE /\ r.rows = w /\ r.data = d
      BY <1>2, <1>4
  <2> QED
      BY <1>4, <1>d, <1>w, <2>1, Zenon
<1> QED
    BY <1>3, <1>4, Zenon

Own(s, data) == [i \in DOMAIN s.sets |-> Q!Bound(s, s.sets[i], i)] = data

\* Every column of an update is set to its own value.
LEMMA SetsOwn ==
    ASSUME NEW q \in Builders, NEW dialect, NEW data \in Seq(Int),
           NEW s, Writing(s, q, dialect, data)
    PROVE  Own(s, data)
<1>n. PICK n \in Nat : n = Len(data) + 1
    OBVIOUS
<1>b. PICK b : b = Q!buildWhere(q, dialect, n)
    OBVIOUS
<1>1. b \in BuiltWheres
    BY <1>b, ClauseMade
<1>a. PICK a \in Seq(Int) : a = b.args
    BY <1>1 DEF BuiltWheres
<1>2. s.args = data \o a /\ s.sets = [i \in DOMAIN data |-> Q!Placeholder(dialect, i)]
    BY <1>a, <1>b, <1>n, Zenon DEF Writing, Made, Carries
<1>3. DOMAIN s.sets = DOMAIN data /\ DOMAIN data = 1..Len(data)
    BY <1>2
<1>4. ASSUME NEW i \in 1..Len(data) PROVE Q!Bound(s, s.sets[i], i) = data[i]
  <2>1. s.sets[i] = IF dialect = "postgres" THEN i ELSE 0
      BY <1>2, <1>3 DEF Q!Placeholder
  <2>2. Q!Bound(s, s.sets[i], i) = s.args[i]
    <3>1. (IF s.sets[i] = 0 THEN i ELSE s.sets[i]) = i
        BY <2>1
    <3> QED
        BY <3>1, Zenon DEF Q!Bound
  <2>3. (data \o a)[i] = data[i]
      BY ONLY data \in Seq(Int), a \in Seq(Int), i \in 1..Len(data), ConcatProperties
  <2> QED
      BY <1>2, <2>2, <2>3
<1>5. [i \in DOMAIN s.sets |-> Q!Bound(s, s.sets[i], i)] = [i \in DOMAIN data |-> data[i]]
    BY <1>3, <1>4, Zenon
<1>6. data = [i \in DOMAIN data |-> data[i]]
    OBVIOUS
<1> QED
    BY <1>5, <1>6, Zenon DEF Own

\* An update is explained.
LEMMA UpdateExplained ==
    ASSUME NEW c, NEW chain \in Seq(Q!Links), chain = c.chain, c.before \in Seq(Int),
           c.end = "Update", NEW r, r = Q!Run(c)
    PROVE  Q!QueriesExplained(c, r)
<1>q. PICK q, data : q = Q!Chain(chain) /\ data = <<7, 8>>
    OBVIOUS
<1>1. BuilderOf(q, chain) /\ q \in Builders
    BY <1>q, ChainFollows DEF BuilderOf
<1>2. data \in Seq(Int)
    BY <1>q
<1>s. PICK s : s = Q!buildUpdate(q, c.dialect, data)
    OBVIOUS
<1>3. Writing(s, q, c.dialect, data)
    BY <1>1, <1>2, <1>s, Updates, Zenon
<1>4. r = Q!exec(s, c.dialect, c.before)
  <2>1. Q!Run(c) = Q!Update(q, c.dialect, data, c.before)
      BY <1>q DEF Q!Run
  <2> QED
      BY <1>s, <2>1, Zenon DEF Q!Update
<1>5. /\ r.ok <=> ~EmptyIn(chain)
      /\ r.ok => /\ r.rows = Wants(chain, c.before)
                 /\ r.data = [i \in DOMAIN s.sets |-> Q!Bound(s, s.sets[i], i)]
  <2>1. Made(s, q, c.dialect, data) /\ Plain(s)
      BY <1>3, Zenon DEF Writing
  <2> QED
      BY <1>1, <1>2, <1>4, <2>1, RunsChange
<1>6. [i \in DOMAIN s.sets |-> Q!Bound(s, s.sets[i], i)] = data
  <2>1. Own(s, data)
      BY <1>1, <1>2, <1>3, SetsOwn, Zenon
  <2> QED
      BY ONLY <2>1, Zenon DEF Own
<1>7. c.end # "Get" /\ c.end # "First" /\ c.end \notin {"Count", "Paginate"}
    OBVIOUS
<1>x. PICK offset, limit, all : /\ offset = Q!Positive(Q!Given(chain, "Offset"))
                                /\ limit = Q!Positive(Q!Given(chain, "Limit"))
                                /\ all = Wants(chain, c.before)
    OBVIOUS
<1>8. Settled(c, r, chain, offset, limit)
    BY <1>5, <1>7, Zenon DEF Settled
<1>9. AnswerFits(c, r, offset, limit, all)
    BY <1>5, <1>6, <1>7, <1>q, <1>x, Zenon DEF AnswerFits
<1>10. c.end # "Paginate"
    OBVIOUS
<1> QED
    BY <1>8, <1>9, <1>10, <1>x, ExplainedBy

\* A delete is explained.
LEMMA DeleteExplained ==
    ASSUME NEW c, NEW chain \in Seq(Q!Links), chain = c.chain, c.before \in Seq(Int),
           c.end = "Delete", NEW r, r = Q!Run(c)
    PROVE  Q!QueriesExplained(c, r)
<1>q. PICK q, p, data : /\ q = Q!Chain(chain) /\ p = [q EXCEPT !.orderBy = FALSE]
                        /\ data = <<>>
    OBVIOUS
<1>1. BuilderOf(q, chain) /\ q \in Builders
    BY <1>q, ChainFollows DEF BuilderOf
<1>2. data \in Seq(Int)
    BY <1>q
<1>3. p \in Builders /\ p.wheres = q.wheres
    BY <1>1, <1>q DEF Builders
<1>4. BuilderOf(p, chain)
    BY <1>1, <1>3, Zenon DEF BuilderOf
<1>s. PICK s : s = Q!buildDelete(q, c.dialect)
    OBVIOUS
<1>5. Made(s, p, c.dialect, data) /\ Plain(s)
  <2>1. /\ Made(Q!buildDelete(q, c.dialect), [q EXCEPT !.orderBy = FALSE], c.dialect, <<>>)
        /\ Plain(Q!buildDelete(q, c.dialect))
      BY <1>1, Deletes, Zenon
  <2> QED
      BY <1>q, <1>s, <2>1, Zenon
<1>6. r = Q!exec(s, c.dialect, c.before)
  <2>1. Q!Run(c) = Q!Delete(q, c.dialect, c.before)
      BY <1>q DEF Q!Run
  <2> QED
      BY <1>s, <2>1, Zenon DEF Q!Delete
<1>7. /\ r.ok <=> ~EmptyIn(chain)
      /\ r.ok => r.rows = Wants(chain, c.before)
  <2>1. /\ r.ok <=> ~EmptyIn(chain)
        /\ r.ok => /\ r.rows = Wants(chain, c.before)
                   /\ r.data = [i \in DOMAIN s.sets |-> Q!Bound(s, s.sets[i], i)]
      BY ONLY <1>2, <1>4, <1>5, <1>6, chain \in Seq(Q!Links), c.before \in Seq(Int), RunsChange
  <2> QED
      BY <2>1, Zenon
<1>8. /\ c.end # "Get" /\ c.end # "First" /\ c.end \notin {"Count", "Paginate"}
      /\ c.end # "Update" /\ c.end # "Paginate"
    OBVIOUS
<1>x. PICK offset, limit, all : /\ offset = Q!Positive(Q!Given(chain, "Offset"))
                                /\ limit = Q!Positive(Q!Given(chain, "Limit"))
                                /\ all = Wants(chain, c.before)
    OBVIOUS
<1>9. Settled(c, r, chain, offset, limit)
    BY <1>7, <1>8, Zenon DEF Settled
<1>10. AnswerFits(c, r, offset, limit, all)
    BY <1>7, <1>8, <1>x, Zenon DEF AnswerFits
<1> QED
    BY <1>8, <1>9, <1>10, <1>x, ExplainedBy

\* What a chain sets.
LEMMA GivenType ==
    ASSUME NEW chain \in Seq(Q!Links)
    PROVE  /\ Q!Given(chain, "Limit") \in Int /\ Q!Given(chain, "Offset") \in Int
           /\ Q!Positive(Q!Given(chain, "Limit")) \in Nat
           /\ Q!Positive(Q!Given(chain, "Offset")) \in Nat
<1>q. PICK q : q = Q!Chain(chain)
    OBVIOUS
<1>1. /\ q \in Builders /\ q.limitN = Q!Given(chain, "Limit")
      /\ q.offsetN = Q!Given(chain, "Offset")
    BY <1>q, ChainMakes
<1>2. q.limitN \in Int /\ q.offsetN \in Int
    BY <1>1 DEF Builders
<1> QED
    BY <1>1, <1>2, PositiveIs

GivesRows(r, chain, dialect, rows, limit, offset) ==
    /\ r.ok <=> ~(EmptyIn(chain) \/ (dialect # "postgres" /\ offset > 0 /\ limit = 0))
    /\ r.ok => r.rows = RowsPart(Wants(chain, rows), offset,
                             IF limit = 0 THEN Len(Wants(chain, rows)) ELSE limit)

\* The rows that a SELECT without a count gives.
LEMMA RowsAre ==
    ASSUME NEW chain \in Seq(Q!Links), NEW dialect, NEW rows \in Seq(Int),
           NEW limit \in Nat, NEW offset \in Nat,
           NEW r, Shows(r, chain, dialect, rows, limit, offset)
    PROVE  GivesRows(r, chain, dialect, rows, limit, offset)
<1>w. PICK w \in Seq(Int) : w = Wants(chain, rows)
    BY WantsType
<1>x. PICK x : x = Q!Slice(w, offset, limit)
    OBVIOUS
<1>1. x = RowsPart(w, offset, IF limit = 0 THEN Len(w) ELSE limit)
    BY <1>x, SliceIs, Zenon
<1>2. CASE EmptyIn(chain) \/ (dialect # "postgres" /\ offset > 0 /\ limit = 0)
  <2>1. r = Q!Error
      BY <1>2, Zenon DEF Shows
  <2>2. r.ok = FALSE
      BY <2>1 DEF Q!Error
  <2> QED
      BY <1>2, <2>2, Zenon DEF GivesRows
<1>3. CASE ~(EmptyIn(chain) \/ (dialect # "postgres" /\ offset > 0 /\ limit = 0))
  <2>1. r = [ok |-> TRUE, rows |-> x]
      BY <1>3, <1>w, <1>x, Zenon DEF Shows
  <2>2. r.ok = TRUE /\ r.rows = x
      BY <2>1
  <2> QED
      BY <1>1, <1>3, <1>w, <2>2, Zenon DEF GivesRows
<1> QED
    BY <1>2, <1>3, Zenon

\* Get is explained.
LEMMA GetExplained ==
    ASSUME NEW c, NEW chain \in Seq(Q!Links), chain = c.chain, c.before \in Seq(Int),
           c.end = "Get", NEW r, r = Q!Run(c)
    PROVE  Q!QueriesExplained(c, r)
<1>q. PICK q : q = Q!Chain(chain)
    OBVIOUS
<1>1. /\ BuilderOf(q, chain) /\ q.count = FALSE
      /\ q.limitN = Q!Given(chain, "Limit") /\ q.offsetN = Q!Given(chain, "Offset")
    BY <1>q, ChainFollows
<1>a. PICK all : all = Wants(chain, c.before)
    OBVIOUS
<1>x. PICK offset \in Nat, limit \in Nat : /\ offset = Q!Positive(Q!Given(chain, "Offset"))
                                          /\ limit = Q!Positive(Q!Given(chain, "Limit"))
    BY GivenType
<1>2. r = Q!Get(q, c.dialect, c.before)
    BY <1>q DEF Q!Run
<1>3. Shows(r, chain, c.dialect, c.before, limit, offset)
  <2>1. Shows(Q!Get(q, c.dialect, c.before), chain, c.dialect, c.before,
              Q!Positive(q.limitN), Q!Positive(q.offsetN))
      BY <1>1, RowsShown, Zenon
  <2> QED
      BY <1>1, <1>2, <1>x, <2>1
<1>4. /\ r.ok <=> ~(EmptyIn(chain) \/ (c.dialect # "postgres" /\ offset > 0 /\ limit = 0))
      /\ r.ok => r.rows = RowsPart(all, offset, IF limit = 0 THEN Len(all) ELSE limit)
  <2>1. /\ r.ok <=> ~(EmptyIn(chain) \/ (c.dialect # "postgres" /\ offset > 0 /\ limit = 0))
        /\ r.ok => r.rows = RowsPart(Wants(chain, c.before), offset,
                                 IF limit = 0 THEN Len(Wants(chain, c.before)) ELSE limit)
    <3>1. GivesRows(r, chain, c.dialect, c.before, limit, offset)
        BY <1>3, RowsAre, Zenon
    <3> QED
        BY ONLY <3>1, Zenon DEF GivesRows
  <2> QED
      BY <1>a, <2>1, Zenon
<1>5. /\ c.end # "First" /\ c.end \notin {"Count", "Paginate"} /\ c.end # "Paginate"
      /\ c.end \notin {"Update", "Delete"} /\ c.end # "Update"
    OBVIOUS
<1>6. Settled(c, r, chain, offset, limit)
    BY <1>4, <1>5, Zenon DEF Settled
<1>7. AnswerFits(c, r, offset, limit, all)
    BY <1>4, <1>5, Zenon DEF AnswerFits
<1> QED
    BY <1>5, <1>6, <1>7, <1>a, <1>x, ExplainedBy

\* First is explained.
LEMMA FirstExplained ==
    ASSUME NEW c, NEW chain \in Seq(Q!Links), chain = c.chain, c.before \in Seq(Int),
           c.end = "First", NEW r, r = Q!Run(c)
    PROVE  Q!QueriesExplained(c, r)
<1>q. PICK q, p : q = Q!Chain(chain) /\ p = [q EXCEPT !.limitN = 1]
    OBVIOUS
<1>1. /\ BuilderOf(q, chain) /\ q.count = FALSE /\ q.offsetN = Q!Given(chain, "Offset")
    BY <1>q, ChainFollows
<1>2. q \in Builders /\ 1 \in Int
    BY <1>1 DEF BuilderOf
<1>3. p \in Builders
    BY ONLY <1>2, <1>q DEF Builders
<1>4. p.wheres = q.wheres /\ p.count = q.count /\ p.limitN = 1 /\ p.offsetN = q.offsetN
    BY ONLY <1>2, <1>q DEF Builders
<1>5. BuilderOf(p, chain) /\ p.count = FALSE
    BY <1>1, <1>3, <1>4, Zenon DEF BuilderOf
<1>a. PICK all : all = Wants(chain, c.before)
    OBVIOUS
<1>x. PICK offset \in Nat, limit \in Nat : /\ offset = Q!Positive(Q!Given(chain, "Offset"))
                                          /\ limit = Q!Positive(Q!Given(chain, "Limit"))
    BY GivenType
<1>l. PICK l \in Nat : l = 1
    OBVIOUS
<1>6. r = Q!Get(p, c.dialect, c.before)
    BY <1>q, Zenon DEF Q!Run, Q!First
<1>7. Shows(r, chain, c.dialect, c.before, l, offset)
  <2>1. Shows(Q!Get(p, c.dialect, c.before), chain, c.dialect, c.before,
              Q!Positive(p.limitN), Q!Positive(p.offsetN))
      BY <1>5, RowsShown, Zenon
  <2>2. Q!Positive(p.limitN) = l
      BY <1>4, <1>l DEF Q!Positive
  <2>3. Q!Positive(p.offsetN) = offset
      BY <1>1, <1>4, <1>x, Zenon
  <2> QED
      BY ONLY <1>6, <2>1, <2>2, <2>3, Zenon
<1>8. l # 0
    BY <1>l
<1>9. /\ r.ok <=> ~EmptyIn(chain)
      /\ r.ok => r.rows = RowsPart(all, offset, l)
  <2>1. /\ r.ok <=> ~(EmptyIn(chain) \/ (c.dialect # "postgres" /\ offset > 0 /\ l = 0))
        /\ r.ok => r.rows = RowsPart(Wants(chain, c.before), offset,
                                 IF l = 0 THEN Len(Wants(chain, c.before)) ELSE l)
    <3>1. GivesRows(r, chain, c.dialect, c.before, l, offset)
        BY <1>7, RowsAre, Zenon
    <3> QED
        BY ONLY <3>1, Zenon DEF GivesRows
  <2> QED
      BY <1>8, <1>a, <2>1, Zenon
<1>10. /\ c.end # "Get" /\ c.end \notin {"Count", "Paginate"} /\ c.end # "Paginate"
       /\ c.end \notin {"Update", "Delete"} /\ c.end # "Update"
    OBVIOUS
<1>11. Settled(c, r, chain, offset, limit)
    BY <1>9, <1>10, Zenon DEF Settled
<1>12. AnswerFits(c, r, offset, limit, all)
    BY <1>9, <1>10, <1>l, Zenon DEF AnswerFits
<1> QED
    BY <1>10, <1>11, <1>12, <1>a, <1>x, ExplainedBy

\* Count is explained.
LEMMA CountExplained ==
    ASSUME NEW c, NEW chain \in Seq(Q!Links), chain = c.chain, c.before \in Seq(Int),
           c.end = "Count", NEW r, r = Q!Run(c)
    PROVE  Q!QueriesExplained(c, r)
<1>q. PICK q : q = Q!Chain(chain)
    OBVIOUS
<1>1. /\ BuilderOf(q, chain) /\ (q.orderBy = TRUE <=> Sorted(chain))
      /\ q.offsetN = Q!Given(chain, "Offset")
    BY <1>q, ChainFollows
<1>x. PICK offset, limit, all :
          /\ offset = Q!Positive(Q!Given(chain, "Offset"))
          /\ limit = Q!Positive(Q!Given(chain, "Limit")) /\ all = Wants(chain, c.before)
    OBVIOUS
<1>2. r = Q!Count(q, c.dialect, c.before)
    BY <1>q DEF Q!Run
<1>3. Counts(r, chain, c.dialect, c.before, offset)
  <2>1. Counts(Q!Count(q, c.dialect, c.before), chain, c.dialect, c.before,
               Q!Positive(q.offsetN))
      BY <1>1, CountShown, Zenon
  <2> QED
      BY <1>1, <1>2, <1>x, <2>1
<1>n. PICK n : n = IF offset > 0 THEN 0 ELSE Len(all)
    OBVIOUS
<1>4. /\ r.ok <=> ~(EmptyIn(chain) \/ (c.dialect = "postgres" /\ Sorted(chain)))
      /\ r.ok => r.count = n
  <2>1. CASE EmptyIn(chain) \/ (c.dialect = "postgres" /\ Sorted(chain))
    <3>1. r = Q!Error
        BY <1>3, <2>1, Zenon DEF Counts
    <3>2. r.ok = FALSE
        BY <3>1 DEF Q!Error
    <3> QED
        BY <2>1, <3>2, Zenon
  <2>2. CASE ~(EmptyIn(chain) \/ (c.dialect = "postgres" /\ Sorted(chain)))
    <3>1. r = [ok |-> TRUE, count |-> n]
        BY <1>3, <1>n, <1>x, <2>2, Zenon DEF Counts
    <3>2. r.ok = TRUE /\ r.count = n
        BY <3>1
    <3> QED
        BY <2>2, <3>2, Zenon
  <2> QED
      BY <2>1, <2>2, Zenon
<1>5. /\ c.end # "Get" /\ c.end # "First" /\ c.end \in {"Count", "Paginate"}
      /\ c.end # "Paginate" /\ c.end \notin {"Update", "Delete"} /\ c.end # "Update"
    OBVIOUS
<1>6. Settled(c, r, chain, offset, limit)
    BY <1>4, <1>5, Zenon DEF Settled
<1>7. AnswerFits(c, r, offset, limit, all)
    BY <1>4, <1>5, <1>n, Zenon DEF AnswerFits
<1> QED
    BY <1>5, <1>6, <1>7, <1>x, ExplainedBy

\* The number of pages.
LEMMA Quotient ==
    ASSUME NEW n \in Nat \ {0}, NEW per \in Nat \ {0},
           NEW d, d = (n + per - 1) \div per
    PROVE  d \in Nat \ {0} /\ n <= d * per /\ n > (d - 1) * per
<1>0. (n + per - 1) \in Nat
    OBVIOUS
<1>x. PICK x \in Nat : x = n + per - 1
    BY <1>0
<1>1. d = x \div per
    BY <1>x
<1>2. d \in Int /\ x = per * d + (x % per) /\ x % per \in 0..per - 1
    BY <1>1
<1>3. d * per <= x /\ x < d * per + per
    BY <1>2
<1>4. d > 0
  <2>1. ASSUME d <= 0 PROVE FALSE
    <3>1. d * per <= 0
        BY <1>2, <2>1
    <3> QED
        BY <1>2, <1>3, <1>x, <3>1
  <2> QED
      BY <1>2, <2>1
<1>5. (d - 1) * per = d * per - per
    BY <1>2
<1> QED
    BY <1>2, <1>3, <1>4, <1>5, <1>x

\* Multiples of numbers are in the order of the numbers.
LEMMA TimesOrder ==
    ASSUME NEW a \in Int, NEW b \in Int, a <= b, NEW p \in Nat
    PROVE  a * p \in Int /\ b * p \in Int /\ a * p <= b * p
OBVIOUS

\* A part of some rows: up to where it goes, when it starts before their end.
Ends(rows, from, n) == IF Len(rows) <= from + n THEN Len(rows) ELSE from + n

PartEnds(rows, from, n, m) ==
    /\ m \in Nat /\ m <= Len(rows)
    /\ RowsPart(rows, from, n) = SubSeq(rows, from + 1, m)
    /\ from < Len(rows) => RowsPart(rows, from, n) # <<>> /\ Len(RowsPart(rows, from, n)) = m - from
    /\ from >= Len(rows) => RowsPart(rows, from, n) = <<>>

\* Such a part ends at its number of rows, or where the rows do.
LEMMA PartIs ==
    ASSUME NEW rows \in Seq(Int), NEW from \in Nat, NEW n \in Nat \ {0}
    PROVE  PartEnds(rows, from, n, Ends(rows, from, n))
<1>m. PICK m : m = Ends(rows, from, n)
    OBVIOUS
<1>l. PICK l \in Nat : l = Len(rows)
    OBVIOUS
<1>1. m \in Nat /\ m <= l /\ m = IF l <= from + n THEN l ELSE from + n
    BY <1>l, <1>m DEF Ends
<1>2. Q!Min({l, from + n}) = m
    BY <1>1, MinIs
<1>p. PICK p : p = RowsPart(rows, from, n)
    OBVIOUS
<1>3. p = SubSeq(rows, from + 1, m)
    BY <1>2, <1>l, <1>p, Zenon DEF RowsPart
<1>4. ASSUME from < l PROVE Len(p) = m - from /\ p # <<>>
  <2>1. from + 1 <= m /\ m - (from + 1) + 1 = m - from /\ m - from > 0
      BY <1>1, <1>4
  <2>2. from + 1 \in Int /\ m \in Int /\ \A i \in (from + 1)..m : rows[i] \in Int
      BY <1>1, <1>l
  <2>3. Len(p) = IF from + 1 <= m THEN m - (from + 1) + 1 ELSE 0
      BY ONLY <1>3, <2>2, SubSeqProperties
  <2>4. Len(p) = m - from
      BY <2>1, <2>3
  <2>5. Len(<<>>) = 0
      OBVIOUS
  <2> QED
      BY <2>1, <2>4, <2>5
<1>5. ASSUME from >= l PROVE p = <<>>
  <2>1. m < from + 1 /\ from + 1 \in Int /\ m \in Int
      BY <1>1, <1>5
  <2> QED
      BY ONLY <1>3, <2>1, SubSeqEmpty
<1>6. PartEnds(rows, from, n, m)
    BY <1>1, <1>3, <1>4, <1>5, <1>l, <1>p, Zenon DEF PartEnds
<1> QED
    BY <1>6, <1>m

\* The numbers of a page fit its rows and the total.
PageOf(all, n, current, per, before, rows, last, from, to) ==
    /\ n = Len(all) /\ before = (current - 1) * per /\ rows = RowsPart(all, before, per)
    /\ last = IF n = 0 THEN 1 ELSE (n + per - 1) \div per
    /\ from = IF n > 0 /\ rows # <<>> THEN before + 1 ELSE 0
    /\ to = IF n > 0 /\ rows # <<>> THEN before + Len(rows) ELSE 0

Fitting(all, n, current, rows, last, from, to) ==
    /\ rows # <<>> <=> current <= last /\ n > 0
    /\ to <= n
    /\ rows = IF from = 0 THEN <<>> ELSE SubSeq(all, from, to)

\* A page of rows that do not change between the statements fits their number.
LEMMA PageFits ==
    ASSUME NEW all \in Seq(Int), NEW n, NEW current \in Nat \ {0}, NEW per \in Nat \ {0},
           NEW before, NEW rows, NEW last, NEW from, NEW to,
           PageOf(all, n, current, per, before, rows, last, from, to)
    PROVE  Fitting(all, n, current, rows, last, from, to)
<1>p. /\ n = Len(all) /\ before = (current - 1) * per /\ rows = RowsPart(all, before, per)
      /\ last = IF n = 0 THEN 1 ELSE (n + per - 1) \div per
      /\ from = IF n > 0 /\ rows # <<>> THEN before + 1 ELSE 0
      /\ to = IF n > 0 /\ rows # <<>> THEN before + Len(rows) ELSE 0
    BY Zenon DEF PageOf
<1> USE <1>p
<1>0. n \in Nat /\ before \in Nat
  <2>1. current - 1 \in Nat
      OBVIOUS
  <2> QED
      BY <2>1
<1>m. PICK m : m = Ends(all, before, per)
    OBVIOUS
<1>1. /\ m \in Nat /\ m <= n /\ rows = SubSeq(all, before + 1, m)
      /\ before < n => rows # <<>> /\ Len(rows) = m - before
      /\ before >= n => rows = <<>>
  <2>p. per \in Nat \ {0} /\ all \in Seq(Int) /\ before \in Nat
      BY <1>0
  <2>1. /\ m \in Nat /\ m <= Len(all) /\ RowsPart(all, before, per) = SubSeq(all, before + 1, m)
        /\ before < Len(all) => /\ RowsPart(all, before, per) # <<>>
                                /\ Len(RowsPart(all, before, per)) = m - before
        /\ before >= Len(all) => RowsPart(all, before, per) = <<>>
    <3>1. PartEnds(all, before, per, Ends(all, before, per))
        BY ONLY <2>p, PartIs, Zenon
    <3> QED
        BY ONLY <1>m, <3>1, Zenon DEF PartEnds
  <2>2. rows = RowsPart(all, before, per) /\ n = Len(all)
      OBVIOUS
  <2> QED
      BY ONLY <2>1, <2>2, Zenon
<1>2. CASE before < n
  <2>1. n > 0 /\ rows # <<>> /\ Len(rows) = m - before
      BY <1>0, <1>1, <1>2
  <2>2. from = before + 1 /\ to = before + Len(rows)
      BY <2>1
  <2>3. to = m /\ from # 0
      BY <1>0, <1>1, <2>1, <2>2
  <2>4. current <= last
    <3>1. last \in Nat \ {0} /\ n <= last * per
      <4>1. n \in Nat \ {0} /\ per \in Nat \ {0} /\ last = (n + per - 1) \div per
          BY <1>0, <2>1
      <4> QED
          BY ONLY <4>1, Quotient
    <3>2. ASSUME last <= current - 1 PROVE FALSE
      <4>1. last * per <= (current - 1) * per /\ last * per \in Int
        <5>1. last \in Int /\ current - 1 \in Int /\ per \in Nat /\ last <= current - 1
            BY <3>1, <3>2
        <5> QED
            BY ONLY <5>1, TimesOrder
      <4> QED
          BY <1>0, <1>2, <3>1, <4>1
    <3> QED
        BY <3>1, <3>2
  <2> QED
      BY <1>1, <2>1, <2>2, <2>3, <2>4 DEF Fitting
<1>3. CASE before >= n
  <2>1. rows = <<>>
      BY <1>1, <1>3
  <2>2. from = 0 /\ to = 0
      BY <2>1
  <2>3. ~(current <= last /\ n > 0)
    <3>1. ASSUME current <= last, n > 0 PROVE FALSE
      <4>1. last \in Nat \ {0} /\ n > (last - 1) * per
        <5>1. n \in Nat \ {0} /\ per \in Nat \ {0} /\ last = (n + per - 1) \div per
            BY <1>0, <3>1
        <5> QED
            BY ONLY <5>1, Quotient
      <4>2. (current - 1) * per <= (last - 1) * per /\ (last - 1) * per \in Int
        <5>1. current - 1 <= last - 1 /\ current - 1 \in Int /\ last - 1 \in Int
            BY <3>1, <4>1
        <5> QED
            BY <5>1, TimesOrder
      <4> QED
          BY <1>0, <1>3, <4>1, <4>2
    <3> QED
        BY <3>1
  <2> QED
      BY <1>0, <2>1, <2>2, <2>3 DEF Fitting
<1> QED
    BY <1>0, <1>2, <1>3

Total(n, offset, all) == n = IF offset > 0 THEN 0 ELSE Len(all)
Statements(total, got, n, then, current, per) ==
    /\ total.ok = TRUE /\ total.count = n
    /\ got.ok /\ got.rows = RowsPart(then, (current - 1) * per, per)
GoodPage(c, r, n, offset, all, then) == r.ok /\ r.count = n /\ Paged(c, r, offset, all, then)

\* The page of a chain, from its two statements.
LEMMA PageExplained ==
    ASSUME NEW c, NEW all \in Seq(Int), NEW then \in Seq(Int), NEW offset \in Nat,
           c.before = c.after => all = then,
           NEW current \in Nat \ {0}, NEW per \in Nat \ {0},
           NEW n, Total(n, offset, all),
           NEW total, NEW got, Statements(total, got, n, then, current, per)
    PROVE  GoodPage(c, Q!PaginationResult(total, got, current, per), n, offset, all, then)
<1>p. PICK r : r = Q!PaginationResult(total, got, current, per)
    OBVIOUS
<1>b. PICK before : before = (current - 1) * per
    OBVIOUS
<1>r. PICK rows : rows = RowsPart(then, before, per)
    OBVIOUS
<1>l. PICK last : last = IF n = 0 THEN 1 ELSE (n + per - 1) \div per
    OBVIOUS
<1>f. PICK from : from = IF n > 0 /\ rows # <<>> THEN before + 1 ELSE 0
    OBVIOUS
<1>t. PICK to : to = IF n > 0 /\ rows # <<>> THEN before + Len(rows) ELSE 0
    OBVIOUS
<1>0. n \in Nat
    BY DEF Total
<1>s. total.ok = TRUE /\ total.count = n /\ got.ok /\ got.rows = rows
    BY <1>b, <1>r, Zenon DEF Statements
<1>1. r = [ok |-> TRUE, rows |-> rows, count |-> n, current |-> current, per |-> per,
           last |-> last, from |-> from, to |-> to]
    BY <1>b, <1>f, <1>l, <1>p, <1>s, <1>t, Zenon DEF Q!PaginationResult
<1>2. /\ r.ok = TRUE /\ r.rows = rows /\ r.count = n /\ r.current = current /\ r.per = per
      /\ r.last = last /\ r.from = from /\ r.to = to
    BY ONLY <1>1
<1>3. last >= 1 /\ n <= last * per /\ (last > 1 => n > (last - 1) * per)
  <2>1. CASE n = 0
    <3>1. last = 1 /\ last * per = per
      <4>1. last = 1
          BY ONLY <1>l, <2>1, Zenon
      <4> QED
          BY <4>1
    <3> QED
        BY <2>1, <3>1
  <2>2. CASE n # 0
    <3>1. n \in Nat \ {0} /\ last = (n + per - 1) \div per
        BY <1>0, <1>l, <2>2
    <3>p. per \in Nat \ {0}
        OBVIOUS
    <3>2. last \in Nat \ {0} /\ n <= last * per
        BY ONLY <3>1, <3>p, Quotient
    <3>3. n > (last - 1) * per
        BY ONLY <3>1, <3>p, Quotient
    <3> QED
        BY <3>2, <3>3
  <2> QED
      BY <2>1, <2>2
<1>4. ASSUME offset = 0, c.before = c.after
      PROVE  Fitting(all, n, current, rows, last, from, to)
  <2>1. n = Len(all) /\ rows = RowsPart(all, before, per)
    <3>1. all = then
        BY <1>4
    <3>2. n = Len(all)
      <4>1. ~(offset > 0)
          BY <1>4
      <4> QED
          BY <4>1, Zenon DEF Total
    <3> QED
        BY ONLY <1>r, <3>1, <3>2, Zenon
  <2> QED
    <3>1. PageOf(all, n, current, per, before, rows, last, from, to)
        BY ONLY <1>b, <1>f, <1>l, <1>t, <2>1, Zenon DEF PageOf
    <3> QED
        BY <3>1, PageFits, Zenon
<1> QED
  <2>1. Paged(c, r, offset, all, then)
      BY ONLY <1>2, <1>3, <1>4, <1>b, <1>r, Zenon DEF Paged, Fitting
  <2> QED
      BY <1>2, <1>p, <2>1, Zenon DEF GoodPage

\* Paginate is explained.
LEMMA PaginateExplained ==
    ASSUME NEW c, NEW chain \in Seq(Q!Links), chain = c.chain, c.before \in Seq(Int),
           c.after \in Seq(Int), c.page \in Int, c.per \in Int,
           c.end = "Paginate", NEW r, r = Q!Run(c)
    PROVE  Q!QueriesExplained(c, r)
<1>q. PICK q : q = Q!Chain(chain)
    OBVIOUS
<1>1. /\ BuilderOf(q, chain) /\ q.count = FALSE /\ (q.orderBy = TRUE <=> Sorted(chain))
      /\ q.offsetN = Q!Given(chain, "Offset")
    BY <1>q, ChainFollows
<1>2. q \in Builders
    BY <1>1 DEF BuilderOf
<1>u. PICK current \in Nat \ {0} : current = IF c.page <= 0 THEN 1 ELSE c.page
    OBVIOUS
<1>e. PICK per \in Nat \ {0} : per = IF c.per <= 0 THEN 15 ELSE c.per
    OBVIOUS
<1>b. PICK before \in Nat : before = (current - 1) * per
  <2>1. current - 1 \in Nat
      OBVIOUS
  <2> QED
      BY <2>1
<1>p. PICK p : p = [q EXCEPT !.limitN = per, !.offsetN = before]
    OBVIOUS
<1>a. PICK all \in Seq(Int), then \in Seq(Int) :
          all = Wants(chain, c.before) /\ then = Wants(chain, c.after)
    BY WantsType
<1>x. PICK offset \in Nat, limit \in Nat : /\ offset = Q!Positive(Q!Given(chain, "Offset"))
                                          /\ limit = Q!Positive(Q!Given(chain, "Limit"))
    BY GivenType
<1>t. PICK total : total = Q!Count(q, c.dialect, c.before)
    OBVIOUS
<1>g. PICK got : got = Q!Get(p, c.dialect, c.after)
    OBVIOUS
<1>3. r = Q!PaginationResult(total, got, current, per)
  <2>1. Q!Run(c) = Q!Paginate(q, c.dialect, c.page, c.per, c.before, c.after)
      BY <1>q DEF Q!Run
  <2> QED
      BY <1>b, <1>e, <1>g, <1>p, <1>t, <1>u, <2>1, Zenon DEF Q!Paginate
<1>4. p \in Builders
  <2>1. per \in Int /\ before \in Int
      OBVIOUS
  <2> QED
      BY ONLY <1>2, <1>p, <2>1 DEF Builders
<1>5. p.wheres = q.wheres /\ p.count = q.count /\ p.limitN = per /\ p.offsetN = before
    BY ONLY <1>2, <1>p DEF Builders
<1>6. BuilderOf(p, chain) /\ p.count = FALSE
    BY <1>1, <1>4, <1>5, Zenon DEF BuilderOf
<1>7. GivesRows(got, chain, c.dialect, c.after, per, before)
  <2>1. Shows(Q!Get(p, c.dialect, c.after), chain, c.dialect, c.after,
              Q!Positive(p.limitN), Q!Positive(p.offsetN))
      BY <1>6, RowsShown, Zenon
  <2>2. Q!Positive(p.limitN) = per /\ Q!Positive(p.offsetN) = before
    <3>1. per \in Int /\ per >= 0 /\ before \in Int /\ before >= 0
        OBVIOUS
    <3> QED
        BY <1>5, <3>1, PositiveIs
  <2>3. Shows(got, chain, c.dialect, c.after, per, before)
      BY ONLY <1>g, <2>1, <2>2, Zenon
  <2>4. per \in Nat
      OBVIOUS
  <2> QED
      BY <2>3, <2>4, RowsAre, Zenon
<1>8. per # 0
    OBVIOUS
<1>9. /\ got.ok <=> ~EmptyIn(chain)
      /\ got.ok => got.rows = RowsPart(then, before, per)
    BY ONLY <1>7, <1>8, <1>a, Zenon DEF GivesRows
<1>n. PICK n : n = IF offset > 0 THEN 0 ELSE Len(all)
    OBVIOUS
<1>10. /\ EmptyIn(chain) \/ (c.dialect = "postgres" /\ Sorted(chain)) => total = Q!Error
       /\ ~(EmptyIn(chain) \/ (c.dialect = "postgres" /\ Sorted(chain))) =>
             total = [ok |-> TRUE, count |-> n]
  <2>1. Counts(Q!Count(q, c.dialect, c.before), chain, c.dialect, c.before,
               Q!Positive(q.offsetN))
      BY <1>1, CountShown, Zenon
  <2>2. Counts(total, chain, c.dialect, c.before, offset)
      BY <1>1, <1>t, <1>x, <2>1, Zenon
  <2> QED
      BY ONLY <1>a, <1>n, <2>2, Zenon DEF Counts
<1>y. /\ c.end # "Get" /\ c.end # "First" /\ c.end \in {"Count", "Paginate"}
      /\ c.end \notin {"Update", "Delete"} /\ c.end # "Update"
    OBVIOUS
<1>11. CASE EmptyIn(chain) \/ (c.dialect = "postgres" /\ Sorted(chain))
  <2>1. total.ok = FALSE
      BY <1>10, <1>11 DEF Q!Error
  <2>2. r = Q!Error
      BY <1>3, <2>1, Zenon DEF Q!PaginationResult
  <2>3. r.ok = FALSE
      BY <2>2 DEF Q!Error
  <2>4. Settled(c, r, chain, offset, limit)
      BY <1>11, <1>y, <2>3, Zenon DEF Settled
  <2>5. AnswerFits(c, r, offset, limit, all)
      BY <2>3, Zenon DEF AnswerFits
  <2> QED
      BY <1>a, <1>x, <2>3, <2>4, <2>5, ExplainedBy
<1>12. CASE ~(EmptyIn(chain) \/ (c.dialect = "postgres" /\ Sorted(chain)))
  <2>1. total.ok = TRUE /\ total.count = n
      BY <1>10, <1>12
  <2>2. got.ok /\ got.rows = RowsPart(then, (current - 1) * per, per)
      BY <1>9, <1>12, <1>b, Zenon
  <2>4. r.ok /\ r.count = n /\ Paged(c, r, offset, all, then)
    <3>1. Total(n, offset, all)
        BY <1>n, Zenon DEF Total
    <3>2. Statements(total, got, n, then, current, per)
        BY <2>1, <2>2, Zenon DEF Statements
    <3>3. c.before = c.after => all = then
        BY <1>a, Zenon
    <3>4. GoodPage(c, Q!PaginationResult(total, got, current, per), n, offset, all, then)
        BY <3>1, <3>2, <3>3, PageExplained, Zenon
    <3> QED
        BY ONLY <1>3, <3>4, Zenon DEF GoodPage
  <2>5. Settled(c, r, chain, offset, limit)
      BY <1>12, <1>y, <2>4, Zenon DEF Settled
  <2>6. AnswerFits(c, r, offset, limit, all)
      BY <1>n, <1>y, <2>4, Zenon DEF AnswerFits
  <2> QED
      BY <1>a, <1>x, <2>4, <2>5, <2>6, ExplainedBy
<1> QED
    BY <1>11, <1>12

\* What a chain and the call that ends it do is what is promised.
LEMMA QueryExplained ==
    ASSUME NEW c \in Q!Uses
    PROVE  Q!QueriesExplained(c, Q!Run(c))
<1>c. PICK chain \in Seq(Q!Links) : chain = c.chain
    BY DEF Q!Uses
<1>r. PICK r : r = Q!Run(c)
    OBVIOUS
<1>1. /\ c.before \in Seq(Int)
      /\ c.end \in {"Get", "First", "Count", "Update", "Delete", "Paginate"}
    BY DEF Q!Uses
<1>2. ASSUME c.end = "Paginate" PROVE c.after \in Seq(Int) /\ c.page \in Int /\ c.per \in Int
    BY <1>2 DEF Q!Uses
<1>3. CASE c.end = "Get"
    BY <1>1, <1>3, <1>c, <1>r, GetExplained
<1>4. CASE c.end = "First"
    BY <1>1, <1>4, <1>c, <1>r, FirstExplained
<1>5. CASE c.end = "Count"
    BY <1>1, <1>5, <1>c, <1>r, CountExplained
<1>6. CASE c.end = "Update"
    BY <1>1, <1>6, <1>c, <1>r, UpdateExplained
<1>7. CASE c.end = "Delete"
    BY <1>1, <1>7, <1>c, <1>r, DeleteExplained
<1>8. CASE c.end = "Paginate"
    BY <1>1, <1>2, <1>8, <1>c, <1>r, PaginateExplained
<1> QED
    BY <1>1, <1>3, <1>4, <1>5, <1>6, <1>7, <1>8

\* A query does what its chain asks for in every dialect, whatever the calls of the
\* chain, their order and values and the table, the exceptions of QueriesExplained aside.
THEOREM QueriesMeant == Spec => []Queried
<1>1. Init => Queried
    BY DEF Init, Queried, Called
<1>2. Queried /\ [Next]_<<call, result>> => Queried'
  <2> SUFFICES ASSUME Queried, [Next]_<<call, result>> PROVE Queried'
      OBVIOUS
  <2>1. CASE Visit \/ Spell \/ Trade
      BY <2>1 DEF Visit, Spell, Trade, Calling, Queried, Called
  <2>2. CASE Query
    <3>1. PICK c \in Queries : Calling("query", c, Q!Run(c))
        BY <2>2 DEF Query
    <3>2. Q!QueriesExplained(c, Q!Run(c))
        BY CallsAssumption, QueryExplained
    <3>3. call'.args = c /\ result' = Q!Run(c)
        BY <3>1 DEF Calling
    <3> QED
        BY <3>2, <3>3, Zenon DEF Queried
  <2>3. CASE UNCHANGED <<call, result>>
      BY <2>3 DEF Queried, Called
  <2> QED
      BY <2>1, <2>2, <2>3 DEF Next
<1> QED
    BY <1>1, <1>2, PTL DEF Spec
==============================================================================
