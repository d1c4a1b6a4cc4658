------------------------------ MODULE MCCalls --------------------------------
(***************************************************************************)
(* The calls of Calls that TLC tries.                                      *)
(***************************************************************************)
EXTENDS Calls, Sequences, SequencesExt

\* Every declared path, with :id filled in, and near misses of it: a slash too many
\* at an end or inside, a segment too many.
Declared == {<<"">>, <<"health">>, <<"docs">>, <<"openapi.json">>, <<"login">>, <<"logout">>,
             <<"dashboard">>, <<"api", "v1", "login">>, <<"api", "v1", "register">>,
             <<"api", "v1", "me">>, <<"api", "v1", "products">>,
             <<"api", "v1", "products", "7">>}
Paths == UNION {{p, Append(p, ""), <<"">> \o p, Append(p, "x"), <<p[1], "">> \o Tail(p)} :
                p \in Declared}
         \cup {<<"public", "app.css">>, <<"publicity">>, <<"", "public">>}

Methods == {"GET", "POST", "PUT", "DELETE", "OPTIONS"}

Good   == [parts |-> 3, signed |-> TRUE, decodes |-> TRUE,
           expires |-> "number", exp |-> 60, sub |-> TRUE]
Absent == [Good EXCEPT !.parts = 1, !.signed = FALSE]

\* A token on every side of each of the tests.
Borderline ==
    {[Good EXCEPT !.parts = 2], [Good EXCEPT !.signed = FALSE], [Good EXCEPT !.decodes = FALSE],
     [Good EXCEPT !.exp = 0], [Good EXCEPT !.exp = -1], [Good EXCEPT !.expires = "never"],
     [Good EXCEPT !.expires = "other"], [Good EXCEPT !.sub = FALSE]}

\* A name of every dialect and of none, as it is and with blanks around it; no
\* driver, and one of blanks alone.
SomeDrivers == [name : {"", "mysql", "oracle", "pgx", "postgres", "sqlite", "sqlite3"},
                plain : BOOLEAN]

MCVisits ==
    [conf : [driver : {[name |-> "mysql", plain |-> TRUE]}, host : {TRUE}, file : {FALSE},
             up : BOOLEAN],
     rq : [method : Methods, path : Paths, json : BOOLEAN, admitted : BOOLEAN,
           bearer : {Good, Absent}, session : {Good, Absent},
           outcome : {"answers", "panics", "panicsLate"}]]
    \cup
    [conf : [driver : SomeDrivers, host : BOOLEAN, file : BOOLEAN, up : BOOLEAN],
     rq : [method : {"GET"}, path : {<<"api", "v1", "me">>, <<"dashboard">>}, json : {FALSE},
           admitted : {TRUE}, outcome : {"answers"}, session : Borderline,
           bearer : Borderline]]

Links == {[call |-> "Where", op |-> ">=", n |-> 2], [call |-> "Where", op |-> "=", n |-> 3],
          [call |-> "OrWhere", op |-> "=", n |-> 1],
          [call |-> "WhereIn", values |-> <<1, 3>>], [call |-> "WhereIn", values |-> <<>>],
          [call |-> "OrderBy"], [call |-> "Limit", n |-> 2], [call |-> "Limit", n |-> -1],
          [call |-> "Offset", n |-> 1]}

\* Between the two statements of Paginate a row goes, or comes, or neither.
MCQueries ==
    [chain : SeqOf(Links, 3), dialect : Q!Dialects, before : {<<1, 2, 3>>},
     end : {"Get", "First", "Count", "Update", "Delete"}]
    \cup
    [chain : SeqOf(Links, 3), dialect : Q!Dialects, before : {<<1, 2, 3>>}, end : {"Paginate"},
     page : 0..3, per : 0..2, after : {<<1, 2, 3>>, <<1, 3>>, <<1, 2, 3, 4>>}]

\* Groups of three digits that meet every case of a group, and every scale.
Digits == {0, 1, 12, 345, 999}
Canonical(S) == {g \in S : g = <<>> \/ Last(g) # 0}
Thousands == Canonical(SeqOf(Digits, 3))
Billions  == {g \in Canonical(SeqOf({0, 2}, 4)) : Len(g) = 4}

MCAmounts ==
    [groups : Thousands, mills : {0, 4, 5, 15, 50, 994, 995, 999},
     low : BOOLEAN, minus : BOOLEAN, currency : {"BDT", "USD", "EUR", "GBP", "CHF"},
     bengali : BOOLEAN]
    \cup
    [groups : Billions, mills : {0, 999}, low : {FALSE},
     minus : {FALSE}, currency : {"USD"}, bengali : BOOLEAN]
    \cup
    [groups : {g \in Canonical(SeqOf({0, 1, 110}, 6)) : Len(g) > 4}, mills : {0}, low : {FALSE},
     minus : {FALSE}, currency : {"EUR"}, bengali : {FALSE}]

\* What TLC's integers can hold, all that the Bengali conversion is tried on.
MCComputed == Thousands \cup Billions

Forms(name) ==
    [name : {P!Text(0, FALSE, FALSE), P!Text(1, TRUE, FALSE), P!Text(name, FALSE, FALSE)},
     json : BOOLEAN, price : {"missing", "garbage"}]
    \cup
    [name : {P!Text(0, FALSE, FALSE), P!Text(1, TRUE, FALSE), P!Text(name, FALSE, FALSE)},
     json : BOOLEAN, price : {"number"}, number : {-1005, 0, 4, 1000, 1500, 1505}]

MCTrades ==
    [column : {"decimal", "numeric", "real"}, store : Forms(2), update : Forms(3)]
==============================================================================
